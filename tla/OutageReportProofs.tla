------------------------- MODULE OutageReportProofs -------------------------
(***************************************************************************)
(* Theorems about OutageReport, for any capacity of the queue and of the   *)
(* buffer, any number of faults and any length of time.                    *)
(*                                                                         *)
(* Both sides of the report are followed: the rows on their way to the     *)
(* table, which stay in the order of their times, and the changes of mode  *)
(* on their way to the log, of which one that repeats the change before it *)
(* may be dropped.  A request that has left no row is covered by a pause   *)
(* that no kept change ends before it, and between a pause and a row that  *)
(* came after it a kept change ends the pause.                             *)
(***************************************************************************)
EXTENDS OutageReport, FiniteSetTheorems, WellFoundedInduction, TLAPS

-----------------------------------------------------------------------------
Increasing(s) == \A i, j \in 1 .. Len(s) : i < j => s[i] < s[j]

Entries(s) == {s[i] : i \in 1 .. Len(s)}

Before(s, u) == \A r \in Entries(s), t \in Entries(u) : r < t

Rows == Entries(table) \cup Entries(buf) \cup Entries(logq)

(* The changes that are logged or will be looked at by the worker. *)
Known == Stored \cup Entries(modeq)

OrderInv ==
    /\ Increasing(table) /\ Increasing(buf) /\ Increasing(logq)
    /\ Before(table, buf) /\ Before(table, logq) /\ Before(buf, logq)

PastInv == (\A t \in Rows \cup gone \cup heard : t <= now) /\ (\A c \in Known : c.t <= now)

ChangesInv ==
    /\ \A i, j \in 1 .. Len(modeq) : i < j => modeq[i].t < modeq[j].t
    /\ \A c \in Stored, i \in 1 .. Len(modeq) : c.t < modeq[i].t
    /\ \A c, d \in Stored : c.t = d.t => c = d

(* A pause begins with a request that leaves no row, or before the first.  *)
PauseInv ==
    \A c \in Known : c.mode = "off" => c.t \notin Rows \cup gone /\ c.t \in heard \cup {0}

(* Between a pause and a row the pause has ended. *)
ResumeInv ==
    ~lost => \A c \in Known, t \in Rows :
        c.mode = "off" /\ c.t < t => \E d \in Known : d.mode = "on" /\ c.t < d.t /\ d.t <= t

(* From some change on, all have the mode that was seen last. *)
SeenInv ==
    ~lost /\ seen # "none" =>
        \E c \in Known : \A d \in Known : c.t <= d.t => d.mode = seen

(* What became of a request: it has a row, lost its row, or its row has    *)
(* been deleted with all those before it; or the gateway was paused.       *)
Accounted(t) == t \in Rows \cup gone \/ \A r \in Rows : t < r

Pauses(c, t) ==
    c.mode = "off" /\ c.t <= t /\ \A d \in Known : d.mode = "on" /\ c.t < d.t => t < d.t

HeardInv == ~lost => \A t \in heard : Accounted(t) \/ \E c \in Known : Pauses(c, t)

Inv ==
    /\ TypeOK /\ OrderInv /\ PastInv /\ ChangesInv
    /\ PauseInv /\ ResumeInv /\ SeenInv /\ HeardInv

-----------------------------------------------------------------------------
(* A set of naturals has a least element.                                  *)
LEMMA LeastNatural ==
  ASSUME NEW T \in SUBSET Nat, T # {}
  PROVE  \E m \in T : \A n \in T : m <= n
<1>1. PICK m \in T : \A n \in T : <<n, m>> \notin OpToRel(<, Nat)
  BY WFMin, NatLessThanWellFounded, Zenon
<1>2. \A n \in T : ~(n < m)
  BY <1>1, Zenon DEF OpToRel
<1> QED BY <1>2

(* Of the changes with some property, one is the first.                    *)
LEMMA FirstChange ==
  ASSUME NEW C, C # {}, \A c \in C : c.t \in Nat
  PROVE  \E c \in C : \A d \in C : c.t <= d.t
<1>1. PICK m \in {c.t : c \in C} : \A n \in {c.t : c \in C} : m <= n
  BY LeastNatural
<1> QED BY <1>1

LEMMA MinFacts ==
  ASSUME NEW T \in SUBSET Nat, T # {}
  PROVE  Min(T) \in T /\ \A n \in T : Min(T) <= n
<1>1. \E m \in T : \A n \in T : m <= n
  BY LeastNatural
<1> QED BY <1>1 DEF Min

(* Concatenating increasing sequences, and cutting one in two.             *)
LEMMA Concatenated ==
  ASSUME NEW s \in Seq(Nat), NEW u \in Seq(Nat)
  PROVE  /\ s \o u \in Seq(Nat) /\ Entries(s \o u) = Entries(s) \cup Entries(u)
         /\ Increasing(s) /\ Increasing(u) /\ Before(s, u) => Increasing(s \o u)
<1> DEFINE w == s \o u
<1>1. /\ w \in Seq(Nat) /\ Len(w) = Len(s) + Len(u)
      /\ \A i \in 1 .. Len(s) : w[i] = s[i]
      /\ \A i \in 1 .. Len(u) : w[Len(s) + i] = u[i]
  OBVIOUS
<1> HIDE DEF w
<1>2. \A i \in 1 .. Len(w) :
        i \in 1 .. Len(s) \/ (i - Len(s) \in 1 .. Len(u) /\ w[i] = u[i - Len(s)])
  <2> TAKE i \in 1 .. Len(w)
  <2>1. i \in 1 .. Len(s) \/ i - Len(s) \in 1 .. Len(u)
    BY <1>1
  <2>2. i = Len(s) + (i - Len(s))
    BY <1>1
  <2> QED BY <1>1, <2>1, <2>2
<1>3. Entries(w) = Entries(s) \cup Entries(u)
  <2>1. Entries(w) \subseteq Entries(s) \cup Entries(u)
    BY <1>1, <1>2 DEF Entries
  <2>2. \A i \in 1 .. Len(s) : i \in 1 .. Len(w) /\ w[i] = s[i]
    BY <1>1
  <2>3. \A i \in 1 .. Len(u) : Len(s) + i \in 1 .. Len(w) /\ w[Len(s) + i] = u[i]
    BY <1>1
  <2>4. Entries(s) \subseteq Entries(w)
    BY <2>2 DEF Entries
  <2>5. Entries(u) \subseteq Entries(w)
    BY <2>3 DEF Entries
  <2> QED BY <2>1, <2>4, <2>5
<1>4. Increasing(s) /\ Increasing(u) /\ Before(s, u) => Increasing(w)
  <2> SUFFICES ASSUME Increasing(s), Increasing(u), Before(s, u),
                      NEW i \in 1 .. Len(w), NEW j \in 1 .. Len(w), i < j
               PROVE  w[i] < w[j]
    BY DEF Increasing
  <2>1. CASE j \in 1 .. Len(s)
    <3>1. i \in 1 .. Len(s) /\ w[i] = s[i] /\ w[j] = s[j]
      BY <2>1, <1>1
    <3> QED BY <3>1, <2>1 DEF Increasing
  <2>2. CASE i \in 1 .. Len(s) /\ j \notin 1 .. Len(s)
    <3>1. w[i] = s[i] /\ w[j] = u[j - Len(s)] /\ j - Len(s) \in 1 .. Len(u)
      BY <2>2, <1>1, <1>2
    <3> QED BY <3>1, <2>2 DEF Before, Entries
  <2>3. CASE i \notin 1 .. Len(s) /\ j \notin 1 .. Len(s)
    <3> DEFINE k == i - Len(s)  l == j - Len(s)
    <3>1. /\ w[i] = u[k] /\ k \in 1 .. Len(u)
          /\ w[j] = u[l] /\ l \in 1 .. Len(u)
      BY <2>3, <1>1, <1>2
    <3>2. k < l
      BY <1>1
    <3> HIDE DEF k, l
    <3> QED BY <3>1, <3>2 DEF Increasing
  <2> QED BY <2>1, <2>2, <2>3, <1>1
<1> QED BY <1>1, <1>3, <1>4 DEF w

LEMMA Cut ==
  ASSUME NEW s \in Seq(Nat), Increasing(s), NEW k \in 0 .. Len(s)
  PROVE  LET front == SubSeq(s, 1, k)
             rest  == SubSeq(s, k + 1, Len(s))
         IN  /\ front \in Seq(Nat) /\ rest \in Seq(Nat)
             /\ Len(front) = k /\ Len(rest) = Len(s) - k
             /\ Increasing(front) /\ Increasing(rest) /\ Before(front, rest)
             /\ Entries(s) = Entries(front) \cup Entries(rest)
<1> DEFINE front == SubSeq(s, 1, k)
           rest  == SubSeq(s, k + 1, Len(s))
<1>1. /\ front \in Seq(Nat) /\ Len(front) = k
      /\ \A i \in 1 .. k : front[i] = s[i]
  OBVIOUS
<1>2. /\ rest \in Seq(Nat) /\ Len(rest) = Len(s) - k
      /\ \A i \in 1 .. Len(s) - k : rest[i] = s[i + k]
  OBVIOUS
<1> HIDE DEF front, rest
<1>3. Increasing(front) /\ Increasing(rest)
  <2>1. \A i, j \in 1 .. k : i < j => s[i] < s[j]
    BY DEF Increasing
  <2>2. \A i, j \in 1 .. Len(s) - k : i < j => s[i + k] < s[j + k]
    BY DEF Increasing
  <2> QED BY <1>1, <1>2, <2>1, <2>2 DEF Increasing
<1>4. Before(front, rest)
  <2> SUFFICES ASSUME NEW i \in 1 .. k, NEW j \in 1 .. Len(s) - k
               PROVE  s[i] < s[j + k]
    BY <1>1, <1>2 DEF Before, Entries
  <2> QED BY DEF Increasing
<1>5. Entries(s) = Entries(front) \cup Entries(rest)
  <2>1. \A i \in 1 .. Len(s) : i \in 1 .. k \/ (i - k \in 1 .. Len(s) - k /\ rest[i - k] = s[i])
    <3> TAKE i \in 1 .. Len(s)
    <3>1. i \in 1 .. k \/ i - k \in 1 .. Len(s) - k
      OBVIOUS
    <3>2. i = (i - k) + k
      OBVIOUS
    <3> QED BY <3>1, <3>2, <1>2
  <2>2. Entries(s) \subseteq Entries(front) \cup Entries(rest)
    BY <2>1, <1>1, <1>2 DEF Entries
  <2>3. \A i \in 1 .. k : i \in 1 .. Len(s)
    OBVIOUS
  <2>4. \A i \in 1 .. Len(s) - k : i + k \in 1 .. Len(s)
    OBVIOUS
  <2>5. Entries(front) \subseteq Entries(s)
    BY <2>3, <1>1 DEF Entries
  <2>6. Entries(rest) \subseteq Entries(s)
    BY <2>4, <1>2 DEF Entries
  <2> QED BY <2>2, <2>5, <2>6
<1> QED BY <1>1, <1>2, <1>3, <1>4, <1>5 DEF front, rest

-----------------------------------------------------------------------------
(* What the recorder's own steps do to the rows: none is invented, none    *)
(* overtakes another, and none vanishes but by a reset.                    *)
LogStep ==
    \/ WriteBatch \/ WriteFails \/ Snapshot \/ OpenDb \/ CloseDb
    \/ RequestReset \/ EraseRows \/ EraseFails \/ LogRestart

RowsKept ==
    /\ Rows' \subseteq Rows /\ gone \subseteq gone' /\ gone' \subseteq gone \cup Rows
    /\ \A t \in Rows : t \in Rows' \cup gone' \/ \A r \in Rows' : t < r

LEMMA BatchBounds ==
  ASSUME TypeOK, logq # <<>>
  PROVE  Batch \in 1 .. Len(logq)
<1>1. Len(logq) \in Nat \ {0} /\ Len(buf) \in Nat /\ BatchLen \in Nat \ {0}
  BY SampleLogAssumption DEF TypeOK, LogTypeOK, Times
<1> QED BY <1>1 DEF Batch

LEMMA TimesAreNatural ==
  ASSUME NEW s \in Seq(Times)
  PROVE  s \in Seq(Nat) /\ Len(s) \in Nat
<1>1. Len(s) \in Nat /\ \A i \in 1 .. Len(s) : s[i] \in Nat
  <2>1. \A i \in 1 .. Len(s) : s[i] \in Times
    OBVIOUS
  <2> QED BY <2>1 DEF Times
<1>2. s = [i \in 1 .. Len(s) |-> s[i]]
  OBVIOUS
<1> QED BY <1>1, <1>2

(* The rows that the writer takes, and those it leaves in the queue.       *)
LEMMA TakenFacts ==
  ASSUME TypeOK, OrderInv, logq # <<>>
  PROVE  LET rest == SubSeq(logq, Batch + 1, Len(logq))
         IN  /\ Taken \in Seq(Times) /\ rest \in Seq(Times) /\ Len(rest) <= QMax
             /\ Increasing(Taken) /\ Increasing(rest) /\ Before(Taken, rest)
             /\ Entries(buf) \cup Entries(logq) = Entries(Taken) \cup Entries(rest)
<1> DEFINE front == SubSeq(logq, 1, Batch)
           rest  == SubSeq(logq, Batch + 1, Len(logq))
<1>1. Batch \in 0 .. Len(logq) /\ Len(logq) \in Nat /\ QMax \in Nat
  BY BatchBounds, SampleLogAssumption DEF TypeOK, LogTypeOK
<1>2. logq \in Seq(Nat) /\ buf \in Seq(Nat) /\ Len(logq) <= QMax
  BY TimesAreNatural DEF TypeOK, LogTypeOK
<1>3. /\ front \in Seq(Nat) /\ rest \in Seq(Nat)
      /\ Len(front) = Batch /\ Len(rest) = Len(logq) - Batch
      /\ Increasing(front) /\ Increasing(rest) /\ Before(front, rest)
      /\ Entries(logq) = Entries(front) \cup Entries(rest)
  BY <1>1, <1>2, Cut DEF OrderInv
<1>4. rest \in Seq(Times) /\ front \in Seq(Times)
  BY <1>1 DEF TypeOK, LogTypeOK
<1>5. buf \in Seq(Times)
  BY DEF TypeOK, LogTypeOK
<1> HIDE DEF front, rest
<1>6. Before(buf, front) /\ Before(buf, rest)
  BY <1>3 DEF OrderInv, Before
<1>7. /\ Entries(buf \o front) = Entries(buf) \cup Entries(front)
      /\ Increasing(buf \o front)
  BY <1>2, <1>3, <1>6, Concatenated DEF OrderInv
<1>8. buf \o front \in Seq(Times)
  BY <1>4, <1>5
<1>9. Before(buf \o front, rest)
  BY <1>3, <1>6, <1>7 DEF Before
<1>10. Len(rest) <= QMax
  BY <1>1, <1>2, <1>3
<1> QED BY <1>3, <1>4, <1>7, <1>8, <1>9, <1>10 DEF front, rest, Taken

LEMMA EmptyFacts == Entries(<<>>) = {} /\ Increasing(<<>>)
BY DEF Entries, Increasing

LEMMA WriteBatchRows ==
  ASSUME TypeOK, OrderInv, WriteBatch
  PROVE  LogTypeOK(Times)' /\ OrderInv' /\ RowsKept
<1> DEFINE rest == SubSeq(logq, Batch + 1, Len(logq))
<1>1. /\ table' = table \o Taken /\ buf' = <<>> /\ logq' = rest /\ logq # <<>>
      /\ gone' = gone /\ fresh' = FALSE /\ UNCHANGED <<reading, resetFile, upsets>>
  BY DEF WriteBatch
<1>2. /\ Taken \in Seq(Times) /\ rest \in Seq(Times) /\ Len(rest) <= QMax
      /\ Increasing(Taken) /\ Increasing(rest) /\ Before(Taken, rest)
      /\ Entries(buf) \cup Entries(logq) = Entries(Taken) \cup Entries(rest)
  BY <1>1, TakenFacts
<1> HIDE DEF rest
<1>3. Taken \in Seq(Nat) /\ table \in Seq(Nat) /\ table \in Seq(Times)
  BY <1>2, TimesAreNatural DEF TypeOK, LogTypeOK
<1>4. Before(table, Taken) /\ Before(table, rest)
  BY <1>2 DEF OrderInv, Before
<1>5. /\ table \o Taken \in Seq(Times)
      /\ Entries(table \o Taken) = Entries(table) \cup Entries(Taken)
      /\ Increasing(table \o Taken)
  BY <1>2, <1>3, <1>4, Concatenated DEF OrderInv
<1>6. OrderInv'
  BY <1>1, <1>2, <1>4, <1>5, EmptyFacts DEF OrderInv, Before
<1>7. RowsKept
  BY <1>1, <1>2, <1>5, EmptyFacts DEF RowsKept, Rows
<1>8. LogTypeOK(Times)'
  <2>1. Len(<<>>) = 0 /\ <<>> \in Seq(Times)
    OBVIOUS
  <2>2. BufMax \in Nat
    BY SampleLogAssumption
  <2>3. Len(buf') <= BufMax /\ buf' \in Seq(Times)
    BY <1>1, <2>1, <2>2
  <2>4. gone' \subseteq Times /\ table' \in Seq(Times)
    BY <1>1, <1>5 DEF TypeOK, LogTypeOK
  <2> HIDE DEF Times
  <2> QED BY <1>1, <1>2, <2>3, <2>4 DEF TypeOK, LogTypeOK
<1> QED BY <1>6, <1>7, <1>8

LEMMA WriteFailsRows ==
  ASSUME TypeOK, OrderInv, WriteFails
  PROVE  LogTypeOK(Times)' /\ OrderInv' /\ RowsKept
<1> DEFINE rest == SubSeq(logq, Batch + 1, Len(logq))
<1>1. /\ logq # <<>> /\ Upset
      /\ buf' = IF Len(Taken) > BufMax
                THEN SubSeq(Taken, Len(Taken) - BufKeep + 1, Len(Taken)) ELSE Taken
      /\ gone' = gone \cup (ToSet(Taken) \ ToSet(buf'))
      /\ logq' = rest /\ UNCHANGED <<table, fresh, reading, resetFile>>
  BY DEF WriteFails, copyVars
<1>2. /\ Taken \in Seq(Times) /\ rest \in Seq(Times) /\ Len(rest) <= QMax
      /\ Increasing(Taken) /\ Increasing(rest) /\ Before(Taken, rest)
      /\ Entries(buf) \cup Entries(logq) = Entries(Taken) \cup Entries(rest)
  BY <1>1, TakenFacts
<1> HIDE DEF rest
<1>3. Taken \in Seq(Nat) /\ Len(Taken) \in Nat
  BY <1>2, TimesAreNatural
<1>4. BufMax \in Nat /\ BufKeep \in Nat \ {0} /\ BufKeep <= BufMax
  BY SampleLogAssumption
<1>5. /\ buf' \in Seq(Times) /\ Len(buf') <= BufMax
      /\ Increasing(buf') /\ Entries(buf') \subseteq Entries(Taken)
  <2>1. CASE Len(Taken) > BufMax
    <3> DEFINE k == Len(Taken) - BufKeep
    <3>1. k \in 0 .. Len(Taken) /\ Len(Taken) - k = BufKeep
      BY <2>1, <1>3, <1>4
    <3>2. buf' = SubSeq(Taken, k + 1, Len(Taken))
      BY <2>1, <1>1
    <3> HIDE DEF k
    <3>3. /\ Len(buf') = Len(Taken) - k /\ Increasing(buf')
          /\ Entries(buf') \subseteq Entries(Taken)
      BY <3>1, <3>2, <1>2, <1>3, Cut
    <3>4. buf' \in Seq(Times)
      BY <3>1, <3>2, <1>2, <1>3
    <3> QED BY <3>1, <3>3, <3>4, <1>4
  <2>2. CASE ~(Len(Taken) > BufMax)
    BY <2>2, <1>1, <1>2, <1>3, <1>4
  <2> QED BY <2>1, <2>2
<1>6. ToSet(Taken) = Entries(Taken) /\ ToSet(buf') = Entries(buf')
  BY <1>2, <1>5 DEF ToSet, Entries
<1>7. OrderInv'
  BY <1>1, <1>2, <1>5 DEF OrderInv, Before
<1>8. RowsKept
  BY <1>1, <1>2, <1>5, <1>6 DEF RowsKept, Rows
<1>9. Entries(Taken) \subseteq Times
  BY <1>2 DEF Entries
<1>10. gone' \subseteq Times
  BY <1>1, <1>6, <1>9 DEF TypeOK, LogTypeOK
<1>11. upsets' \in 0 .. MaxUpsets
  BY <1>1, SampleLogAssumption DEF Upset, TypeOK, LogTypeOK
<1> QED BY <1>1, <1>2, <1>5, <1>7, <1>8, <1>10, <1>11 DEF TypeOK, LogTypeOK

LEMMA LogSteps ==
  ASSUME TypeOK, OrderInv, LogStep
  PROVE  LogTypeOK(Times)' /\ OrderInv' /\ RowsKept
<1>1. CASE Snapshot \/ OpenDb \/ CloseDb \/ RequestReset \/ EraseFails
  <2>1. UNCHANGED <<logq, buf, table, gone>>
    BY <1>1 DEF Snapshot, OpenDb, CloseDb, RequestReset, EraseFails
  <2>2. OrderInv' /\ RowsKept
    BY <2>1 DEF OrderInv, Before, RowsKept, Rows, Entries, Increasing
  <2>3. upsets' \in 0 .. MaxUpsets
    BY <1>1, SampleLogAssumption
    DEF TypeOK, LogTypeOK, Snapshot, OpenDb, CloseDb, RequestReset, EraseFails, Upset
  <2>4. fresh' \in BOOLEAN /\ reading' \in BOOLEAN /\ resetFile' \in BOOLEAN
    BY <1>1
    DEF TypeOK, LogTypeOK, Snapshot, OpenDb, CloseDb, RequestReset, EraseFails, copyVars, Closed
  <2> QED BY <2>1, <2>2, <2>3, <2>4 DEF TypeOK, LogTypeOK
<1>2. CASE EraseRows
  <2>1. table' = <<>> /\ fresh' = FALSE /\ UNCHANGED <<logq, buf, reading, gone>>
    BY <1>2 DEF EraseRows
  <2>2. resetFile' \in BOOLEAN /\ upsets' \in 0 .. MaxUpsets
    <3>1. upsets' = upsets \/ (upsets < MaxUpsets /\ upsets' = upsets + 1)
      BY <1>2, Zenon DEF EraseRows, Upset
    <3>2. upsets \in 0 .. MaxUpsets /\ MaxUpsets \in Nat
      BY SampleLogAssumption DEF TypeOK, LogTypeOK
    <3>3. resetFile' \in BOOLEAN
      BY <1>2, Zenon DEF EraseRows, TypeOK, LogTypeOK
    <3> HIDE <1>2
    <3> QED BY <3>1, <3>2, <3>3
  <2>3. OrderInv'
    BY <2>1, EmptyFacts DEF OrderInv, Before
  <2>4. RowsKept
    BY <2>1, EmptyFacts DEF RowsKept, Rows, OrderInv, Before
  <2>5. <<>> \in Seq(Times)
    OBVIOUS
  <2> QED BY <2>1, <2>2, <2>3, <2>4, <2>5 DEF TypeOK, LogTypeOK
<1>3. CASE LogRestart
  <2>1. /\ logq' = <<>> /\ buf' = <<>> /\ Upset
        /\ gone' = gone \cup ToSet(logq) \cup ToSet(buf)
        /\ UNCHANGED <<table, fresh, reading, resetFile>>
    BY <1>3 DEF LogRestart, copyVars
  <2>2. ToSet(logq) = Entries(logq) /\ ToSet(buf) = Entries(buf)
    BY DEF TypeOK, LogTypeOK, ToSet, Entries
  <2>3. OrderInv'
    BY <2>1, EmptyFacts DEF OrderInv, Before
  <2>4. RowsKept
    BY <2>1, <2>2, EmptyFacts DEF RowsKept, Rows
  <2>5. Len(<<>>) = 0 /\ <<>> \in Seq(Times) /\ QMax \in Nat /\ BufMax \in Nat
    BY SampleLogAssumption
  <2>6. upsets' \in 0 .. MaxUpsets
    BY <2>1, SampleLogAssumption DEF Upset, TypeOK, LogTypeOK
  <2>7. gone' \subseteq Times
    BY <2>1, <2>2 DEF TypeOK, LogTypeOK, Entries
  <2> QED BY <2>1, <2>3, <2>4, <2>5, <2>6, <2>7 DEF TypeOK, LogTypeOK
<1> QED BY <1>1, <1>2, <1>3, WriteBatchRows, WriteFailsRows DEF LogStep

-----------------------------------------------------------------------------
(* The changes of mode.                                                    *)
LEMMA KnownTypes ==
  ASSUME TypeOK
  PROVE  /\ Known \subseteq Changes /\ Len(modeq) \in Nat
         /\ \A c \in Known : c.t \in Nat /\ c.mode \in {"on", "off"}
<1>1. Entries(modeq) \subseteq Changes /\ Stored \subseteq Changes /\ Len(modeq) \in Nat
  BY DEF TypeOK, Entries, Stored
<1> QED BY <1>1 DEF Known, Changes, Times

LEMMA OneChangeAtATime ==
  ASSUME TypeOK, ChangesInv, NEW c \in Known, NEW d \in Known, c.t = d.t
  PROVE  c = d
<1>1. Len(modeq) \in Nat /\ c.t \in Nat
  BY KnownTypes
<1>2. CASE c \in Stored /\ d \in Stored
  BY <1>2 DEF ChangesInv
<1>3. CASE c \in Stored /\ d \in Entries(modeq)
  BY <1>1, <1>3 DEF ChangesInv, Entries
<1>4. CASE c \in Entries(modeq) /\ d \in Stored
  BY <1>1, <1>4 DEF ChangesInv, Entries
<1>5. CASE c \in Entries(modeq) /\ d \in Entries(modeq)
  <2>1. PICK i \in 1 .. Len(modeq), j \in 1 .. Len(modeq) : c = modeq[i] /\ d = modeq[j]
    BY <1>5 DEF Entries
  <2>2. ~(i < j) /\ ~(j < i)
    BY <1>1, <2>1 DEF ChangesInv
  <2> QED BY <1>1, <2>1, <2>2
<1> QED BY <1>2, <1>3, <1>4, <1>5 DEF Known

(* A change is left out only if the one before it has the same mode.       *)
Repeats(c, p) == p.mode = c.mode /\ p.t < c.t /\ \A d \in Known : d.t < c.t => d.t <= p.t

LEMMA LogModesKnown ==
  ASSUME TypeOK, ChangesInv, LogModes
  PROVE  /\ TypeOK' /\ ChangesInv' /\ Known' \subseteq Known
         /\ \A c \in Known \ Known' : \E p \in Known : Repeats(c, p)
<1> DEFINE news == {modeq[i] : i \in {j \in DOMAIN modeq : IsNews(j)}}
<1>1. /\ inserted' = inserted \cup news /\ mode_log' = mode_log /\ modeq' = <<>>
      /\ UNCHANGED <<logq, buf, table, fresh, reading, resetFile, gone, upsets,
                     now, seen, heard, lost>>
      /\ Stored' = Stored \cup news
  BY DEF LogModes, logVars, copyVars, Stored
<1>2. DOMAIN modeq = 1 .. Len(modeq) /\ Len(modeq) \in Nat
  BY DEF TypeOK
<1>3. Entries(modeq') = {} /\ modeq' \in Seq(Changes) /\ Len(modeq') = 0
  BY <1>1 DEF Entries
<1>4. Known' = Stored \cup news /\ news \subseteq Entries(modeq)
  BY <1>1, <1>2, <1>3 DEF Known, Entries
<1>5. Known' \subseteq Known
  BY <1>4 DEF Known
<1>6. ChangesInv'
  <2>1. \A c, d \in Known' : c.t = d.t => c = d
    BY <1>5, OneChangeAtATime
  <2> QED BY <2>1, <1>1, <1>3, <1>4 DEF ChangesInv
<1>7. TypeOK'
  <2>1. inserted' \subseteq Changes
    BY <1>1, <1>4, <1>5, KnownTypes DEF Stored
  <2> QED BY <2>1, <1>1, <1>3 DEF TypeOK, LogTypeOK
<1>8. ASSUME NEW c \in Known \ Known'
      PROVE  \E p \in Known : Repeats(c, p)
  <2>1. PICK i \in 1 .. Len(modeq) : c = modeq[i] /\ ~IsNews(i)
    BY <1>2, <1>4 DEF Known, Entries
  <2>2. PICK p \in Earlier(i) : /\ \A d \in Earlier(i) : d.t <= p.t
                                /\ p.mode = modeq[i].mode
    BY <2>1 DEF IsNews
  <2>3. \A d \in Earlier(i) : d \in Known /\ d.t < c.t
    BY <1>2, <2>1 DEF Earlier, Known, Entries, ChangesInv
  <2>4. ASSUME NEW d \in Known, d.t < c.t
        PROVE  d \in Earlier(i)
    <3>1. CASE d \in Entries(modeq)
      <4>1. PICK j \in 1 .. Len(modeq) : d = modeq[j]
        BY <3>1 DEF Entries
      <4>2. modeq[i].t \in Nat /\ modeq[j].t \in Nat
        BY <2>1, <4>1, KnownTypes
      <4>3. j < i
        BY <1>2, <2>1, <2>4, <4>1, <4>2 DEF ChangesInv
      <4> QED BY <1>2, <4>1, <4>3 DEF Earlier
    <3> QED BY <3>1 DEF Earlier, Known
  <2> QED BY <2>1, <2>2, <2>3, <2>4 DEF Repeats
<1> QED BY <1>5, <1>6, <1>7, <1>8

(* So of the changes with some property, the first is kept if the property *)
(* passes from a change to the one that it repeats.                        *)
LEMMA FirstIsKept ==
  ASSUME TypeOK, ChangesInv, LogModes,
         NEW C \in SUBSET Known, C # {},
         \A c \in C, p \in Known : Repeats(c, p) => p \in C
  PROVE  \E c \in C : c \in Known'
<1>1. \A c \in C : c.t \in Nat
  BY KnownTypes
<1>2. PICK c \in C : \A d \in C : c.t <= d.t
  BY <1>1, FirstChange
<1>3. ASSUME c \notin Known' PROVE FALSE
  <2>1. PICK p \in Known : Repeats(c, p)
    BY <1>3, LogModesKnown
  <2>2. p \in C /\ p.t < c.t
    BY <2>1 DEF Repeats
  <2> QED BY <2>2, <1>1, <1>2
<1> QED BY <1>3

LEMMA LogModesKeepsSeen ==
  ASSUME TypeOK, ChangesInv, SeenInv, LogModes
  PROVE  SeenInv'
<1> SUFFICES ASSUME ~lost, seen # "none"
             PROVE  \E c \in Known' : \A d \in Known' : c.t <= d.t => d.mode = seen
  BY DEF SeenInv, LogModes
<1> DEFINE C == {c \in Known : \A d \in Known : c.t <= d.t => d.mode = seen}
<1>1. C # {}
  BY DEF SeenInv
<1>2. ASSUME NEW c \in C, NEW p \in Known, Repeats(c, p)
      PROVE  p \in C
  <2> SUFFICES ASSUME NEW d \in Known, p.t <= d.t PROVE d.mode = seen
    OBVIOUS
  <2>1. CASE c.t <= d.t
    BY <2>1
  <2>2. CASE d.t < c.t
    <3>1. d.t <= p.t /\ d.t \in Nat /\ p.t \in Nat
      BY <1>2, <2>2, KnownTypes DEF Repeats
    <3>2. d = p
      BY <3>1, OneChangeAtATime
    <3>3. c.t \in Nat /\ c.mode = seen
      BY KnownTypes
    <3> QED BY <1>2, <3>2, <3>3 DEF Repeats
  <2> QED BY <2>1, <2>2, KnownTypes
<1> HIDE DEF C
<1>3. PICK c \in C : c \in Known'
  BY <1>1, <1>2, FirstIsKept DEF C
<1>4. Known' \subseteq Known
  BY LogModesKnown
<1> QED BY <1>3, <1>4 DEF C

LEMMA LogModesKeepsResume ==
  ASSUME TypeOK, ChangesInv, ResumeInv, LogModes
  PROVE  ResumeInv'
<1>1. Known' \subseteq Known /\ Rows' = Rows /\ lost' = lost
  BY LogModesKnown DEF LogModes, logVars, copyVars, Rows, Entries
<1> SUFFICES ASSUME ~lost, NEW c \in Known', NEW t \in Rows, c.mode = "off", c.t < t
             PROVE  \E d \in Known' : d.mode = "on" /\ c.t < d.t /\ d.t <= t
  BY <1>1 DEF ResumeInv
<1> DEFINE D == {d \in Known : d.mode = "on" /\ c.t < d.t /\ d.t <= t}
<1>2. D # {} /\ c \in Known
  BY <1>1 DEF ResumeInv
<1>3. t \in Nat
  <2>1. table \in Seq(Nat) /\ buf \in Seq(Nat) /\ logq \in Seq(Nat)
    BY TimesAreNatural DEF TypeOK, LogTypeOK
  <2> QED BY <2>1 DEF Rows, Entries
<1>4. ASSUME NEW d \in D, NEW p \in Known, Repeats(d, p)
      PROVE  p \in D
  <2>1. c.t <= p.t /\ p.t < d.t /\ p.mode = "on"
    BY <1>2, <1>4 DEF Repeats
  <2>2. c.t # p.t
    BY <1>2, <2>1, OneChangeAtATime
  <2> QED BY <1>2, <1>3, <2>1, <2>2, KnownTypes
<1> HIDE DEF D
<1>5. PICK d \in D : d \in Known'
  BY <1>2, <1>4, FirstIsKept DEF D
<1> QED BY <1>5 DEF D

LEMMA LogModesKeepsHeard ==
  ASSUME TypeOK, ChangesInv, HeardInv, LogModes
  PROVE  HeardInv'
<1>1. /\ Known' \subseteq Known /\ Rows' = Rows /\ gone' = gone
      /\ heard' = heard /\ lost' = lost
  BY LogModesKnown DEF LogModes, logVars, copyVars, Rows, Entries
<1> SUFFICES ASSUME ~lost, NEW t \in heard, NEW b \in Known, Pauses(b, t)
             PROVE  \E c \in Known' : Pauses(c, t)'
  BY <1>1 DEF HeardInv, Accounted
<1> DEFINE C == {c \in Known : Pauses(c, t)}
<1>2. t \in Nat
  BY DEF TypeOK, Times
<1>3. ASSUME NEW c \in C, NEW p \in Known, Repeats(c, p)
      PROVE  p \in C
  <2>1. p.mode = "off" /\ p.t < c.t /\ c.t <= t
    BY <1>3 DEF Repeats, Pauses
  <2>2. ASSUME NEW d \in Known, d.mode = "on", p.t < d.t
        PROVE  t < d.t
    <3>1. ~(d.t < c.t)
      BY <1>3, <2>2, KnownTypes DEF Repeats
    <3>2. d.t # c.t
      BY <2>2, <1>3, OneChangeAtATime DEF Pauses
    <3>3. c.t < d.t
      BY <3>1, <3>2, KnownTypes
    <3> QED BY <3>3, <2>2 DEF Pauses
  <2>3. p.t <= t
    BY <1>2, <2>1, KnownTypes
  <2> QED BY <2>1, <2>2, <2>3 DEF Pauses
<1> HIDE DEF C
<1>4. PICK c \in C : c \in Known'
  BY <1>3, FirstIsKept DEF C
<1> QED BY <1>1, <1>4 DEF C, Pauses

LEMMA LogModesKeepsInv ==
  ASSUME Inv, LogModes
  PROVE  Inv'
<1>1. TypeOK' /\ ChangesInv' /\ SeenInv' /\ ResumeInv' /\ HeardInv'
  BY LogModesKnown, LogModesKeepsSeen, LogModesKeepsResume, LogModesKeepsHeard DEF Inv
<1>2. /\ Known' \subseteq Known /\ Rows' = Rows
      /\ UNCHANGED <<logq, buf, table, gone, now, heard>>
  BY LogModesKnown DEF LogModes, logVars, copyVars, Rows, Entries, Inv
<1>3. OrderInv'
  BY <1>2 DEF Inv, OrderInv, Increasing, Before, Entries
<1>4. PastInv' /\ PauseInv'
  BY <1>2 DEF Inv, PastInv, PauseInv
<1> QED BY <1>1, <1>3, <1>4 DEF Inv

(* The commit moves the changes within what is known of them.              *)
LEMMA CommitModesKeepsInv ==
  ASSUME Inv, CommitModes
  PROVE  Inv'
<1>1. /\ mode_log' = Stored /\ inserted' = {} /\ fresh' = FALSE
      /\ UNCHANGED <<logq, buf, table, reading, resetFile, gone, upsets,
                     now, seen, modeq, heard, lost>>
  BY DEF CommitModes
<1>2. Stored' = Stored /\ Known' = Known /\ Rows' = Rows
  BY <1>1 DEF Stored, Known, Rows, Entries
<1>3. TypeOK'
  <2>1. Stored \subseteq Changes
    BY DEF Stored, Inv, TypeOK
  <2> QED BY <1>1, <2>1 DEF Inv, TypeOK, LogTypeOK
<1>4. OrderInv'
  <2>1. logq' = logq /\ buf' = buf /\ table' = table
    BY <1>1
  <2> QED BY <2>1 DEF Inv, OrderInv
<1>5. PastInv' /\ PauseInv' /\ ChangesInv'
  BY <1>1, <1>2 DEF Inv, PastInv, PauseInv, ChangesInv
<1>6. ResumeInv' /\ SeenInv'
  BY <1>1, <1>2 DEF Inv, ResumeInv, SeenInv
<1>7. HeardInv'
  BY <1>1, <1>2 DEF Inv, HeardInv, Accounted, Pauses
<1> QED BY <1>3, <1>4, <1>5, <1>6, <1>7 DEF Inv

-----------------------------------------------------------------------------
(* The recorder, a restart and a lost change.                              *)
LEMMA RowsAreTimes ==
  ASSUME TypeOK
  PROVE  Rows \subseteq Times /\ Rows \subseteq Nat /\ now \in Nat
<1>1. Rows \subseteq Times
  BY DEF TypeOK, LogTypeOK, Rows, Entries
<1> QED BY <1>1 DEF TypeOK, Times

LEMMA KeptRowsKeepInv ==
  ASSUME Inv, RowsKept, Known' \subseteq Known, lost' \/ (Known' = Known /\ lost' = lost),
         now' = now, heard' = heard, lost' \in BOOLEAN
  PROVE  PastInv' /\ PauseInv' /\ ResumeInv' /\ HeardInv'
<1>1. PastInv' /\ PauseInv'
  BY DEF Inv, PastInv, PauseInv, RowsKept
<1>2. ResumeInv'
  BY DEF Inv, ResumeInv, RowsKept
<1>3. \A t \in heard : Accounted(t) => Accounted(t)'
  BY DEF Accounted, RowsKept
<1>4. HeardInv'
  BY <1>3 DEF Inv, HeardInv, Pauses
<1> QED BY <1>1, <1>2, <1>4

LEMMA RecorderKeepsInv ==
  ASSUME Inv, Recorder, UNCHANGED ownVars
  PROVE  Inv'
<1>1. LogTypeOK(Times)' /\ OrderInv' /\ RowsKept
  BY LogSteps DEF Recorder, LogStep, Inv
<1>2. /\ UNCHANGED <<now, seen, modeq, inserted, mode_log, heard, lost>>
      /\ Stored' = Stored /\ Known' = Known
  BY DEF ownVars, Known, Stored, Entries
<1>3. TypeOK'
  BY <1>1, <1>2 DEF Inv, TypeOK
<1>4. ChangesInv' /\ SeenInv'
  BY <1>2 DEF Inv, ChangesInv, SeenInv
<1>5. PastInv' /\ PauseInv' /\ ResumeInv' /\ HeardInv'
  <2>1. lost' \in BOOLEAN
    BY <1>3 DEF TypeOK
  <2> QED BY <1>1, <1>2, <2>1, KeptRowsKeepInv
<1> QED BY <1>1, <1>3, <1>4, <1>5 DEF Inv

LEMMA RestartKeepsInv ==
  ASSUME Inv, Restart
  PROVE  Inv'
<1>1. LogTypeOK(Times)' /\ OrderInv' /\ RowsKept
  BY LogSteps DEF Restart, LogStep, Inv
<1>2. /\ UNCHANGED <<now, mode_log, heard>> /\ modeq' = <<>> /\ inserted' = {}
      /\ seen' = "none" /\ lost' = (lost \/ modeq # <<>> \/ inserted # {})
      /\ Stored' = mode_log
  BY DEF Restart, Stored
<1>3. Entries(modeq') = {} /\ modeq' \in Seq(Changes) /\ Len(modeq') = 0
  BY <1>2 DEF Entries
<1>4. Known' \subseteq Known /\ Stored' \subseteq Stored
  BY <1>2, <1>3 DEF Known, Stored
<1>5. lost' \in BOOLEAN
  BY <1>2
<1>6. lost' \/ (Known' = Known /\ lost' = lost)
  <2>1. CASE lost \/ modeq # <<>> \/ inserted # {}
    BY <2>1, <1>2
  <2>2. CASE ~lost /\ modeq = <<>> /\ inserted = {}
    <3>1. Stored' = Stored /\ modeq' = modeq
      BY <2>2, <1>2 DEF Stored
    <3>2. Known' = Known
      BY <3>1 DEF Known, Entries
    <3>3. lost = FALSE
      BY <2>2 DEF Inv, TypeOK
    <3>4. lost' = lost
      BY <2>2, <1>2, <3>3
    <3> QED BY <3>2, <3>4
  <2> QED BY <2>1, <2>2
<1>7. TypeOK'
  BY <1>1, <1>2, <1>3, <1>5 DEF Inv, TypeOK
<1>8. ChangesInv' /\ SeenInv'
  BY <1>2, <1>3, <1>4 DEF Inv, ChangesInv, SeenInv
<1>9. PastInv' /\ PauseInv' /\ ResumeInv' /\ HeardInv'
  BY <1>1, <1>2, <1>4, <1>5, <1>6, KeptRowsKeepInv
<1> QED BY <1>1, <1>7, <1>8, <1>9 DEF Inv

LEMMA LoseChangeKeepsInv ==
  ASSUME Inv, LoseChange
  PROVE  Inv'
<1>1. /\ modeq # <<>> /\ modeq' = Tail(modeq) /\ lost' = TRUE /\ Upset
      /\ UNCHANGED <<logq, buf, table, fresh, reading, resetFile, gone,
                     now, seen, inserted, mode_log, heard>>
      /\ Stored' = Stored
  BY DEF LoseChange, copyVars, Stored
<1>2. modeq \in Seq(Changes) /\ Len(modeq) \in Nat
  BY DEF Inv, TypeOK
<1>3. /\ modeq' \in Seq(Changes) /\ Len(modeq') = Len(modeq) - 1
      /\ \A i \in 1 .. Len(modeq') : modeq'[i] = modeq[i + 1]
  BY <1>1, <1>2
<1>4. \A i \in 1 .. Len(modeq') : i + 1 \in 1 .. Len(modeq)
  BY <1>2, <1>3
<1>5. Known' \subseteq Known
  BY <1>1, <1>3, <1>4 DEF Known, Entries
<1>6. upsets' \in 0 .. MaxUpsets
  BY <1>1, SampleLogAssumption DEF Upset, Inv, TypeOK, LogTypeOK
<1>7. TypeOK'
  BY <1>1, <1>3, <1>6 DEF Inv, TypeOK, LogTypeOK
<1>8. OrderInv' /\ RowsKept
  BY <1>1 DEF Inv, OrderInv, RowsKept, Rows, Increasing, Before, Entries
<1>9. ChangesInv'
  <2>1. \A i, j \in 1 .. Len(modeq') : i < j => i + 1 < j + 1
    BY <1>2, <1>3
  <2> QED BY <1>1, <1>3, <1>4, <2>1 DEF Inv, ChangesInv
<1>10. SeenInv'
  BY <1>1 DEF SeenInv
<1>11. PastInv' /\ PauseInv' /\ ResumeInv' /\ HeardInv'
  BY <1>1, <1>5, <1>8, KeptRowsKeepInv
<1> QED BY <1>7, <1>8, <1>9, <1>10, <1>11 DEF Inv

-----------------------------------------------------------------------------
(* A request, which comes after everything that the server has noted.      *)
LEMMA ReceiveRows ==
  ASSUME Inv, now' \in Times, now < now', Receive(now')
  PROVE  /\ LogTypeOK(Times)' /\ OrderInv'
         /\ Rows' \cup gone' = Rows \cup gone \cup {now'}
         /\ Rows \subseteq Rows' /\ Rows' \subseteq Rows \cup {now'}
         /\ gone \subseteq gone'
<1>1. UNCHANGED <<buf, table, fresh, reading, resetFile, upsets>>
  BY DEF Receive, copyVars
<1>2. CASE HasRoom
  <2>1. logq' = Append(logq, now') /\ gone' = gone
    BY <1>2 DEF Receive
  <2>2. logq \in Seq(Times) /\ Len(logq) \in Nat /\ QMax \in Nat
    BY SampleLogAssumption DEF Inv, TypeOK, LogTypeOK
  <2>3. /\ logq' \in Seq(Times) /\ Len(logq') = Len(logq) + 1
        /\ \A i \in 1 .. Len(logq) : logq'[i] = logq[i]
        /\ logq'[Len(logq) + 1] = now'
    BY <2>1, <2>2
  <2>4. Len(logq') <= QMax
    BY <1>2, <2>2, <2>3 DEF HasRoom
  <2>5. Entries(logq') = Entries(logq) \cup {now'}
    <3>1. \A i \in 1 .. Len(logq') : i \in 1 .. Len(logq) \/ i = Len(logq) + 1
      BY <2>2, <2>3
    <3>2. 1 .. Len(logq) \subseteq 1 .. Len(logq') /\ Len(logq) + 1 \in 1 .. Len(logq')
      BY <2>2, <2>3
    <3>3. Entries(logq') \subseteq Entries(logq) \cup {now'}
      BY <2>3, <3>1 DEF Entries
    <3>4. Entries(logq) \subseteq Entries(logq')
      BY <2>3, <3>2 DEF Entries
    <3>5. now' \in Entries(logq')
      BY <2>3, <3>2 DEF Entries
    <3> QED BY <3>3, <3>4, <3>5
  <2>6. \A t \in Rows : t < now'
    BY RowsAreTimes DEF Inv, PastInv, Times
  <2>7. Increasing(logq')
    <3> SUFFICES ASSUME NEW i \in 1 .. Len(logq'), NEW j \in 1 .. Len(logq'), i < j
                 PROVE  logq'[i] < logq'[j]
      BY DEF Increasing
    <3>1. i \in 1 .. Len(logq) /\ logq[i] < now'
      BY <2>2, <2>3, <2>6 DEF Rows, Entries
    <3>2. CASE j \in 1 .. Len(logq)
      BY <2>3, <3>1, <3>2 DEF Inv, OrderInv, Increasing
    <3>3. CASE j = Len(logq) + 1
      BY <2>3, <3>1, <3>3
    <3> QED BY <2>2, <2>3, <3>2, <3>3
  <2>8. OrderInv'
    <3>1. \A t \in Entries(table) \cup Entries(buf) : t < now'
      BY <2>6 DEF Rows
    <3> QED BY <1>1, <2>5, <2>7, <3>1 DEF Inv, OrderInv, Before
  <2>9. Rows' = Rows \cup {now'}
    BY <1>1, <2>5 DEF Rows
  <2>10. LogTypeOK(Times)'
    BY <1>1, <2>1, <2>3, <2>4 DEF Inv, TypeOK, LogTypeOK
  <2> QED BY <2>1, <2>8, <2>9, <2>10
<1>3. CASE ~HasRoom
  <2>1. gone' = gone \cup {now'} /\ logq' = logq
    BY <1>3 DEF Receive
  <2>2. Rows' = Rows
    BY <1>1, <2>1 DEF Rows
  <2>3. OrderInv'
    BY <1>1, <2>1 DEF Inv, OrderInv
  <2>4. LogTypeOK(Times)'
    BY <1>1, <2>1 DEF Inv, TypeOK, LogTypeOK
  <2> QED BY <2>1, <2>2, <2>3, <2>4
<1> QED BY <1>2, <1>3

LEMMA RequestKnown ==
  ASSUME Inv, NEW mode \in {"on", "off"}, NEW silence \in 0 .. MaxTime, Request(mode, silence)
  PROVE  /\ modeq' \in Seq(Changes) /\ ChangesInv'
         /\ \/ seen = mode /\ Known' = Known
            \/ seen # mode /\ Known' = Known \cup {[t |-> now', mode |-> mode]}
<1>1. /\ now' = now + silence + 1 /\ now' <= MaxTime /\ Stored' = Stored
      /\ modeq' = IF seen # mode THEN Append(modeq, [t |-> now', mode |-> mode]) ELSE modeq
  BY DEF Request, Stored
<1>2. now \in Nat /\ now' \in Times /\ now < now'
  BY <1>1, OutageAssumption DEF Inv, TypeOK, Times
<1>3. CASE seen = mode
  BY <1>1, <1>3 DEF Inv, TypeOK, ChangesInv, Known
<1>4. CASE seen # mode
  <2> DEFINE c == [t |-> now', mode |-> mode]
  <2>1. c \in Changes /\ c.t = now'
    BY <1>2 DEF Changes
  <2> HIDE DEF c
  <2>2. modeq \in Seq(Changes) /\ Len(modeq) \in Nat /\ modeq' = Append(modeq, c)
    BY <1>1, <1>4 DEF Inv, TypeOK, c
  <2>3. /\ modeq' \in Seq(Changes) /\ Len(modeq') = Len(modeq) + 1
        /\ \A i \in 1 .. Len(modeq) : modeq'[i] = modeq[i]
        /\ modeq'[Len(modeq) + 1] = c
    BY <2>1, <2>2
  <2>4. Entries(modeq') = Entries(modeq) \cup {c}
    <3>1. \A i \in 1 .. Len(modeq') : i \in 1 .. Len(modeq) \/ i = Len(modeq) + 1
      BY <2>2, <2>3
    <3>2. 1 .. Len(modeq) \subseteq 1 .. Len(modeq') /\ Len(modeq) + 1 \in 1 .. Len(modeq')
      BY <2>2, <2>3
    <3>3. Entries(modeq') \subseteq Entries(modeq) \cup {c}
      BY <2>3, <3>1 DEF Entries
    <3>4. Entries(modeq) \subseteq Entries(modeq')
      BY <2>3, <3>2 DEF Entries
    <3>5. c \in Entries(modeq')
      BY <2>3, <3>2 DEF Entries
    <3> QED BY <3>3, <3>4, <3>5
  <2>5. \A d \in Known : d.t < c.t
    <3>1. \A d \in Known : d.t \in Nat /\ d.t <= now
      BY KnownTypes DEF Inv, PastInv
    <3> QED BY <1>2, <2>1, <3>1 DEF Times
  <2>6. \A i, j \in 1 .. Len(modeq') : i < j => modeq'[i].t < modeq'[j].t
    <3> SUFFICES ASSUME NEW i \in 1 .. Len(modeq'), NEW j \in 1 .. Len(modeq'), i < j
                 PROVE  modeq'[i].t < modeq'[j].t
      OBVIOUS
    <3>1. i \in 1 .. Len(modeq) /\ modeq[i].t < c.t
      BY <2>2, <2>3, <2>5 DEF Known, Entries
    <3>2. CASE j \in 1 .. Len(modeq)
      BY <2>3, <3>1, <3>2 DEF Inv, ChangesInv
    <3>3. CASE j = Len(modeq) + 1
      BY <2>3, <3>1, <3>3
    <3> QED BY <2>2, <2>3, <3>2, <3>3
  <2>7. \A d \in Stored, i \in 1 .. Len(modeq') : d.t < modeq'[i].t
    <3> SUFFICES ASSUME NEW d \in Stored, NEW i \in 1 .. Len(modeq')
                 PROVE  d.t < modeq'[i].t
      OBVIOUS
    <3>1. CASE i \in 1 .. Len(modeq)
      BY <2>3, <3>1 DEF Inv, ChangesInv
    <3>2. CASE i = Len(modeq) + 1
      BY <2>3, <2>5, <3>2 DEF Known
    <3> QED BY <2>2, <2>3, <3>1, <3>2
  <2>8. ChangesInv'
    BY <1>1, <2>6, <2>7 DEF Inv, ChangesInv
  <2>9. Known' = Known \cup {c}
    BY <1>1, <2>4 DEF Known
  <2> QED BY <1>4, <2>3, <2>8, <2>9 DEF c
<1> QED BY <1>3, <1>4

LEMMA RequestKeepsInv ==
  ASSUME Inv, NEW mode \in {"on", "off"}, NEW silence \in 0 .. MaxTime, Request(mode, silence)
  PROVE  Inv'
<1> DEFINE c == [t |-> now', mode |-> mode]
<1>1. /\ now' = now + silence + 1 /\ now' <= MaxTime /\ seen' = mode
      /\ heard' = heard \cup {now'} /\ lost' = lost
      /\ inserted' = inserted /\ mode_log' = mode_log
      /\ IF mode = "on" THEN Receive(now') ELSE UNCHANGED logVars
  BY DEF Request
<1>2. now \in Nat /\ now' \in Times /\ now < now'
  BY <1>1, OutageAssumption DEF Inv, TypeOK, Times
<1>3. /\ modeq' \in Seq(Changes) /\ ChangesInv' /\ Known \subseteq Known'
      /\ Known' \subseteq Known \cup {c}
      /\ \/ seen = mode /\ Known' = Known
         \/ seen # mode /\ Known' = Known \cup {c}
  BY RequestKnown
<1>4. c.t = now' /\ c.mode = mode
  OBVIOUS
<1> HIDE DEF c
<1>5. /\ LogTypeOK(Times)' /\ OrderInv' /\ Rows \subseteq Rows' /\ gone \subseteq gone'
      /\ Rows' \subseteq Rows \cup {now'} /\ gone' \subseteq Rows \cup gone \cup {now'}
      /\ mode = "off" => Rows' = Rows /\ gone' = gone
      /\ mode = "on" => now' \in Rows' \cup gone'
  <2>1. CASE mode = "on"
    BY <1>1, <1>2, <2>1, ReceiveRows
  <2>2. CASE mode = "off"
    <3>1. UNCHANGED <<logq, buf, table, fresh, reading, resetFile, gone, upsets>>
      BY <1>1, <2>2 DEF logVars, copyVars
    <3> QED BY <3>1, <2>2
        DEF Inv, TypeOK, LogTypeOK, OrderInv, Rows, Increasing, Before, Entries
  <2> QED BY <2>1, <2>2
<1>6. /\ \A t \in Rows \cup gone \cup heard : t \in Nat /\ t < now'
      /\ \A d \in Known : d.t \in Nat /\ d.t < now'
  <2>1. \A t \in Rows \cup gone \cup heard : t \in Nat
    <3>1. Rows \subseteq Times /\ gone \subseteq Times /\ heard \subseteq Times
      BY RowsAreTimes DEF Inv, TypeOK, LogTypeOK
    <3> QED BY <3>1 DEF Times
  <2>2. \A d \in Known : d.t \in Nat
    BY KnownTypes DEF Inv
  <2> QED BY <1>2, <2>1, <2>2 DEF Inv, PastInv, Times
<1>7. TypeOK'
  <2>1. now' \in 0 .. MaxTime /\ heard' \subseteq Times
    BY <1>1, <1>2 DEF Inv, TypeOK, Times
  <2> QED BY <1>1, <1>3, <1>5, <2>1 DEF Inv, TypeOK
<1>8. PastInv'
  BY <1>1, <1>2, <1>3, <1>4, <1>5, <1>6 DEF PastInv, Times
<1>9. PauseInv'
  <2> SUFFICES ASSUME NEW d \in Known', d.mode = "off"
               PROVE  d.t \notin Rows' \cup gone' /\ d.t \in heard' \cup {0}
    BY DEF PauseInv
  <2>1. CASE d \in Known
    <3>1. d.t \notin Rows \cup gone /\ d.t \in heard \cup {0} /\ d.t # now'
      BY <2>1, <1>2, <1>6 DEF Inv, PauseInv, Times
    <3> QED BY <3>1, <1>1, <1>5
  <2>2. CASE d = c
    <3>1. now' \notin Rows \cup gone
      BY <1>2, <1>6 DEF Times
    <3> QED BY <2>2, <3>1, <1>1, <1>4, <1>5
  <2> QED BY <2>1, <2>2, <1>3
<1>10. SeenInv'
  <2> SUFFICES ASSUME ~lost
               PROVE  \E e \in Known' : \A d \in Known' : e.t <= d.t => d.mode = mode
    BY <1>1 DEF SeenInv
  <2>1. CASE seen = mode
    BY <2>1, <1>3 DEF Inv, SeenInv
  <2>2. CASE seen # mode
    BY <2>2, <1>2, <1>3, <1>4, <1>6 DEF Times
  <2> QED BY <2>1, <2>2
<1>11. ResumeInv'
  <2> SUFFICES ASSUME ~lost, NEW b \in Known', NEW t \in Rows', b.mode = "off", b.t < t
               PROVE  \E d \in Known' : d.mode = "on" /\ b.t < d.t /\ d.t <= t
    BY <1>1 DEF ResumeInv
  <2>1. t \in Rows \/ (t = now' /\ mode = "on")
    BY <1>5
  <2>2. CASE t \in Rows
    <3>1. b \in Known
      BY <2>2, <1>2, <1>3, <1>4, <1>6 DEF Times
    <3> QED BY <3>1, <2>2, <1>3 DEF Inv, ResumeInv
  <2>3. CASE t = now' /\ mode = "on" /\ seen = "on"
    <3>1. PICK e \in Known : \A d \in Known : e.t <= d.t => d.mode = "on"
      BY <2>3 DEF Inv, SeenInv
    <3>2. b \in Known
      BY <2>3, <1>3
    <3>3. e.t \in Nat /\ b.t \in Nat /\ e.mode = "on" /\ e.t < now' /\ b.t < e.t
      BY <1>6, <3>1, <3>2
    <3> QED BY <2>3, <1>2, <1>3, <3>1, <3>3 DEF Times
  <2>4. CASE t = now' /\ mode = "on" /\ seen # "on"
    BY <2>4, <1>2, <1>3, <1>4 DEF Times
  <2> QED BY <2>1, <2>2, <2>3, <2>4
<1>12. HeardInv'
  <2> SUFFICES ASSUME ~lost, NEW t \in heard'
               PROVE  Accounted(t)' \/ \E b \in Known' : Pauses(b, t)'
    BY <1>1 DEF HeardInv
  <2>1. CASE t \in heard /\ Accounted(t)
    <3>1. t < now'
      BY <2>1, <1>6
    <3>2. CASE \A r \in Rows : t < r
      BY <3>1, <3>2, <1>5 DEF Accounted
    <3> QED BY <2>1, <3>2, <1>5 DEF Accounted
  <2>2. ASSUME t \in heard, NEW b \in Known, Pauses(b, t)
        PROVE  Pauses(b, t)'
    BY <2>2, <1>3, <1>4, <1>6 DEF Pauses
  <2>3. CASE t = now' /\ mode = "on"
    BY <2>3, <1>5 DEF Accounted
  <2>4. CASE t = now' /\ mode = "off" /\ seen = "off"
    <3>1. PICK e \in Known : \A d \in Known : e.t <= d.t => d.mode = "off"
      BY <2>4 DEF Inv, SeenInv
    <3>2. e.mode = "off" /\ e.t \in Nat /\ e.t <= now' /\ e \in Known'
      BY <3>1, <1>2, <1>3, <1>6 DEF Times
    <3>3. \A d \in Known : d.mode = "on" => ~(e.t <= d.t)
      BY <3>1
    <3>4. Known' = Known
      BY <2>4, <1>3
    <3>5. \A d \in Known' : ~(d.mode = "on" /\ e.t < d.t)
      BY <3>2, <3>3, <3>4, <1>6
    <3> QED BY <2>4, <3>2, <3>5 DEF Pauses
  <2>5. CASE t = now' /\ mode = "off" /\ seen # "off"
    <3>1. c \in Known' /\ \A d \in Known' : ~(c.t < d.t)
      BY <2>5, <1>2, <1>3, <1>4, <1>6 DEF Times
    <3> QED BY <2>5, <3>1, <1>2, <1>4 DEF Pauses, Times
  <2> QED BY <2>1, <2>2, <2>3, <2>4, <2>5, <1>1, <1>3 DEF Inv, HeardInv
<1> QED BY <1>3, <1>5, <1>7, <1>8, <1>9, <1>10, <1>11, <1>12 DEF Inv

-----------------------------------------------------------------------------
LEMMA InitInv ==
  ASSUME Init
  PROVE  Inv
<1>1. /\ logq = <<>> /\ buf = <<>> /\ table = <<>> /\ modeq = <<>> /\ inserted = {}
      /\ gone = {} /\ heard = {} /\ now = 0
      /\ fresh = FALSE /\ reading = FALSE /\ resetFile = FALSE /\ upsets = 0
      /\ lost = FALSE
      /\ \/ seen = "none" /\ mode_log = {}
         \/ seen = "off" /\ mode_log = {[t |-> 0, mode |-> "off"]}
  BY DEF Init, LogInit
<1>2. Len(<<>>) = 0 /\ <<>> \in Seq(Times) /\ <<>> \in Seq(Changes)
  OBVIOUS
<1>3. Rows = {} /\ Known = mode_log /\ Stored = mode_log
  BY <1>1, EmptyFacts DEF Rows, Known, Stored
<1>4. mode_log \subseteq Changes
  BY <1>1 DEF Changes
<1>5. TypeOK
  <2>1. LogTypeOK(Times)
    <3>1. upsets \in 0 .. MaxUpsets /\ QMax \in Nat /\ BufMax \in Nat
      BY <1>1, SampleLogAssumption
    <3>2. fresh \in BOOLEAN /\ reading \in BOOLEAN /\ resetFile \in BOOLEAN
      BY <1>1
    <3> QED BY <1>1, <1>2, <3>1, <3>2 DEF LogTypeOK
  <2>2. now \in 0 .. MaxTime /\ seen \in {"on", "off", "none"}
    BY <1>1, OutageAssumption
  <2> QED BY <1>1, <1>2, <1>4, <2>1, <2>2 DEF TypeOK
<1>6. OrderInv
  BY <1>1, EmptyFacts DEF OrderInv, Before
<1>7. PastInv /\ PauseInv /\ ResumeInv /\ SeenInv /\ HeardInv
  <2>1. \A c \in Known : c.t = 0 /\ c.mode = "off" /\ seen = "off"
    BY <1>1, <1>3
  <2>2. SeenInv
    BY <1>1, <1>3, <2>1 DEF SeenInv
  <2> QED BY <1>1, <1>3, <2>1, <2>2 DEF PastInv, PauseInv, ResumeInv, HeardInv
<1>8. ChangesInv
  BY <1>1, <1>2, <1>3 DEF ChangesInv
<1> QED BY <1>5, <1>6, <1>7, <1>8 DEF Inv

LEMMA StepInv ==
  ASSUME Inv, [Next]_vars
  PROVE  Inv'
<1>1. ASSUME NEW mode \in {"on", "off"}, NEW silence \in 0 .. MaxTime, Request(mode, silence)
      PROVE  Inv'
  BY <1>1, RequestKeepsInv
<1>2. CASE LogModes
  BY <1>2, LogModesKeepsInv
<1>3. CASE CommitModes
  BY <1>3, CommitModesKeepsInv
<1>4. CASE LoseChange
  BY <1>4, LoseChangeKeepsInv
<1>5. CASE Restart
  BY <1>5, RestartKeepsInv
<1>6. CASE Recorder /\ UNCHANGED ownVars
  BY <1>6, RecorderKeepsInv
<1>7. CASE UNCHANGED vars
  <2>1. UNCHANGED <<logVars, now, seen, modeq, inserted, mode_log, heard, lost>>
    BY <1>7 DEF vars, ownVars
  <2>2. UNCHANGED <<logq, buf, table, fresh, reading, resetFile, gone, upsets>>
    BY <2>1 DEF logVars, copyVars
  <2>3. Rows' = Rows /\ Known' = Known /\ Stored' = Stored
    BY <2>1, <2>2 DEF Rows, Known, Stored
  <2>4. TypeOK' /\ OrderInv'
    BY <2>1, <2>2 DEF Inv, TypeOK, LogTypeOK, OrderInv
  <2>5. PastInv' /\ ChangesInv' /\ PauseInv' /\ ResumeInv' /\ SeenInv'
    BY <2>1, <2>2, <2>3 DEF Inv, PastInv, ChangesInv, PauseInv, ResumeInv, SeenInv
  <2>6. HeardInv'
    BY <2>1, <2>2, <2>3 DEF Inv, HeardInv, Accounted, Pauses
  <2> QED BY <2>4, <2>5, <2>6 DEF Inv
<1> QED BY <1>1, <1>2, <1>3, <1>4, <1>5, <1>6, <1>7 DEF Next

THEOREM InvHolds == Spec => []Inv
<1>1. Init => Inv
  BY InitInv
<1>2. Inv /\ [Next]_vars => Inv'
  BY StepInv
<1> QED BY <1>1, <1>2, PTL DEF Spec

(* The report's state keeps its types: the queue and the buffer of the     *)
(* recorder never exceed their capacities.                                 *)
THEOREM TypeCorrect == Spec => []TypeOK
<1>1. Inv => TypeOK
  BY DEF Inv
<1> QED BY <1>1, InvHolds, PTL

-----------------------------------------------------------------------------
(* What api_probe_outages makes of the table and the log.                  *)
LEMMA HoleFacts ==
  ASSUME Inv, NEW i \in Holes
  PROVE  /\ i \in 1 .. Len(table) /\ i + 1 \in 1 .. Len(table) /\ Len(table) \in Nat
         /\ table[i] \in Rows /\ table[i + 1] \in Rows
         /\ table[i] \in Times /\ table[i + 1] \in Times /\ table[i] < table[i + 1]
<1>1. table \in Seq(Times) /\ Len(table) \in Nat
  BY DEF Inv, TypeOK, LogTypeOK
<1>2. i \in 1 .. Len(table) /\ i + 1 \in 1 .. Len(table) /\ i < i + 1
  BY <1>1 DEF Holes
<1>3. table[i] < table[i + 1]
  BY <1>2 DEF Inv, OrderInv, Increasing
<1> QED BY <1>1, <1>2, <1>3 DEF Rows, Entries

LEMMA EndFacts ==
  ASSUME Inv, NEW c \in mode_log
  PROVE  /\ End(c) \in Nat /\ End(c) <= now
         /\ \A d \in mode_log : d.mode = "on" /\ c.t < d.t => End(c) <= d.t
         /\ \/ End(c) = now
            \/ \E d \in mode_log : d.mode = "on" /\ c.t < d.t /\ End(c) = d.t
<1> DEFINE T == {now} \cup {d.t : d \in {e \in mode_log : e.t > c.t /\ e.mode = "on"}}
<1>1. mode_log \subseteq Known /\ now \in Nat /\ \A d \in mode_log : d.t \in Nat
  BY KnownTypes DEF Inv, TypeOK, Known, Stored
<1>2. T \in SUBSET Nat /\ now \in T
  BY <1>1
<1>3. End(c) = Min(T)
  BY DEF End
<1>4. Min(T) \in T /\ \A n \in T : Min(T) <= n
  <2> HIDE DEF T
  <2> QED BY <1>2, MinFacts
<1>5. \A d \in mode_log : d.mode = "on" /\ c.t < d.t => d.t \in T
  BY <1>1
<1> QED BY <1>1, <1>2, <1>3, <1>4, <1>5

(* No row lies strictly within a hole.                                     *)
LEMMA NoRowInHole ==
  ASSUME Inv, NEW i \in Holes, NEW t \in Nat, table[i] < t, t < table[i + 1]
  PROVE  t \notin Rows /\ ~\A r \in Rows : t < r
<1>1. /\ i \in 1 .. Len(table) /\ i + 1 \in 1 .. Len(table) /\ Len(table) \in Nat
      /\ table[i] \in Times /\ table[i + 1] \in Times
      /\ table[i] \in Rows
  BY HoleFacts
<1>2. \A j \in 1 .. Len(table) : table[j] # t
  <2> SUFFICES ASSUME NEW j \in 1 .. Len(table), table[j] = t PROVE FALSE
    OBVIOUS
  <2>1. ~(j < i) /\ ~(i + 1 < j) /\ j # i /\ j # i + 1
    BY <1>1 DEF Inv, OrderInv, Increasing, Times
  <2> QED BY <1>1, <2>1
<1>3. t \notin Entries(buf) \cup Entries(logq)
  <2>1. table[i + 1] \in Entries(table)
    BY <1>1 DEF Entries
  <2>2. \A r \in Entries(buf) \cup Entries(logq) : table[i + 1] < r /\ r \in Nat
    BY <2>1, RowsAreTimes DEF Inv, OrderInv, Before, Rows
  <2> QED BY <1>1, <2>2 DEF Times
<1>4. t \notin Entries(table)
  BY <1>2 DEF Entries
<1>5. ~(t < table[i])
  BY <1>1 DEF Times
<1> QED BY <1>1, <1>3, <1>4, <1>5 DEF Rows

LEMMA InvImpliesOutageMeansSilence ==
  ASSUME Inv
  PROVE  OutageMeansSilence
<1> SUFFICES ASSUME Complete, NEW i \in Outages, NEW t \in HeardIn(i)
             PROVE  FALSE
  BY DEF OutageMeansSilence
<1>1. i \in Holes /\ ~\E span \in OffSpans : Overlaps(span, i)
  BY DEF Outages
<1>2. t \in heard \ gone /\ table[i] < t /\ t < table[i + 1] /\ t \in Nat
  BY DEF HeardIn, Inv, TypeOK, Times
<1>3. ~Accounted(t)
  BY <1>1, <1>2, NoRowInHole DEF Accounted
<1>4. Known = mode_log
  BY DEF Complete, Known, Stored, Entries
<1>5. PICK c \in mode_log : Pauses(c, t)
  BY <1>2, <1>3, <1>4 DEF Inv, HeardInv, Complete
<1>6. t <= End(c)
  <2>1. t <= now
    BY <1>2 DEF Inv, PastInv
  <2> QED BY <1>2, <1>4, <1>5, <2>1, EndFacts DEF Pauses
<1>7. <<c.t, End(c)>> \in OffSpans
  BY <1>5 DEF OffSpans, Pauses
<1>8. c.t < table[i + 1] /\ table[i] < End(c)
  <2>1. c.t \in Nat /\ End(c) \in Nat /\ table[i] \in Nat /\ table[i + 1] \in Nat
    BY <1>1, <1>4, KnownTypes, EndFacts, HoleFacts DEF Inv, Times
  <2> QED BY <2>1, <1>2, <1>5, <1>6 DEF Pauses
<1> QED BY <1>1, <1>7, <1>8 DEF Overlaps

LEMMA InvImpliesSilenceReported ==
  ASSUME Inv
  PROVE  SilenceReported
<1> SUFFICES ASSUME Complete, Len(table) >= 3,
                    NEW i \in Holes, Long(i), HeardIn(i) = {}
             PROVE  i \in Outages
  BY DEF SilenceReported
<1> SUFFICES ASSUME NEW c \in mode_log, c.mode = "off", Overlaps(<<c.t, End(c)>>, i)
             PROVE  FALSE
  BY DEF Outages, OffSpans, Inv, TypeOK, LogTypeOK
<1>1. Known = mode_log /\ ~lost
  BY DEF Complete, Known, Stored, Entries
<1>2. /\ table[i] \in Rows /\ table[i] \in Nat \ {0} /\ table[i + 1] \in Nat
      /\ c.t \in Nat /\ End(c) \in Nat
  BY <1>1, KnownTypes, EndFacts, HoleFacts DEF Inv, Times
<1>3. c.t < table[i + 1] /\ table[i] < End(c)
  BY DEF Overlaps
<1>4. c.t \notin Rows \cup gone /\ c.t \in heard \cup {0}
  BY <1>1 DEF Inv, PauseInv
<1>5. ~(table[i] < c.t)
  BY <1>2, <1>3, <1>4 DEF HeardIn
<1>6. c.t < table[i]
  BY <1>2, <1>4, <1>5
<1>7. PICK d \in mode_log : d.mode = "on" /\ c.t < d.t /\ d.t <= table[i]
  BY <1>1, <1>2, <1>6 DEF Inv, ResumeInv
<1>8. End(c) <= d.t /\ d.t \in Nat
  BY <1>1, <1>7, KnownTypes, EndFacts DEF Inv
<1> QED BY <1>2, <1>3, <1>7, <1>8

(* api_probe_outages calls no hole an outage in which a request came in,   *)
(* unless its row or a change of mode was lost inside probe_server.        *)
THEOREM OutagesAreSilent == Spec => []OutageMeansSilence
<1>1. Inv => OutageMeansSilence
  BY InvImpliesOutageMeansSilence
<1> QED BY <1>1, InvHolds, PTL

(* And it reports every silence of that length, whatever pauses there have *)
(* been.                                                                   *)
THEOREM SilenceIsReported == Spec => []SilenceReported
<1>1. Inv => SilenceReported
  BY InvImpliesSilenceReported
<1> QED BY <1>1, InvHolds, PTL

=============================================================================
