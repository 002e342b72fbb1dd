------------------------ MODULE GatewayRecorderProofs ------------------------
(***************************************************************************)
(* Theorems about GatewayRecorder, for queues, batches and buffers of any  *)
(* size and any number of runs, resets, restarts and expired waits.        *)
(*                                                                         *)
(* OrderInv speaks of table, buffer and queue one by one, because a step   *)
(* takes a row from one to the next or drops it.  Handshake says what each *)
(* thread may assume of the other during a reset while no wait has         *)
(* expired; FenceInv and KeptInv need it.                                  *)
(***************************************************************************)
EXTENDS GatewayRecorder, SequenceTheorems, TLAPS

-----------------------------------------------------------------------------
Ascending(s) == \A i, j \in 1 .. Len(s) : i < j => Before(s[i], s[j])

Precede(R, T) == \A r \in R, t \in T : Before(r, t)

(* The rows of R have been measured. *)
Measured(R) == \A r \in R : r.run < run \/ (r.run = run /\ r.seq <= seq)

OrderInv ==
    /\ Ascending(table) /\ Ascending(buf) /\ Ascending(logq)
    /\ Precede(ToSet(table), ToSet(buf))
    /\ Precede(ToSet(table), ToSet(logq))
    /\ Precede(ToSet(buf), ToSet(logq))
    /\ Measured(ToSet(table)) /\ Measured(ToSet(buf)) /\ Measured(ToSet(logq))

BufferBound == wpc # "write" => Len(buf) <= BufMax

Handshake ==
    late = 0 =>
        /\ mpc = "setReq" => ~resetReq /\ ~resetDone
        /\ mpc \in {"setReq", "wait"} => ended = run
        /\ resetReq => mpc = "wait" /\ ~resetDone
        /\ wpc \in {"drain", "erase", "clearReq", "setDone"} =>
               mpc = "wait" /\ ~resetDone /\ buf = <<>>
        /\ wpc \in {"drain", "erase", "clearReq"} => resetReq
        /\ wpc = "setDone" => ~resetReq
        /\ wpc \in {"erase", "clearReq", "setDone"} => logq = <<>>

(* Nothing that is or may come to be in the table is older than the last   *)
(* erasure, or than one that is still uncommitted.                         *)
NotBefore(R, n) == \A r \in R : r.run >= n

FenceInv ==
    late = 0 =>
        /\ fence <= run + 1 /\ txErase <= run + 1
        /\ mpc # "wait" => fence <= run /\ txErase <= run
        /\ NotBefore(ToSet(table), fence)
        /\ NotBefore(ToSet(buf), fence) /\ NotBefore(ToSet(buf), txErase)
        /\ NotBefore(ToSet(logq), fence) /\ NotBefore(ToSet(logq), txErase)

(* A row that an erasure will take belongs to the run the reset ended. *)
KeptInv ==
    /\ ended <= run
    /\ \A r \in accepted : r.run <= run
    /\ late = 0 /\ txErase # 0 => \A r \in ToSet(table) : r.run <= ended
    /\ ~overflow /\ late = 0 =>
           \A r \in accepted : r.run > ended =>
               r \in ToSet(logq) \cup ToSet(buf) \cup ToSet(table)

IInv == TypeOK /\ OrderInv /\ BufferBound /\ Handshake /\ FenceInv /\ KeptInv

-----------------------------------------------------------------------------
(* What a step of either thread does to a sequence of rows.                *)
LEMMA EmptyRows == ToSet(<<>>) = {} /\ Ascending(<<>>) /\ <<>> \in Seq(Rows)
BY DEF ToSet, Ascending

LEMMA AppendRow ==
  ASSUME NEW s \in Seq(Rows), NEW r \in Rows
  PROVE  /\ Append(s, r) \in Seq(Rows) /\ Len(Append(s, r)) = Len(s) + 1
         /\ ToSet(Append(s, r)) = ToSet(s) \cup {r}
         /\ Ascending(s) /\ Precede(ToSet(s), {r}) => Ascending(Append(s, r))
<1> DEFINE t == Append(s, r)
<1>1. /\ t \in Seq(Rows) /\ Len(t) = Len(s) + 1 /\ Len(s) \in Nat
      /\ DOMAIN t = 1 .. Len(t) /\ DOMAIN s = 1 .. Len(s)
      /\ \A i \in 1 .. Len(s) : t[i] = s[i]
      /\ t[Len(s) + 1] = r
  BY AppendProperties, LenProperties
<1> HIDE DEF t
<1>2. ToSet(t) = ToSet(s) \cup {r}
  BY <1>1 DEF ToSet
<1>3. ASSUME Ascending(s), Precede(ToSet(s), {r}) PROVE Ascending(t)
  <2> SUFFICES ASSUME NEW i \in 1 .. Len(t), NEW j \in 1 .. Len(t), i < j
               PROVE  Before(t[i], t[j])
    BY DEF Ascending
  <2>1. i \in 1 .. Len(s) /\ t[i] = s[i]
    BY <1>1
  <2>2. CASE j = Len(t)
    BY <1>1, <1>3, <2>1, <2>2 DEF Precede, ToSet
  <2>3. CASE j # Len(t)
    BY <1>1, <1>3, <2>1, <2>3 DEF Ascending
  <2> QED
    BY <2>2, <2>3
<1> QED
  BY <1>1, <1>2, <1>3 DEF t

LEMMA TailRows ==
  ASSUME NEW s \in Seq(Rows), s # <<>>
  PROVE  /\ Head(s) \in Rows /\ Tail(s) \in Seq(Rows) /\ Len(Tail(s)) = Len(s) - 1
         /\ ToSet(s) = {Head(s)} \cup ToSet(Tail(s))
         /\ Ascending(s) => Ascending(Tail(s)) /\ Precede({Head(s)}, ToSet(Tail(s)))
<1> DEFINE t == Tail(s)
<1>1. /\ Head(s) \in Rows /\ t \in Seq(Rows) /\ Len(t) = Len(s) - 1
      /\ Len(s) \in Nat \ {0} /\ Head(s) = s[1]
      /\ DOMAIN t = 1 .. Len(t) /\ DOMAIN s = 1 .. Len(s)
      /\ \A i \in 1 .. Len(t) : t[i] = s[i + 1]
  BY HeadTailProperties, LenProperties, EmptySeq
<1> HIDE DEF t
<1>2. ToSet(s) = {Head(s)} \cup ToSet(t)
  <2>1. ASSUME NEW i \in 1 .. Len(s) PROVE s[i] \in {Head(s)} \cup ToSet(t)
    <3>1. i = 1 \/ (i - 1 \in 1 .. Len(t) /\ t[i - 1] = s[i])
      BY <1>1
    <3> QED
      BY <3>1, <1>1 DEF ToSet
  <2>2. ASSUME NEW i \in 1 .. Len(t) PROVE t[i] \in ToSet(s)
    <3>1. i + 1 \in 1 .. Len(s)
      BY <1>1
    <3> QED
      BY <3>1, <1>1 DEF ToSet
  <2>3. Head(s) \in ToSet(s)
    BY <1>1 DEF ToSet
  <2> QED
    BY <2>1, <2>2, <2>3, <1>1 DEF ToSet
<1>3. ASSUME Ascending(s) PROVE Ascending(t)
  BY <1>1, <1>3 DEF Ascending
<1>4. ASSUME Ascending(s) PROVE Precede({Head(s)}, ToSet(t))
  <2> SUFFICES ASSUME NEW i \in 1 .. Len(t) PROVE Before(Head(s), t[i])
    BY <1>1 DEF Precede, ToSet
  <2>1. 1 \in 1 .. Len(s) /\ i + 1 \in 1 .. Len(s) /\ 1 < i + 1
    BY <1>1
  <2> QED
    BY <2>1, <1>1, <1>4 DEF Ascending
<1> QED
  BY <1>1, <1>2, <1>3, <1>4 DEF t

LEMMA ConcatRows ==
  ASSUME NEW s \in Seq(Rows), NEW t \in Seq(Rows)
  PROVE  /\ s \o t \in Seq(Rows)
         /\ ToSet(s \o t) = ToSet(s) \cup ToSet(t)
         /\ Ascending(s) /\ Ascending(t) /\ Precede(ToSet(s), ToSet(t)) =>
                Ascending(s \o t)
<1> DEFINE u == s \o t
<1>1. /\ u \in Seq(Rows) /\ Len(u) = Len(s) + Len(t)
      /\ Len(s) \in Nat /\ Len(t) \in Nat
      /\ DOMAIN s = 1 .. Len(s) /\ DOMAIN t = 1 .. Len(t) /\ DOMAIN u = 1 .. Len(u)
      /\ \A i \in 1 .. Len(u) : u[i] = IF i <= Len(s) THEN s[i] ELSE t[i - Len(s)]
  BY ConcatProperties, LenProperties
<1> HIDE DEF u
<1>2. ToSet(u) = ToSet(s) \cup ToSet(t)
  <2>1. ASSUME NEW i \in 1 .. Len(u) PROVE u[i] \in ToSet(s) \cup ToSet(t)
    <3>1. CASE i <= Len(s)
      BY <3>1, <1>1 DEF ToSet
    <3>2. CASE i > Len(s)
      <4>1. i - Len(s) \in 1 .. Len(t) /\ u[i] = t[i - Len(s)]
        BY <3>2, <1>1
      <4> QED
        BY <4>1, <1>1 DEF ToSet
    <3> QED
      BY <3>1, <3>2, <1>1
  <2>2. ASSUME NEW i \in 1 .. Len(s) PROVE s[i] \in ToSet(u)
    <3>1. i \in 1 .. Len(u) /\ u[i] = s[i]
      BY <1>1
    <3> QED
      BY <3>1, <1>1 DEF ToSet
  <2>3. ASSUME NEW i \in 1 .. Len(t) PROVE t[i] \in ToSet(u)
    <3>1. Len(s) + i \in 1 .. Len(u) /\ u[Len(s) + i] = t[i]
      BY <1>1
    <3> QED
      BY <3>1, <1>1 DEF ToSet
  <2> QED
    BY <2>1, <2>2, <2>3, <1>1 DEF ToSet
<1>3. ASSUME Ascending(s), Ascending(t), Precede(ToSet(s), ToSet(t))
      PROVE  Ascending(u)
  <2> SUFFICES ASSUME NEW i \in 1 .. Len(u), NEW j \in 1 .. Len(u), i < j
               PROVE  Before(u[i], u[j])
    BY DEF Ascending
  <2>1. CASE j <= Len(s)
    <3>1. i \in 1 .. Len(s) /\ j \in 1 .. Len(s)
      BY <2>1, <1>1
    <3>2. u[i] = s[i] /\ u[j] = s[j]
      BY <3>1, <1>1
    <3> QED
      BY <3>1, <3>2, <1>3 DEF Ascending
  <2>2. CASE i > Len(s)
    <3>1. /\ i - Len(s) \in 1 .. Len(t) /\ j - Len(s) \in 1 .. Len(t)
          /\ i - Len(s) < j - Len(s)
          /\ u[i] = t[i - Len(s)] /\ u[j] = t[j - Len(s)]
      BY <2>2, <1>1
    <3> QED
      BY <3>1, <1>3 DEF Ascending
  <2>3. CASE i <= Len(s) /\ j > Len(s)
    <3>1. /\ i \in 1 .. Len(s) /\ u[i] = s[i]
          /\ j - Len(s) \in 1 .. Len(t) /\ u[j] = t[j - Len(s)]
      BY <2>3, <1>1
    <3> QED
      BY <3>1, <1>1, <1>3 DEF Precede, ToSet
  <2> QED
    BY <2>1, <2>2, <2>3, <1>1
<1> QED
  BY <1>1, <1>2, <1>3 DEF u

(* The cut of a buffer that has grown too long. *)
LEMMA CutRows ==
  ASSUME NEW s \in Seq(Rows), NEW n \in Nat \ {0}, n <= Len(s)
  PROVE  LET t == SubSeq(s, Len(s) - n + 1, Len(s))
         IN  /\ t \in Seq(Rows) /\ Len(t) = n
             /\ ToSet(t) \subseteq ToSet(s)
             /\ Ascending(s) => Ascending(t)
<1> DEFINE m == Len(s) - n + 1
           t == SubSeq(s, m, Len(s))
<1>1. Len(s) \in Nat /\ m \in 1 .. Len(s) /\ Len(s) - m + 1 = n
  BY LenProperties
<1>2. \A i \in m .. Len(s) : s[i] \in Rows
  BY <1>1, ElementOfSeq
<1>3. /\ t \in Seq(Rows)
      /\ Len(t) = IF m <= Len(s) THEN Len(s) - m + 1 ELSE 0
      /\ \A i \in 1 .. Len(s) - m + 1 : t[i] = s[m + i - 1]
  BY <1>1, <1>2, SubSeqProperties
<1>4. /\ t \in Seq(Rows) /\ Len(t) = n /\ DOMAIN s = 1 .. Len(s)
      /\ DOMAIN t = 1 .. n
      /\ \A i \in 1 .. n : m + i - 1 \in 1 .. Len(s) /\ t[i] = s[m + i - 1]
  BY <1>1, <1>3, LenProperties
<1> HIDE DEF t
<1>5. ToSet(t) \subseteq ToSet(s)
  BY <1>4 DEF ToSet
<1>6. ASSUME Ascending(s) PROVE Ascending(t)
  BY <1>1, <1>4, <1>6 DEF Ascending
<1> QED
  BY <1>4, <1>5, <1>6 DEF t, m
-----------------------------------------------------------------------------
(* The initial state and the steps that move no row.                       *)
LEMMA Bounds ==
  /\ QMax \in Nat /\ QMax > 0 /\ BatchLen \in Nat /\ BatchLen > 0
  /\ BufMax \in Nat /\ BufMax > 0 /\ BufKeep \in Nat /\ BufKeep > 0
  /\ BufKeep <= BufMax /\ BatchLen <= BufMax
  /\ MaxRun \in Nat /\ MaxRun > 0
  /\ MaxSeq \in Nat /\ MaxResets \in Nat /\ MaxCrashes \in Nat /\ MaxLate \in Nat
BY RecorderAssumption

LEMMA RowTypes ==
  ASSUME TypeOK
  PROVE  /\ \A r \in ToSet(table) \cup ToSet(buf) \cup ToSet(logq) \cup accepted :
                r \in Rows /\ r.run \in Nat /\ r.seq \in Nat
         /\ run \in Nat /\ seq \in Nat /\ ended \in Nat /\ fence \in Nat
         /\ txErase \in Nat /\ late \in Nat
<1>1. \A t \in Seq(Rows) : \A r \in ToSet(t) : r \in Rows
  BY LenProperties, ElementOfSeq DEF ToSet
<1>2. \A r \in Rows : r.run \in Nat /\ r.seq \in Nat
  <2>1. MaxRun \in Nat /\ MaxSeq \in Nat
    BY Bounds
  <2>2. 1 .. MaxRun \subseteq Nat /\ 1 .. MaxSeq \subseteq Nat
    BY <2>1
  <2> QED
    BY <2>2 DEF Rows
<1>3. \A r \in ToSet(table) \cup ToSet(buf) \cup ToSet(logq) \cup accepted : r \in Rows
  BY <1>1 DEF TypeOK
<1>4. /\ run \in Nat /\ seq \in Nat /\ ended \in Nat /\ fence \in Nat
      /\ txErase \in Nat /\ late \in Nat
  BY Bounds DEF TypeOK
<1> QED
  BY <1>2, <1>3, <1>4

LEMMA NewRunType ==
  ASSUME TypeOK, NewRun
  PROVE  run' \in 1 .. MaxRun /\ seq' \in 0 .. MaxSeq
BY Bounds DEF TypeOK, NewRun

LEMMA OrderStays ==
  ASSUME IInv, UNCHANGED <<table, buf, logq>>,
         UNCHANGED <<run, seq>> \/ NewRun
  PROVE  OrderInv'
<1>1. /\ Measured(ToSet(table))' /\ Measured(ToSet(buf))' /\ Measured(ToSet(logq))'
  BY RowTypes DEF IInv, OrderInv, Measured, NewRun
<1> QED
  BY <1>1 DEF IInv, OrderInv

LEMMA InitInv == Init => IInv
<1> SUFFICES ASSUME Init PROVE IInv
  OBVIOUS
<1>1. TypeOK
  <2>1. /\ 1 \in 1 .. MaxRun /\ 0 \in 0 .. MaxSeq /\ 0 \in 0 .. MaxRun + 1
        /\ 0 \in 0 .. MaxRun /\ 0 \in 0 .. MaxLate /\ 0 \in 0 .. MaxResets
        /\ 0 \in 0 .. MaxCrashes /\ 0 <= QMax /\ 0 <= BufMax + 1
    BY Bounds
  <2>2. <<>> \in Seq(Rows) /\ Len(<<>>) = 0
    BY EmptyRows, EmptySeq
  <2> QED
    BY <2>1, <2>2 DEF Init, TypeOK
<1>2. OrderInv
  BY EmptyRows DEF Init, OrderInv, Precede, Measured
<1>3. BufferBound /\ Handshake
  BY EmptySeq, Bounds DEF Init, BufferBound, Handshake
<1>4. FenceInv /\ KeptInv
  BY EmptyRows DEF Init, FenceInv, NotBefore, KeptInv
<1> QED
  BY <1>1, <1>2, <1>3, <1>4 DEF IInv

LEMMA ClockStepInv == IInv /\ ClockStep => IInv'
<1> SUFFICES ASSUME IInv, ClockStep PROVE IInv'
  OBVIOUS
<1>1. TypeOK'
  <2>1. run' \in 1 .. MaxRun /\ seq' \in 0 .. MaxSeq
    BY NewRunType DEF IInv, ClockStep, NewRun, mainVars, writerVars, dbVars,
       histVars
  <2> QED
    BY <2>1 DEF IInv, TypeOK, ClockStep, NewRun, mainVars, writerVars, dbVars,
       histVars
<1>2. OrderInv'
  BY OrderStays DEF IInv, ClockStep, NewRun, mainVars, writerVars, dbVars, histVars
<1>3. BufferBound'
  BY DEF IInv, BufferBound, ClockStep, NewRun, mainVars, writerVars, dbVars,
     histVars
<1>4. Handshake'
  BY DEF IInv, TypeOK, Handshake, ClockStep, NewRun, mainVars, writerVars, dbVars,
     histVars
<1>5. FenceInv'
  BY RowTypes DEF IInv, Handshake, FenceInv, ClockStep, NewRun, mainVars,
     writerVars, dbVars, histVars
<1>6. KeptInv'
  <2>1. run' \in Nat /\ run < run' /\ UNCHANGED accepted
    BY RowTypes DEF IInv, ClockStep, NewRun, mainVars, writerVars, dbVars, histVars
  <2>2. ended <= run' /\ \A r \in accepted : r.run <= run'
    BY <2>1, RowTypes DEF IInv, KeptInv
  <2> QED
    BY <2>2 DEF IInv, KeptInv, ClockStep, NewRun, mainVars, writerVars, dbVars,
       histVars
<1> QED
  BY <1>1, <1>2, <1>3, <1>4, <1>5, <1>6 DEF IInv

LEMMA NoCommandInv == IInv /\ NoCommand => IInv'
<1> SUFFICES ASSUME IInv, NoCommand PROVE IInv'
  OBVIOUS
<1>1. TypeOK'
  BY Bounds DEF IInv, TypeOK, NoCommand, mainVars, writerVars, dbVars, histVars
<1>2. OrderInv'
  BY OrderStays DEF IInv, NoCommand, mainVars, writerVars, dbVars, histVars
<1>3. BufferBound'
  BY DEF IInv, BufferBound, NoCommand, mainVars, writerVars, dbVars, histVars
<1>4. Handshake'
  BY DEF IInv, TypeOK, Handshake, NoCommand, mainVars, writerVars, dbVars, histVars
<1>5. FenceInv'
  BY RowTypes DEF IInv, Handshake, FenceInv, NoCommand, mainVars, writerVars,
     dbVars, histVars
<1>6. KeptInv'
  BY RowTypes DEF IInv, Handshake, KeptInv, NoCommand, mainVars, writerVars,
     dbVars, histVars
<1> QED
  BY <1>1, <1>2, <1>3, <1>4, <1>5, <1>6 DEF IInv

LEMMA MeasureOffInv == IInv /\ MeasureOff => IInv'
<1> SUFFICES ASSUME IInv, MeasureOff PROVE IInv'
  OBVIOUS
<1>1. TypeOK'
  BY Bounds DEF IInv, TypeOK, MeasureOff, mainVars, writerVars, dbVars, histVars
<1>2. OrderInv'
  BY OrderStays DEF IInv, MeasureOff, mainVars, writerVars, dbVars, histVars
<1>3. BufferBound'
  BY DEF IInv, BufferBound, MeasureOff, mainVars, writerVars, dbVars, histVars
<1>4. Handshake'
  BY DEF IInv, TypeOK, Handshake, MeasureOff, mainVars, writerVars, dbVars, histVars
<1>5. FenceInv'
  BY RowTypes DEF IInv, Handshake, FenceInv, MeasureOff, mainVars, writerVars,
     dbVars, histVars
<1>6. KeptInv'
  BY RowTypes DEF IInv, Handshake, KeptInv, MeasureOff, mainVars, writerVars,
     dbVars, histVars
<1> QED
  BY <1>1, <1>2, <1>3, <1>4, <1>5, <1>6 DEF IInv

LEMMA MeasureOnInv == IInv /\ MeasureOn => IInv'
<1> SUFFICES ASSUME IInv, MeasureOn PROVE IInv'
  OBVIOUS
<1>1. TypeOK'
  <2>1. run' \in 1 .. MaxRun /\ seq' \in 0 .. MaxSeq
    BY NewRunType DEF IInv, MeasureOn, NewRun, mainVars, writerVars, dbVars,
       histVars
  <2> QED
    BY <2>1 DEF IInv, TypeOK, MeasureOn, NewRun, mainVars, writerVars, dbVars,
       histVars
<1>2. OrderInv'
  BY OrderStays DEF IInv, MeasureOn, NewRun, mainVars, writerVars, dbVars, histVars
<1>3. BufferBound'
  BY DEF IInv, BufferBound, MeasureOn, NewRun, mainVars, writerVars, dbVars,
     histVars
<1>4. Handshake'
  BY DEF IInv, TypeOK, Handshake, MeasureOn, NewRun, mainVars, writerVars, dbVars,
     histVars
<1>5. FenceInv'
  BY RowTypes DEF IInv, Handshake, FenceInv, MeasureOn, NewRun, mainVars,
     writerVars, dbVars, histVars
<1>6. KeptInv'
  <2>1. run' \in Nat /\ run < run' /\ UNCHANGED accepted
    BY RowTypes DEF IInv, MeasureOn, NewRun, mainVars, writerVars, dbVars, histVars
  <2>2. ended <= run' /\ \A r \in accepted : r.run <= run'
    BY <2>1, RowTypes DEF IInv, KeptInv
  <2> QED
    BY <2>2 DEF IInv, KeptInv, MeasureOn, NewRun, mainVars, writerVars, dbVars,
       histVars
<1> QED
  BY <1>1, <1>2, <1>3, <1>4, <1>5, <1>6 DEF IInv

LEMMA ClearDoneInv == IInv /\ ClearDone => IInv'
<1> SUFFICES ASSUME IInv, ClearDone PROVE IInv'
  OBVIOUS
<1>1. TypeOK'
  <2>1. resets' \in 0 .. MaxResets /\ ended' \in 0 .. MaxRun
    BY Bounds DEF IInv, TypeOK, ClearDone, mainVars, writerVars, dbVars, histVars
  <2> QED
    BY <2>1 DEF IInv, TypeOK, ClearDone, mainVars, writerVars, dbVars, histVars
<1>2. OrderInv'
  BY OrderStays DEF IInv, ClearDone, mainVars, writerVars, dbVars, histVars
<1>3. BufferBound'
  BY DEF IInv, BufferBound, ClearDone, mainVars, writerVars, dbVars, histVars
<1>4. Handshake'
  BY DEF IInv, TypeOK, Handshake, ClearDone, mainVars, writerVars, dbVars, histVars
<1>5. FenceInv'
  BY RowTypes DEF IInv, Handshake, FenceInv, ClearDone, mainVars, writerVars,
     dbVars, histVars
<1>6. KeptInv'
  BY RowTypes DEF IInv, Handshake, KeptInv, ClearDone, mainVars, writerVars,
     dbVars, histVars
<1> QED
  BY <1>1, <1>2, <1>3, <1>4, <1>5, <1>6 DEF IInv

LEMMA SetReqInv == IInv /\ SetReq => IInv'
<1> SUFFICES ASSUME IInv, SetReq PROVE IInv'
  OBVIOUS
<1>1. TypeOK'
  BY Bounds DEF IInv, TypeOK, SetReq, mainVars, writerVars, dbVars, histVars
<1>2. OrderInv'
  BY OrderStays DEF IInv, SetReq, mainVars, writerVars, dbVars, histVars
<1>3. BufferBound'
  BY DEF IInv, BufferBound, SetReq, mainVars, writerVars, dbVars, histVars
<1>4. Handshake'
  BY DEF IInv, TypeOK, Handshake, SetReq, mainVars, writerVars, dbVars, histVars
<1>5. FenceInv'
  BY RowTypes DEF IInv, Handshake, FenceInv, SetReq, mainVars, writerVars, dbVars,
     histVars
<1>6. KeptInv'
  BY RowTypes DEF IInv, Handshake, KeptInv, SetReq, mainVars, writerVars, dbVars,
     histVars
<1> QED
  BY <1>1, <1>2, <1>3, <1>4, <1>5, <1>6 DEF IInv

LEMMA ResetFinishedInv == IInv /\ ResetFinished => IInv'
<1> SUFFICES ASSUME IInv, ResetFinished PROVE IInv'
  OBVIOUS
<1>1. TypeOK'
  <2>1. run' \in 1 .. MaxRun /\ seq' \in 0 .. MaxSeq
    BY NewRunType DEF IInv, ResetFinished, NewRun, mainVars, writerVars, dbVars,
       histVars
  <2> QED
    BY <2>1 DEF IInv, TypeOK, ResetFinished, NewRun, mainVars, writerVars, dbVars,
       histVars
<1>2. OrderInv'
  BY OrderStays DEF IInv, ResetFinished, NewRun, mainVars, writerVars, dbVars,
     histVars
<1>3. BufferBound'
  BY DEF IInv, BufferBound, ResetFinished, NewRun, mainVars, writerVars, dbVars,
     histVars
<1>4. Handshake'
  BY DEF IInv, TypeOK, Handshake, ResetFinished, NewRun, mainVars, writerVars,
     dbVars, histVars
<1>5. FenceInv'
  BY RowTypes DEF IInv, Handshake, FenceInv, ResetFinished, NewRun, mainVars,
     writerVars, dbVars, histVars
<1>6. KeptInv'
  <2>1. run' \in Nat /\ run < run' /\ UNCHANGED accepted
    BY RowTypes DEF IInv, ResetFinished, NewRun, mainVars, writerVars, dbVars,
       histVars
  <2>2. ended <= run' /\ \A r \in accepted : r.run <= run'
    BY <2>1, RowTypes DEF IInv, KeptInv
  <2> QED
    BY <2>2 DEF IInv, KeptInv, ResetFinished, NewRun, mainVars, writerVars, dbVars,
       histVars
<1> QED
  BY <1>1, <1>2, <1>3, <1>4, <1>5, <1>6 DEF IInv

LEMMA ResetTimedOutInv == IInv /\ ResetTimedOut => IInv'
<1> SUFFICES ASSUME IInv, ResetTimedOut PROVE IInv'
  OBVIOUS
<1>1. TypeOK'
  <2>1. late' \in 0 .. MaxLate
    BY Bounds DEF IInv, TypeOK, ResetTimedOut, mainVars, writerVars, dbVars,
       histVars
  <2> QED
    BY <2>1 DEF IInv, TypeOK, ResetTimedOut, mainVars, writerVars, dbVars, histVars
<1>2. OrderInv'
  BY OrderStays DEF IInv, ResetTimedOut, mainVars, writerVars, dbVars, histVars
<1>3. BufferBound'
  BY DEF IInv, BufferBound, ResetTimedOut, mainVars, writerVars, dbVars, histVars
<1>4. Handshake'
  BY DEF IInv, TypeOK, Handshake, ResetTimedOut, mainVars, writerVars, dbVars,
     histVars
<1>5. FenceInv'
  BY RowTypes DEF IInv, Handshake, FenceInv, ResetTimedOut, mainVars, writerVars,
     dbVars, histVars
<1>6. KeptInv'
  BY RowTypes DEF IInv, Handshake, KeptInv, ResetTimedOut, mainVars, writerVars,
     dbVars, histVars
<1> QED
  BY <1>1, <1>2, <1>3, <1>4, <1>5, <1>6 DEF IInv

LEMMA EraseFailsInv == IInv /\ EraseFails => IInv'
<1> SUFFICES ASSUME IInv, EraseFails PROVE IInv'
  OBVIOUS
<1>1. TypeOK'
  BY Bounds DEF IInv, TypeOK, EraseFails, AfterErase, mainVars, writerVars, dbVars,
     histVars
<1>2. OrderInv'
  BY OrderStays DEF IInv, EraseFails, AfterErase, mainVars, writerVars, dbVars,
     histVars
<1>3. BufferBound'
  BY DEF IInv, BufferBound, EraseFails, AfterErase, mainVars, writerVars, dbVars,
     histVars
<1>4. Handshake'
  BY DEF IInv, TypeOK, Handshake, EraseFails, AfterErase, mainVars, writerVars,
     dbVars, histVars
<1>5. FenceInv'
  BY RowTypes DEF IInv, Handshake, FenceInv, EraseFails, AfterErase, mainVars,
     writerVars, dbVars, histVars
<1>6. KeptInv'
  BY RowTypes DEF IInv, Handshake, KeptInv, EraseFails, AfterErase, mainVars,
     writerVars, dbVars, histVars
<1> QED
  BY <1>1, <1>2, <1>3, <1>4, <1>5, <1>6 DEF IInv

LEMMA ClearReqInv == IInv /\ ClearReq => IInv'
<1> SUFFICES ASSUME IInv, ClearReq PROVE IInv'
  OBVIOUS
<1>1. TypeOK'
  BY Bounds DEF IInv, TypeOK, ClearReq, mainVars, writerVars, dbVars, histVars
<1>2. OrderInv'
  BY OrderStays DEF IInv, ClearReq, mainVars, writerVars, dbVars, histVars
<1>3. BufferBound'
  BY DEF IInv, BufferBound, ClearReq, mainVars, writerVars, dbVars, histVars
<1>4. Handshake'
  BY DEF IInv, TypeOK, Handshake, ClearReq, mainVars, writerVars, dbVars, histVars
<1>5. FenceInv'
  BY RowTypes DEF IInv, Handshake, FenceInv, ClearReq, mainVars, writerVars,
     dbVars, histVars
<1>6. KeptInv'
  BY RowTypes DEF IInv, Handshake, KeptInv, ClearReq, mainVars, writerVars, dbVars,
     histVars
<1> QED
  BY <1>1, <1>2, <1>3, <1>4, <1>5, <1>6 DEF IInv

LEMMA SetDoneInv == IInv /\ SetDone => IInv'
<1> SUFFICES ASSUME IInv, SetDone PROVE IInv'
  OBVIOUS
<1>1. TypeOK'
  BY Bounds DEF IInv, TypeOK, SetDone, mainVars, writerVars, dbVars, histVars
<1>2. OrderInv'
  BY OrderStays DEF IInv, SetDone, mainVars, writerVars, dbVars, histVars
<1>3. BufferBound'
  BY DEF IInv, BufferBound, SetDone, mainVars, writerVars, dbVars, histVars
<1>4. Handshake'
  BY DEF IInv, TypeOK, Handshake, SetDone, mainVars, writerVars, dbVars, histVars
<1>5. FenceInv'
  BY RowTypes DEF IInv, Handshake, FenceInv, SetDone, mainVars, writerVars, dbVars,
     histVars
<1>6. KeptInv'
  BY RowTypes DEF IInv, Handshake, KeptInv, SetDone, mainVars, writerVars, dbVars,
     histVars
<1> QED
  BY <1>1, <1>2, <1>3, <1>4, <1>5, <1>6 DEF IInv

LEMMA NoResetInv == IInv /\ NoReset => IInv'
<1> SUFFICES ASSUME IInv, NoReset PROVE IInv'
  OBVIOUS
<1>1. TypeOK'
  BY Bounds DEF IInv, TypeOK, NoReset, mainVars, writerVars, dbVars, histVars
<1>2. OrderInv'
  BY OrderStays DEF IInv, NoReset, mainVars, writerVars, dbVars, histVars
<1>3. BufferBound'
  BY DEF IInv, BufferBound, NoReset, mainVars, writerVars, dbVars, histVars
<1>4. Handshake'
  BY DEF IInv, TypeOK, Handshake, NoReset, mainVars, writerVars, dbVars, histVars
<1>5. FenceInv'
  BY RowTypes DEF IInv, Handshake, FenceInv, NoReset, mainVars, writerVars, dbVars,
     histVars
<1>6. KeptInv'
  BY RowTypes DEF IInv, Handshake, KeptInv, NoReset, mainVars, writerVars, dbVars,
     histVars
<1> QED
  BY <1>1, <1>2, <1>3, <1>4, <1>5, <1>6 DEF IInv

-----------------------------------------------------------------------------
(* The steps that discard rows. *)
LEMMA OrderShrinks ==
  ASSUME IInv, UNCHANGED <<run, seq>> \/ NewRun,
         Ascending(table'), Ascending(buf'), Ascending(logq'),
         ToSet(table') \subseteq ToSet(table), ToSet(buf') \subseteq ToSet(buf),
         ToSet(logq') \subseteq ToSet(logq)
  PROVE  OrderInv'
<1>1. /\ Measured(ToSet(table))' /\ Measured(ToSet(buf))' /\ Measured(ToSet(logq))'
  BY RowTypes DEF IInv, OrderInv, Measured, NewRun
<1>2. /\ Precede(ToSet(table'), ToSet(buf')) /\ Precede(ToSet(table'), ToSet(logq'))
      /\ Precede(ToSet(buf'), ToSet(logq'))
  BY DEF IInv, OrderInv, Precede
<1> QED
  BY <1>1, <1>2 DEF OrderInv

(* What a reset discards belongs to the run it ends. *)
LEMMA ResetDiscardsOld ==
  ASSUME IInv, late = 0, mpc = "wait"
  PROVE  \A r \in ToSet(table) \cup ToSet(buf) \cup ToSet(logq) : r.run <= ended
BY RowTypes DEF IInv, Handshake, OrderInv, Measured

LEMMA BeginResetInv == IInv /\ BeginReset => IInv'
<1> SUFFICES ASSUME IInv, BeginReset PROVE IInv'
  OBVIOUS
<1>1. TypeOK'
  BY EmptyRows, EmptySeq, Bounds DEF IInv, TypeOK, BeginReset, mainVars,
     writerVars, dbVars, histVars
<1>2. OrderInv'
  BY EmptyRows, OrderShrinks DEF IInv, OrderInv, BeginReset, mainVars, writerVars,
     dbVars, histVars
<1>3. BufferBound'
  BY EmptySeq, Bounds DEF BufferBound, BeginReset, mainVars, writerVars, dbVars,
     histVars
<1>4. Handshake'
  BY DEF IInv, TypeOK, Handshake, BeginReset, mainVars, writerVars, dbVars, histVars
<1>5. FenceInv'
  BY EmptyRows DEF IInv, Handshake, FenceInv, NotBefore, BeginReset, mainVars,
     writerVars, dbVars, histVars
<1>6. KeptInv'
  <2>1. late = 0 => mpc = "wait"
    BY DEF IInv, Handshake, BeginReset
  <2> QED
    BY <2>1, ResetDiscardsOld, RowTypes DEF IInv, KeptInv, BeginReset, mainVars,
       writerVars, dbVars, histVars
<1> QED
  BY <1>1, <1>2, <1>3, <1>4, <1>5, <1>6 DEF IInv

LEMMA DrainInv == IInv /\ Drain => IInv'
<1> SUFFICES ASSUME IInv, Drain PROVE IInv'
  OBVIOUS
<1>1. TypeOK'
  <2>1. logq' \in Seq(Rows) /\ Len(logq') <= QMax
    <3>1. CASE logq = <<>>
      BY <3>1 DEF IInv, TypeOK, Drain, Drained
    <3>2. CASE logq # <<>>
      <4>1. logq \in Seq(Rows) /\ Len(logq) \in Nat /\ Len(logq) <= QMax
        BY LenProperties DEF IInv, TypeOK
      <4>2. Tail(logq) \in Seq(Rows) /\ Len(Tail(logq)) = Len(logq) - 1
        BY <3>2, <4>1, TailRows
      <4>3. logq' = Tail(logq)
        BY <3>2 DEF Drain, Drained
      <4> QED
        BY <4>1, <4>2, <4>3, Bounds
    <3> QED
      BY <3>1, <3>2
  <2> QED
    BY <2>1 DEF IInv, TypeOK, Drain, Drained, mainVars, writerVars, dbVars, histVars
<1>2. OrderInv'
  BY TailRows, OrderShrinks DEF IInv, TypeOK, OrderInv, Drain, Drained, mainVars,
     writerVars, dbVars, histVars
<1>3. BufferBound'
  BY DEF IInv, BufferBound, Drain, Drained, mainVars, writerVars, dbVars, histVars
<1>4. Handshake'
  BY DEF IInv, TypeOK, Handshake, Drain, Drained, mainVars, writerVars, dbVars,
     histVars
<1>5. FenceInv'
  <2>1. ToSet(logq') \subseteq ToSet(logq)
    BY TailRows DEF IInv, TypeOK, Drain, Drained, mainVars, writerVars, dbVars,
       histVars
  <2> QED
    BY <2>1 DEF IInv, Handshake, FenceInv, NotBefore, Drain, Drained, mainVars,
       writerVars, dbVars, histVars
<1>6. KeptInv'
  <2>1. late = 0 => mpc = "wait"
    BY DEF IInv, Handshake, Drain
  <2>2. CASE logq = <<>>
    BY <2>2 DEF IInv, KeptInv, Drain, Drained, mainVars, writerVars, dbVars,
       histVars
  <2>3. CASE logq # <<>>
    <3>1. ToSet(logq) = {Head(logq)} \cup ToSet(logq')
      BY <2>3, TailRows DEF IInv, TypeOK, Drain, Drained, mainVars, writerVars,
         dbVars, histVars
    <3>2. late = 0 => ~(Head(logq).run > ended)
      BY <3>1, <2>1, ResetDiscardsOld, RowTypes DEF IInv
    <3> QED
      BY <3>1, <3>2 DEF IInv, KeptInv, Drain, Drained, mainVars, writerVars,
         dbVars, histVars
  <2> QED
    BY <2>2, <2>3
<1> QED
  BY <1>1, <1>2, <1>3, <1>4, <1>5, <1>6 DEF IInv

LEMMA EraseInv == IInv /\ Erase => IInv'
<1> SUFFICES ASSUME IInv, Erase PROVE IInv'
  OBVIOUS
<1>1. TypeOK'
  <2>1. fence' \in 0 .. MaxRun + 1 /\ 0 \in 0 .. MaxRun + 1
    BY Bounds DEF IInv, TypeOK, Erase, mainVars, writerVars, dbVars, histVars
  <2> QED
    BY <2>1, EmptyRows DEF IInv, TypeOK, Erase, mainVars, writerVars, dbVars,
       histVars
<1>2. OrderInv'
  BY EmptyRows, OrderShrinks DEF IInv, OrderInv, Erase, mainVars, writerVars,
     dbVars, histVars
<1>3. BufferBound'
  BY DEF IInv, BufferBound, Erase, mainVars, writerVars, dbVars, histVars
<1>4. Handshake'
  BY DEF IInv, TypeOK, Handshake, Erase, mainVars, writerVars, dbVars, histVars
<1>5. FenceInv'
  <2>1. late = 0 => buf = <<>> /\ logq = <<>> /\ mpc = "wait"
    BY DEF IInv, Handshake, Erase
  <2> QED
    BY <2>1, EmptyRows, RowTypes DEF IInv, FenceInv, NotBefore, Erase, mainVars,
       writerVars, dbVars, histVars
<1>6. KeptInv'
  <2>1. late = 0 => mpc = "wait"
    BY DEF IInv, Handshake, Erase
  <2> QED
    BY <2>1, ResetDiscardsOld, RowTypes DEF IInv, KeptInv, Erase, mainVars,
       writerVars, dbVars, histVars
<1> QED
  BY <1>1, <1>2, <1>3, <1>4, <1>5, <1>6 DEF IInv

LEMMA EraseUncommittedInv == IInv /\ EraseUncommitted => IInv'
<1> SUFFICES ASSUME IInv, EraseUncommitted PROVE IInv'
  OBVIOUS
<1>1. TypeOK'
  <2>1. txErase' \in 0 .. MaxRun + 1
    BY Bounds DEF IInv, TypeOK, EraseUncommitted, AfterErase, mainVars, writerVars,
       dbVars, histVars
  <2> QED
    BY <2>1 DEF IInv, TypeOK, EraseUncommitted, AfterErase, mainVars, writerVars,
       dbVars, histVars
<1>2. OrderInv'
  BY OrderStays DEF IInv, EraseUncommitted, AfterErase, mainVars, writerVars,
     dbVars, histVars
<1>3. BufferBound'
  BY DEF IInv, BufferBound, EraseUncommitted, AfterErase, mainVars, writerVars,
     dbVars, histVars
<1>4. Handshake'
  BY DEF IInv, TypeOK, Handshake, EraseUncommitted, AfterErase, mainVars,
     writerVars, dbVars, histVars
<1>5. FenceInv'
  <2>1. late = 0 => buf = <<>> /\ logq = <<>> /\ mpc = "wait"
    BY DEF IInv, Handshake, EraseUncommitted
  <2> QED
    BY <2>1, EmptyRows, RowTypes DEF IInv, FenceInv, NotBefore, EraseUncommitted,
       AfterErase, mainVars, writerVars, dbVars, histVars
<1>6. KeptInv'
  <2>1. late = 0 => mpc = "wait"
    BY DEF IInv, Handshake, EraseUncommitted
  <2> QED
    BY <2>1, ResetDiscardsOld, RowTypes DEF IInv, KeptInv, EraseUncommitted,
       AfterErase, mainVars, writerVars, dbVars, histVars
<1> QED
  BY <1>1, <1>2, <1>3, <1>4, <1>5, <1>6 DEF IInv

LEMMA RestartInv == IInv /\ Restart => IInv'
<1> SUFFICES ASSUME IInv, Restart PROVE IInv'
  OBVIOUS
<1>1. TypeOK'
  <2>1. /\ run' \in 1 .. MaxRun /\ seq' \in 0 .. MaxSeq /\ crashes' \in 0 .. MaxCrashes
        /\ 0 <= QMax /\ 0 <= BufMax + 1 /\ 0 \in 0 .. MaxRun + 1
    BY NewRunType, Bounds DEF IInv, TypeOK, Restart, NewRun, mainVars, writerVars,
       dbVars, histVars
  <2> QED
    BY <2>1, EmptyRows, EmptySeq DEF IInv, TypeOK, Restart, NewRun, mainVars,
       writerVars, dbVars, histVars
<1>2. OrderInv'
  BY EmptyRows, OrderShrinks DEF IInv, OrderInv, Restart, NewRun, mainVars,
     writerVars, dbVars, histVars
<1>3. BufferBound'
  BY EmptySeq, Bounds DEF BufferBound, Restart, NewRun, mainVars, writerVars,
     dbVars, histVars
<1>4. Handshake'
  BY DEF IInv, TypeOK, Handshake, Restart, NewRun, mainVars, writerVars, dbVars,
     histVars
<1>5. FenceInv'
  BY EmptyRows, RowTypes DEF IInv, FenceInv, NotBefore, Restart, NewRun, mainVars,
     writerVars, dbVars, histVars
<1>6. KeptInv'
  <2>1. ended <= run'
    BY RowTypes DEF IInv, KeptInv, Restart, NewRun, mainVars, writerVars, dbVars,
       histVars
  <2> QED
    BY <2>1 DEF KeptInv, Restart, NewRun, mainVars, writerVars, dbVars, histVars
<1> QED
  BY <1>1, <1>2, <1>3, <1>4, <1>5, <1>6 DEF IInv

LEMMA KeptBufRows ==
  ASSUME TypeOK
  PROVE  /\ KeptBuf \in Seq(Rows) /\ Len(KeptBuf) <= BufMax
         /\ ToSet(KeptBuf) \subseteq ToSet(buf)
         /\ Ascending(buf) => Ascending(KeptBuf)
         /\ Len(buf) > BufMax \/ KeptBuf = buf
<1>1. buf \in Seq(Rows) /\ Len(buf) \in Nat
  BY LenProperties DEF TypeOK
<1>2. CASE Len(buf) > BufMax
  <2>1. BufKeep \in Nat \ {0} /\ BufKeep <= Len(buf)
    BY <1>1, <1>2, Bounds
  <2>2. KeptBuf = SubSeq(buf, Len(buf) - BufKeep + 1, Len(buf))
    BY <1>2 DEF KeptBuf
  <2>3. /\ KeptBuf \in Seq(Rows) /\ Len(KeptBuf) = BufKeep
        /\ ToSet(KeptBuf) \subseteq ToSet(buf)
        /\ Ascending(buf) => Ascending(KeptBuf)
    BY <1>1, <2>1, <2>2, CutRows
  <2> QED
    BY <1>2, <2>3, Bounds
<1>3. CASE ~(Len(buf) > BufMax)
  <2>1. KeptBuf = buf
    BY <1>3 DEF KeptBuf
  <2> QED
    BY <1>1, <1>3, <2>1, Bounds
<1> QED
  BY <1>2, <1>3

LEMMA WriteFailsInv == IInv /\ WriteFails => IInv'
<1> SUFFICES ASSUME IInv, WriteFails PROVE IInv'
  OBVIOUS
<1>1. TypeOK'
  <2>1. buf' \in Seq(Rows) /\ Len(buf') <= BufMax + 1
    BY KeptBufRows, LenProperties, Bounds DEF IInv, TypeOK, WriteFails, mainVars,
       writerVars, dbVars, histVars
  <2>2. 0 \in 0 .. MaxRun + 1 /\ overflow' \in BOOLEAN
    BY Bounds DEF WriteFails
  <2> QED
    BY <2>1, <2>2 DEF IInv, TypeOK, WriteFails, mainVars, writerVars, dbVars,
       histVars
<1>2. OrderInv'
  <2>1. ToSet(buf') \subseteq ToSet(buf) /\ Ascending(buf')
    BY KeptBufRows DEF IInv, TypeOK, OrderInv, WriteFails, mainVars, writerVars,
       dbVars, histVars
  <2> QED
    BY <2>1, OrderShrinks DEF IInv, OrderInv, WriteFails, mainVars, writerVars,
       dbVars, histVars
<1>3. BufferBound'
  BY KeptBufRows DEF IInv, TypeOK, BufferBound, WriteFails, mainVars, writerVars,
     dbVars, histVars
<1>4. Handshake'
  BY DEF IInv, TypeOK, Handshake, WriteFails, mainVars, writerVars, dbVars, histVars
<1>5. FenceInv'
  <2>1. ToSet(buf') \subseteq ToSet(buf)
    BY KeptBufRows DEF IInv, TypeOK, WriteFails, mainVars, writerVars, dbVars,
       histVars
  <2> QED
    BY <2>1, RowTypes DEF IInv, FenceInv, NotBefore, WriteFails, mainVars,
       writerVars, dbVars, histVars
<1>6. KeptInv'
  <2>1. CASE Len(buf) > BufMax
    <3>1. overflow' = TRUE
      BY <2>1 DEF WriteFails
    <3> QED
      BY <3>1 DEF IInv, KeptInv, WriteFails, mainVars, writerVars, dbVars, histVars
  <2>2. CASE ~(Len(buf) > BufMax)
    <3>1. buf' = buf /\ overflow' = overflow
      BY <2>2, KeptBufRows DEF IInv, TypeOK, WriteFails
    <3> QED
      BY <3>1 DEF IInv, KeptInv, WriteFails, mainVars, writerVars, dbVars, histVars
  <2> QED
    BY <2>1, <2>2
<1> QED
  BY <1>1, <1>2, <1>3, <1>4, <1>5, <1>6 DEF IInv

-----------------------------------------------------------------------------
(* The steps that move rows on. *)
LEMMA CycleInv == IInv /\ Cycle => IInv'
<1> SUFFICES ASSUME IInv, Cycle PROVE IInv'
  OBVIOUS
<1>1. TypeOK'
  <2> DEFINE row == [run |-> run, seq |-> seq + 1]
  <2>1. seq' \in 0 .. MaxSeq /\ row \in Rows
    BY Bounds DEF IInv, TypeOK, Rows, Cycle
  <2>2. logq' \in Seq(Rows) /\ Len(logq') <= QMax /\ accepted' \subseteq Rows
    <3>1. CASE logq' = Append(logq, row) /\ accepted' = accepted \cup {row} /\ HasRoom
      <4>1. logq \in Seq(Rows) /\ Len(logq) \in Nat /\ Len(logq) < QMax
        BY <3>1, LenProperties DEF IInv, TypeOK, HasRoom
      <4>2. Append(logq, row) \in Seq(Rows) /\ Len(Append(logq, row)) = Len(logq) + 1
        BY <2>1, <4>1, AppendRow
      <4>3. accepted' \subseteq Rows
        BY <2>1, <3>1 DEF IInv, TypeOK
      <4> QED
        BY <3>1, <4>1, <4>2, <4>3, Bounds
    <3>2. CASE UNCHANGED <<logq, accepted>>
      BY <3>2 DEF IInv, TypeOK
    <3> QED
      BY <3>1, <3>2 DEF Cycle
  <2> QED
    BY <2>1, <2>2 DEF IInv, TypeOK, Cycle, HasRoom, mainVars, writerVars, dbVars,
       histVars
<1>2. OrderInv'
  <2> DEFINE row == [run |-> run, seq |-> seq + 1]
  <2>1. row \in Rows
    BY Bounds DEF IInv, TypeOK, Rows, Cycle
  <2>2. /\ Precede(ToSet(table), {row}) /\ Precede(ToSet(buf), {row})
        /\ Precede(ToSet(logq), {row})
    BY RowTypes DEF IInv, OrderInv, Precede, Measured, Before
  <2>3. /\ Measured(ToSet(table))' /\ Measured(ToSet(buf))'
        /\ \A r \in ToSet(logq) \cup {row} : r.run < run' \/ (r.run = run' /\ r.seq <= seq')
    <3>1. run' = run /\ seq' = seq + 1 /\ seq \in Nat /\ UNCHANGED <<table, buf>>
      BY RowTypes DEF IInv, Cycle, HasRoom, mainVars, writerVars, dbVars, histVars
    <3>2. \A r \in ToSet(table) \cup ToSet(buf) \cup ToSet(logq) :
             r.run < run \/ (r.run = run /\ r.seq <= seq + 1)
      BY RowTypes DEF IInv, OrderInv, Measured
    <3>3. row.run = run /\ row.seq <= seq + 1
      BY RowTypes DEF IInv
    <3> QED
      BY <3>1, <3>2, <3>3 DEF Measured
  <2>4. CASE UNCHANGED logq
    BY <2>3, <2>4 DEF IInv, OrderInv, Measured, Cycle, HasRoom, mainVars,
       writerVars, dbVars, histVars
  <2>5. CASE logq' = Append(logq, row)
    <3>1. ToSet(logq') = ToSet(logq) \cup {row} /\ Ascending(logq')
      BY <2>1, <2>2, <2>5, AppendRow DEF IInv, TypeOK, OrderInv
    <3>2. Measured(ToSet(logq))'
      BY <2>3, <3>1 DEF Measured
    <3>3. Precede(ToSet(table), ToSet(logq')) /\ Precede(ToSet(buf), ToSet(logq'))
      BY <2>2, <3>1 DEF IInv, OrderInv, Precede
    <3> QED
      BY <2>3, <3>1, <3>2, <3>3 DEF IInv, OrderInv, Cycle, HasRoom, mainVars,
         writerVars, dbVars, histVars
  <2> QED
    BY <2>4, <2>5 DEF Cycle
<1>3. BufferBound'
  BY DEF IInv, BufferBound, Cycle, HasRoom, mainVars, writerVars, dbVars, histVars
<1>4. Handshake'
  BY DEF IInv, TypeOK, Handshake, Cycle, HasRoom, mainVars, writerVars, dbVars,
     histVars
<1>5. FenceInv'
  <2> DEFINE row == [run |-> run, seq |-> seq + 1]
  <2>1. row \in Rows
    BY Bounds DEF IInv, TypeOK, Rows, Cycle
  <2>2. ToSet(logq') \subseteq ToSet(logq) \cup {row}
    <3>1. CASE logq' = Append(logq, row)
      BY <2>1, <3>1, AppendRow DEF IInv, TypeOK
    <3> QED
      BY <3>1 DEF Cycle
  <2>3. late = 0 => NotBefore(ToSet(logq'), fence) /\ NotBefore(ToSet(logq'), txErase)
    BY <2>2, RowTypes DEF IInv, FenceInv, NotBefore, Cycle
  <2> QED
    BY <2>3 DEF IInv, FenceInv, Cycle, HasRoom, mainVars, writerVars, dbVars,
       histVars
<1>6. KeptInv'
  <2> DEFINE row == [run |-> run, seq |-> seq + 1]
  <2>1. row \in Rows
    BY Bounds DEF IInv, TypeOK, Rows, Cycle
  <2>2. CASE UNCHANGED <<logq, accepted>>
    BY <2>2 DEF IInv, KeptInv, Cycle, HasRoom, mainVars, writerVars, dbVars,
       histVars
  <2>3. CASE logq' = Append(logq, row) /\ accepted' = accepted \cup {row}
    <3>1. ToSet(logq') = ToSet(logq) \cup {row}
      BY <2>1, <2>3, AppendRow DEF IInv, TypeOK
    <3>2. \A r \in accepted' : r.run <= run
      BY <2>3, RowTypes DEF IInv, KeptInv
    <3> QED
      BY <2>3, <3>1, <3>2 DEF IInv, KeptInv, Cycle, HasRoom, mainVars, writerVars,
         dbVars, histVars
  <2> QED
    BY <2>2, <2>3 DEF Cycle
<1> QED
  BY <1>1, <1>2, <1>3, <1>4, <1>5, <1>6 DEF IInv

LEMMA GetRowInv == IInv /\ GetRow => IInv'
<1> SUFFICES ASSUME IInv, GetRow PROVE IInv'
  OBVIOUS
<1>1. TypeOK'
  <2>1. buf' \in Seq(Rows) /\ logq' \in Seq(Rows)
    <3>1. CASE logq = <<>>
      BY <3>1 DEF IInv, TypeOK, GetRow
    <3>2. CASE logq # <<>>
      <4>1. logq \in Seq(Rows) /\ buf \in Seq(Rows)
        BY DEF IInv, TypeOK
      <4>2. Tail(logq) \in Seq(Rows) /\ Append(buf, Head(logq)) \in Seq(Rows)
        BY <3>2, <4>1, TailRows, AppendRow
      <4> QED
        BY <3>2, <4>2 DEF GetRow
    <3> QED
      BY <3>1, <3>2
  <2>2. Len(buf') <= BufMax + 1 /\ Len(logq') <= QMax
    BY TailRows, AppendRow, LenProperties, Bounds DEF IInv, TypeOK, BufferBound,
       GetRow
  <2> QED
    BY <2>1, <2>2 DEF IInv, TypeOK, GetRow, mainVars, writerVars, dbVars, histVars
<1>2. OrderInv'
  <2>1. CASE logq = <<>>
    BY <2>1, OrderStays DEF IInv, GetRow, mainVars, writerVars, dbVars, histVars
  <2>2. CASE logq # <<>>
    <3> DEFINE h == Head(logq)
    <3>1. /\ h \in Rows /\ ToSet(logq) = {h} \cup ToSet(logq')
          /\ Ascending(logq') /\ Precede({h}, ToSet(logq'))
      BY <2>2, TailRows DEF IInv, TypeOK, OrderInv, GetRow
    <3>2. Precede(ToSet(buf), {h}) /\ Precede(ToSet(table), {h})
      BY <3>1 DEF IInv, OrderInv, Precede
    <3>3. ToSet(buf') = ToSet(buf) \cup {h} /\ Ascending(buf')
      BY <2>2, <3>1, <3>2, AppendRow DEF IInv, TypeOK, OrderInv, GetRow
    <3>4. /\ Precede(ToSet(table'), ToSet(buf')) /\ Precede(ToSet(table'), ToSet(logq'))
          /\ Precede(ToSet(buf'), ToSet(logq'))
      BY <3>1, <3>2, <3>3 DEF IInv, OrderInv, Precede, GetRow, mainVars,
         writerVars, dbVars, histVars
    <3>5. /\ Measured(ToSet(table))' /\ Measured(ToSet(buf))' /\ Measured(ToSet(logq))'
      BY <3>1, <3>3 DEF IInv, OrderInv, Measured, GetRow, mainVars, writerVars,
         dbVars, histVars
    <3> QED
      BY <3>1, <3>3, <3>4, <3>5 DEF IInv, OrderInv, GetRow, mainVars, writerVars,
         dbVars, histVars
  <2> QED
    BY <2>1, <2>2
<1>3. BufferBound'
  BY DEF IInv, BufferBound, GetRow, mainVars, writerVars, dbVars, histVars
<1>4. Handshake'
  BY DEF IInv, TypeOK, Handshake, GetRow, mainVars, writerVars, dbVars, histVars
<1>5. FenceInv'
  <2>1. CASE logq = <<>>
    BY <2>1 DEF IInv, FenceInv, NotBefore, GetRow, mainVars, writerVars, dbVars,
       histVars
  <2>2. CASE logq # <<>>
    <3>1. /\ ToSet(logq) = {Head(logq)} \cup ToSet(logq')
          /\ ToSet(buf') = ToSet(buf) \cup {Head(logq)}
      BY <2>2, TailRows, AppendRow DEF IInv, TypeOK, GetRow
    <3> QED
      BY <3>1, <2>2 DEF IInv, FenceInv, NotBefore, GetRow, mainVars, writerVars,
         dbVars, histVars
  <2> QED
    BY <2>1, <2>2
<1>6. KeptInv'
  <2>1. CASE logq = <<>>
    BY <2>1 DEF IInv, KeptInv, GetRow, mainVars, writerVars, dbVars, histVars
  <2>2. CASE logq # <<>>
    <3>1. /\ ToSet(logq) = {Head(logq)} \cup ToSet(logq')
          /\ ToSet(buf') = ToSet(buf) \cup {Head(logq)}
      BY <2>2, TailRows, AppendRow DEF IInv, TypeOK, GetRow
    <3> QED
      BY <3>1, <2>2 DEF IInv, KeptInv, GetRow, mainVars, writerVars, dbVars,
         histVars
  <2> QED
    BY <2>1, <2>2
<1> QED
  BY <1>1, <1>2, <1>3, <1>4, <1>5, <1>6 DEF IInv

LEMMA WriteBatchInv == IInv /\ WriteBatch => IInv'
<1> SUFFICES ASSUME IInv, WriteBatch PROVE IInv'
  OBVIOUS
<1>1. TypeOK'
  <2>1. table' \in Seq(Rows)
    BY ConcatRows DEF IInv, TypeOK, WriteBatch, BatchReady, ClearedBuf, mainVars,
       writerVars, dbVars, histVars
  <2>2. buf' \in Seq(Rows) /\ Len(buf') <= BufMax + 1
    <3>1. buf' = <<>> \/ buf' = buf
      BY DEF WriteBatch, BatchReady, ClearedBuf, mainVars, writerVars, dbVars,
         histVars
    <3>2. <<>> \in Seq(Rows) /\ Len(<<>>) <= BufMax + 1
      BY EmptyRows, EmptySeq, Bounds
    <3> QED
      BY <3>1, <3>2 DEF IInv, TypeOK
  <2>3. txErase' \in 0 .. MaxRun + 1 /\ fence' \in 0 .. MaxRun + 1
    BY Bounds DEF IInv, TypeOK, WriteBatch, BatchReady, ClearedBuf, mainVars,
       writerVars, dbVars, histVars
  <2> QED
    BY <2>1, <2>2, <2>3 DEF IInv, TypeOK, WriteBatch, BatchReady, ClearedBuf,
       mainVars, writerVars, dbVars, histVars
<1>2. OrderInv'
  <2>1. CASE UNCHANGED <<table, buf>>
    BY <2>1, OrderStays DEF IInv, WriteBatch, BatchReady, ClearedBuf, mainVars,
       writerVars, dbVars, histVars
  <2>2. CASE table' \in {table \o buf, buf} /\ buf' = <<>>
    <3>1. ToSet(table') \subseteq ToSet(table) \cup ToSet(buf) /\ Ascending(table')
      BY <2>2, ConcatRows DEF IInv, TypeOK, OrderInv
    <3>2. ToSet(buf') = {} /\ Ascending(buf')
      BY <2>2, EmptyRows
    <3>3. Measured(ToSet(table))'
      BY <3>1 DEF IInv, OrderInv, Measured, WriteBatch, BatchReady, ClearedBuf,
         mainVars, writerVars, dbVars, histVars
    <3>4. Precede(ToSet(table'), ToSet(logq'))
      BY <3>1 DEF IInv, OrderInv, Precede, WriteBatch, BatchReady, ClearedBuf,
         mainVars, writerVars, dbVars, histVars
    <3> QED
      BY <3>1, <3>2, <3>3, <3>4 DEF IInv, OrderInv, Precede, Measured, WriteBatch,
         BatchReady, ClearedBuf, mainVars, writerVars, dbVars, histVars
  <2> QED
    BY <2>1, <2>2 DEF WriteBatch, BatchReady, ClearedBuf, mainVars, writerVars,
       dbVars, histVars
<1>3. BufferBound'
  BY EmptySeq, LenProperties, Bounds DEF IInv, TypeOK, BufferBound, WriteBatch,
     BatchReady, ClearedBuf, mainVars, writerVars, dbVars, histVars
<1>4. Handshake'
  BY DEF IInv, TypeOK, Handshake, WriteBatch, BatchReady, ClearedBuf, mainVars,
     writerVars, dbVars, histVars
<1>5. FenceInv'
  <2>1. CASE UNCHANGED <<dbVars, buf, fence>>
    BY <2>1 DEF IInv, FenceInv, WriteBatch, BatchReady, ClearedBuf, mainVars,
       writerVars, dbVars, histVars
  <2>2. CASE /\ txErase = 0 /\ table' = table \o buf /\ buf' = <<>>
             /\ UNCHANGED <<txErase, fence>>
    <3>1. ToSet(table') = ToSet(table) \cup ToSet(buf)
      BY <2>2, ConcatRows DEF IInv, TypeOK
    <3> QED
      BY <2>2, <3>1, EmptyRows DEF IInv, FenceInv, NotBefore, WriteBatch,
         BatchReady, ClearedBuf, mainVars, writerVars, dbVars, histVars
  <2>3. CASE table' = buf /\ fence' = txErase /\ buf' = <<>> /\ txErase' = 0
    BY <2>3, EmptyRows, RowTypes DEF IInv, FenceInv, NotBefore, WriteBatch,
       BatchReady, ClearedBuf, mainVars, writerVars, dbVars, histVars
  <2> QED
    BY <2>1, <2>2, <2>3 DEF WriteBatch, BatchReady, ClearedBuf, mainVars,
       writerVars, dbVars, histVars
<1>6. KeptInv'
  <2>1. CASE UNCHANGED <<dbVars, buf, fence>>
    BY <2>1 DEF IInv, KeptInv, WriteBatch, BatchReady, ClearedBuf, mainVars,
       writerVars, dbVars, histVars
  <2>2. CASE txErase = 0 /\ table' = table \o buf /\ UNCHANGED txErase
    <3>1. ToSet(table') = ToSet(table) \cup ToSet(buf)
      BY <2>2, ConcatRows DEF IInv, TypeOK
    <3> QED
      BY <2>2, <3>1 DEF IInv, KeptInv, WriteBatch, BatchReady, ClearedBuf,
         mainVars, writerVars, dbVars, histVars
  <2>3. CASE txErase # 0 /\ table' = buf /\ txErase' = 0
    <3>1. late = 0 => \A r \in ToSet(table) : ~(r.run > ended)
      BY <2>3, RowTypes DEF IInv, KeptInv
    <3> QED
      BY <2>3, <3>1 DEF IInv, KeptInv, WriteBatch, BatchReady, ClearedBuf,
         mainVars, writerVars, dbVars, histVars
  <2> QED
    BY <2>1, <2>2, <2>3 DEF WriteBatch, BatchReady, ClearedBuf, mainVars,
       writerVars, dbVars, histVars
<1> QED
  BY <1>1, <1>2, <1>3, <1>4, <1>5, <1>6 DEF IInv

-----------------------------------------------------------------------------
(* The theorems. *)
LEMMA StutterInv == IInv /\ UNCHANGED vars => IInv'
<1> SUFFICES ASSUME IInv, UNCHANGED vars PROVE IInv'
  OBVIOUS
<1>1. TypeOK' /\ BufferBound' /\ Handshake'
  BY DEF IInv, TypeOK, BufferBound, Handshake, vars, mainVars, writerVars, dbVars,
     histVars
<1>2. OrderInv' /\ FenceInv' /\ KeptInv'
  BY OrderStays DEF IInv, FenceInv, KeptInv, vars, mainVars, writerVars, dbVars,
     histVars
<1> QED
  BY <1>1, <1>2 DEF IInv

LEMMA StepInv == IInv /\ [Next]_vars => IInv'
<1> SUFFICES ASSUME IInv, [Next]_vars PROVE IInv'
  OBVIOUS
<1>1. CASE Main
  BY <1>1, ClockStepInv, CycleInv, NoCommandInv, MeasureOffInv, MeasureOnInv,
     ClearDoneInv, SetReqInv, ResetFinishedInv, ResetTimedOutInv DEF Main
<1>2. CASE Writer
  BY <1>2, BeginResetInv, DrainInv, EraseInv, EraseFailsInv, EraseUncommittedInv,
     ClearReqInv, SetDoneInv, NoResetInv, GetRowInv, WriteBatchInv, WriteFailsInv
     DEF Writer
<1> QED
  BY <1>1, <1>2, RestartInv, StutterInv DEF Next

(* The invariant of the handshake between the main loop and the writer.    *)
THEOREM RecorderInvariance == Spec => []IInv
BY InitInv, StepInv, PTL DEF Spec

(* The queue never holds more than QMax rows, the buffer never more than   *)
(* one row beyond its limit, and every variable keeps its type.            *)
THEOREM RecorderTypeCorrect == Spec => []TypeOK
<1>1. IInv => TypeOK
  BY DEF IInv
<1> QED
  BY <1>1, RecorderInvariance, PTL

(* Whatever fails, is retried, reset or restarted: rows reach the table in *)
(* the order they were measured, and none twice.                           *)
THEOREM RowsNeverReordered == Spec => []RowsInOrder
<1>1. IInv => RowsInOrder
  <2> SUFFICES ASSUME IInv PROVE Ascending(table \o buf \o logq)
    BY DEF RowsInOrder, Ascending
  <2>1. /\ table \o buf \in Seq(Rows) /\ Ascending(table \o buf)
        /\ ToSet(table \o buf) = ToSet(table) \cup ToSet(buf)
    BY ConcatRows DEF IInv, TypeOK, OrderInv
  <2>2. Precede(ToSet(table \o buf), ToSet(logq))
    BY <2>1 DEF IInv, OrderInv, Precede
  <2> QED
    BY <2>1, <2>2, ConcatRows DEF IInv, TypeOK, OrderInv
<1> QED
  BY <1>1, RecorderInvariance, PTL

(* As long as no wait has expired, a committed erasure leaves no row of the *)
(* run it ended, now or later: an erasure that was left uncommitted and is  *)
(* committed by a later batch included.                                     *)
THEOREM ResetSeparatesRuns == Spec => []AnsweredResetStartsNewRun
<1>1. IInv => AnsweredResetStartsNewRun
  <2> SUFFICES ASSUME IInv, late = 0, NEW i \in 1 .. Len(table)
               PROVE  table[i].run >= fence
    BY DEF AnsweredResetStartsNewRun, ResetStartsNewRun
  <2>1. table[i] \in ToSet(table)
    BY LenProperties DEF IInv, TypeOK, ToSet
  <2> QED
    BY <2>1 DEF IInv, FenceInv, NotBefore
<1> QED
  BY <1>1, RecorderInvariance, PTL

(* As long as no wait has expired and the buffer was never cut, a row       *)
(* queued after the last reset is in the queue, the buffer or the table.    *)
THEOREM LaterRowsSurvive == Spec => []LaterRowsKept
<1>1. IInv => LaterRowsKept
  BY DEF IInv, KeptInv, LaterRowsKept
<1> QED
  BY <1>1, RecorderInvariance, PTL
=============================================================================
