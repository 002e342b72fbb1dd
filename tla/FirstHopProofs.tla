---------------------------- MODULE FirstHopProofs ----------------------------
(***************************************************************************)
(* Theorems about FirstHop, for any sizes of the queue, the windows, the   *)
(* ring and the space of sequence numbers that FirstHopAssumption allows,  *)
(* and any number of probes, samples, reboots, restarts and interfaces.    *)
(*                                                                         *)
(* Every probe is in one place: waiting for its answer, in a batch, in the *)
(* queue, in the table, or dropped.  That an answer finds its own probe,   *)
(* although numbers wrap and start over, is arithmetic on the marks: the   *)
(* pairs of a probe and the number it was sent under that are still        *)
(* pending or on their way.                                                *)
(***************************************************************************)
EXTENDS FirstHop, FiniteSetTheorems, TLAPS

-----------------------------------------------------------------------------
(* The dish's history.                                                     *)

(* The samples the ring holds now. *)
Held == {[boot |-> boot, counter |-> c] : c \in Largest(current - Ring, 0) .. current - 1}

RingInv ==
    \A c \in Largest(current - Ring, 0) .. current - 1 :
        ring[c % Ring] = [boot |-> boot, counter |-> c]

(* What has been read of this boot is owed or was dropped, and nothing has *)
(* been read of a later one.                                               *)
LastInv ==
    /\ \A s \in Held : s.counter <= last[boot] => s \in owed \cup missed
    /\ last[boot] < current
    /\ \A b \in boot + 1 .. MaxBoots : last[b] = -1

DishRowsIn(q) == UNION {q[i].rows : i \in {j \in DOMAIN q : q[j].kind = "dish"}}

DishRowOf(s) == [boot |-> s.boot, counter |-> s.counter, sample |-> s]

TrueRow(r) ==
    r.sample # None /\ r.sample.counter = r.counter /\ r.boot \in {0, r.sample.boot}

DishInv ==
    /\ \A r \in dish_history \cup DishRowsIn(logq) : TrueRow(r)
    /\ \A s \in owed : DishRowOf(s) \in dish_history \cup DishRowsIn(logq)

-----------------------------------------------------------------------------
(* The hop prober.                                                         *)
Waiting == {s \in Seqs : pending[s] # None}

Awaited == {pending[s] : s \in Waiting}

Marks == {[probe |-> pending[s], seq |-> s] : s \in Waiting} \cup replies

Lateness == Largest(Window, Delay)

(* How long a probe and an answer last, and that a probe waits once. *)
PendingInv ==
    /\ \A s \in Waiting : /\ pending[s] <= sent
                          /\ sent - pending[s] <= Window
                          /\ pc = "send" => sent - pending[s] < Window
    /\ \A s, t \in Waiting : pending[s] = pending[t] => s = t
    /\ \A r \in replies : r.probe <= sent /\ sent - r.probe <= Delay
    /\ seq = (sent - opened) % SeqSpace

(* A mark of the present socket has the number that counts from its        *)
(* opening; those of the socket before it are in step with each other and  *)
(* have numbers that the new socket will not have used while they last.    *)
NumberInv ==
    ~ambiguous =>
        \A m \in Marks :
            /\ m.probe > opened => m.seq = (m.probe - opened) % SeqSpace
            /\ m.probe <= opened =>
                 /\ m.seq > Lateness - (opened - m.probe)
                 /\ \A n \in Marks : n.probe <= opened => m.seq - n.seq = m.probe - n.probe

Single(rows) == \A i, j \in DOMAIN rows : rows[i].probe = rows[j].probe => i = j

Right(rows) == \A i \in DOMAIN rows : rows[i].answer \in {None, rows[i].probe}

HopRowsAt(q, i) == IF q[i].kind = "hop" THEN q[i].rows ELSE <<>>

ProbesIn(q) == UNION {ProbesOf(HopRowsAt(q, i)) : i \in DOMAIN q}

Separate(q) ==
    /\ \A i \in DOMAIN q : Single(HopRowsAt(q, i))
    /\ \A i, j \in DOMAIN q : i # j =>
           ProbesOf(HopRowsAt(q, i)) \cap ProbesOf(HopRowsAt(q, j)) = {}

RightIn(q) == \A i \in DOMAIN q : Right(HopRowsAt(q, i))

(* No probe is in two places, nor twice in one. *)
PlaceInv ==
    /\ Single(hop_ping) /\ Single(batch) /\ Separate(logq)
    /\ ProbesOf(hop_ping) \cap ProbesIn(logq) = {}
    /\ ProbesOf(hop_ping) \cap ProbesOf(batch) = {}
    /\ ProbesIn(logq) \cap ProbesOf(batch) = {}
    /\ (ProbesOf(hop_ping) \cup ProbesIn(logq) \cup ProbesOf(batch))
           \cap (Awaited \cup unlogged) = {}
    /\ Awaited \cap unlogged = {}
    /\ ProbesOf(hop_ping) \cup ProbesIn(logq) \cup ProbesOf(batch) \cup unlogged
           \subseteq 1 .. sent

(* Unless a number was ambiguous, every probe is somewhere, and every      *)
(* answer is its own.                                                      *)
CoverInv ==
    ~ambiguous =>
        /\ 1 .. sent = ProbesOf(hop_ping) \cup ProbesIn(logq) \cup ProbesOf(batch)
                           \cup Awaited \cup unlogged
        /\ Right(hop_ping) /\ Right(batch) /\ RightIn(logq)

Inv ==
    /\ TypeOK /\ RingInv /\ LastInv /\ DishInv
    /\ PendingInv /\ NumberInv /\ PlaceInv /\ CoverInv

-----------------------------------------------------------------------------
(* Arithmetic of wrapping numbers.                                         *)
LEMMA Quotient ==
  ASSUME NEW S \in Nat \ {0}, NEW a \in Nat
  PROVE  \E q \in Nat, r \in 0 .. S - 1 : a = S * q + r /\ a % S = r
<1> DEFINE q == a \div S  r == a % S
<1>1. r \in 0 .. S - 1
  OBVIOUS
<1>2. q \in Int
  OBVIOUS
<1>3. a - S * q = r
  OBVIOUS
<1> HIDE DEF q, r
<1>4. a = S * q + r
  BY <1>1, <1>2, <1>3
<1>5. q >= 0
  BY <1>1, <1>2, <1>4
<1>6. a % S = r
  BY DEF r
<1> QED BY <1>1, <1>2, <1>4, <1>5, <1>6

LEMMA Remainder ==
  ASSUME NEW S \in Nat \ {0}, NEW a \in Int, NEW q \in Int, NEW r \in 0 .. S - 1, a = S * q + r
  PROVE  a % S = r
OBVIOUS

LEMMA WrapsApart ==
  ASSUME NEW S \in Nat \ {0}, NEW a \in Nat, NEW b \in Nat, a < b, b - a < S
  PROVE  a % S # b % S
<1>1. PICK p \in Nat, r \in 0 .. S - 1 : a = S * p + r /\ a % S = r
  BY Quotient
<1>2. PICK q \in Nat, t \in 0 .. S - 1 : b = S * q + t /\ b % S = t
  BY Quotient
<1> SUFFICES ASSUME r = t PROVE FALSE
  BY <1>1, <1>2
<1>3. S * q - S * p = b - a
  BY <1>1, <1>2
<1>4. CASE q > p
  <2>1. S * q >= S * p + S
    BY <1>4
  <2> QED BY <2>1, <1>3
<1>5. CASE q <= p
  <2>1. S * q <= S * p
    BY <1>5
  <2> QED BY <2>1, <1>3
<1> QED BY <1>4, <1>5

LEMMA CountsDown ==
  ASSUME NEW S \in Nat \ {0}, NEW a \in Nat, NEW k \in Nat, k <= a % S
  PROVE  (a - k) % S = (a % S) - k
<1>1. PICK q \in Nat, r \in 0 .. S - 1 : a = S * q + r /\ a % S = r
  BY Quotient
<1>2. a - k = S * q + (r - k) /\ r - k \in 0 .. S - 1
  BY <1>1
<1> QED BY <1>1, <1>2, Remainder

LEMMA CountsUp ==
  ASSUME NEW S \in Nat \ {0}, NEW a \in Nat
  PROVE  ((a % S) + 1) % S = (a + 1) % S
<1>1. PICK q \in Nat, r \in 0 .. S - 1 : a = S * q + r /\ a % S = r
  BY Quotient
<1>2. CASE r < S - 1
  <2>1. a + 1 = S * q + (r + 1) /\ r + 1 \in 0 .. S - 1 /\ r + 1 = S * 0 + (r + 1)
    BY <1>1, <1>2
  <2> QED BY <1>1, <2>1, Remainder
<1>3. CASE r = S - 1
  <2>1. a + 1 = S * (q + 1) + 0 /\ 0 \in 0 .. S - 1 /\ r + 1 = S * 1 + 0
    BY <1>1, <1>3
  <2> QED BY <1>1, <2>1, Remainder
<1> QED BY <1>2, <1>3

LEMMA SmallStays ==
  ASSUME NEW S \in Nat \ {0}, NEW a \in 0 .. S - 1
  PROVE  a % S = a
<1>1. a = S * 0 + a
  OBVIOUS
<1> QED BY <1>1, Remainder

-----------------------------------------------------------------------------
(* Sequences of rows.                                                      *)
LEMMA SequenceFacts ==
  ASSUME NEW R, NEW q \in Seq(R)
  PROVE  /\ Len(q) \in Nat /\ DOMAIN q = 1 .. Len(q)
         /\ \A i \in 1 .. Len(q) : q[i] \in R
OBVIOUS

LEMMA FunctionIsSequence ==
  ASSUME NEW R, NEW n \in Nat, NEW f \in [1 .. n -> R]
  PROVE  f \in Seq(R) /\ Len(f) = n /\ DOMAIN f = 1 .. n
OBVIOUS

LEMMA ConcatFacts ==
  ASSUME NEW R, NEW a \in Seq(R), NEW b \in Seq(R)
  PROVE  /\ DOMAIN (a \o b) = 1 .. Len(a) + Len(b)
         /\ \A i \in 1 .. Len(a) + Len(b) :
              (a \o b)[i] = IF i <= Len(a) THEN a[i] ELSE b[i - Len(a)]
OBVIOUS

LEMMA EmptyFacts == ProbesOf(<<>>) = {} /\ Single(<<>>) /\ Right(<<>>)
BY DEF ProbesOf, Single, Right

LEMMA IntervalFacts ==
  ASSUME NEW n \in Nat
  PROVE  IsFiniteSet(1 .. n) /\ Cardinality(1 .. n) = n
BY FS_Interval

(* A set in order: each of its members once.                               *)
LEMMA ListingFacts ==
  ASSUME NEW S, IsFiniteSet(S), NEW q \in SetToSeqs(S)
  PROVE  \E n \in Nat :
           /\ q \in [1 .. n -> S]
           /\ \A i, j \in 1 .. n : q[i] = q[j] => i = j
           /\ \A r \in S : \E i \in 1 .. n : q[i] = r
<1> DEFINE n == Cardinality(S)
<1>1. n \in Nat
  BY FS_CardinalityType
<1>2. q \in [1 .. n -> S] /\ \A i, j \in 1 .. n : i # j => q[i] # q[j]
  BY DEF SetToSeqs
<1> HIDE DEF n
<1>3. IsFiniteSet(1 .. n) /\ Cardinality(1 .. n) = n
  BY <1>1, IntervalFacts
<1>4. q \in Injection(1 .. n, S)
  BY <1>2 DEF Injection, IsInjective
<1>5. q \in Surjection(1 .. n, S)
  BY <1>3, <1>4, FS_Injection DEF n
<1>6. \A r \in S : \E i \in 1 .. n : q[i] = r
  BY <1>5 DEF Surjection
<1> QED BY <1>1, <1>2, <1>6

(* The lost ones have a row each, without an answer.                       *)
LEMMA LostFacts ==
  ASSUME NEW ss \in SUBSET Waiting, pending \in [Seqs -> Probes \cup {None}],
         SeqSpace \in Nat, \A s, t \in Waiting : pending[s] = pending[t] => s = t,
         NEW lost \in LostRows(ss)
  PROVE  /\ lost \in Seq(HopRows) /\ ProbesOf(lost) = {pending[s] : s \in ss}
         /\ Single(lost) /\ Right(lost)
<1>1. IsFiniteSet(ss)
  <2>1. IsFiniteSet(Seqs) /\ ss \in SUBSET Seqs
    BY FS_Interval DEF Seqs, Waiting
  <2> QED BY <2>1, FS_Subset
<1>2. PICK at \in SetToSeqs(ss) :
        lost = [i \in DOMAIN at |-> Row(pending[at[i]], at[i], None)]
  BY DEF LostRows, InOrder
<1>3. PICK n \in Nat : /\ at \in [1 .. n -> ss]
                       /\ \A i, j \in 1 .. n : at[i] = at[j] => i = j
                       /\ \A s \in ss : \E i \in 1 .. n : at[i] = s
  BY <1>1, ListingFacts
<1>0. PICK row : row = [s \in ss |-> Row(pending[s], s, None)]
  OBVIOUS
<1>4. row \in [ss -> HopRows]
  BY <1>0 DEF Waiting, HopRows, Row
<1>5. /\ \A s \in ss : row[s].probe = pending[s] /\ row[s].answer = None
      /\ \A i \in 1 .. n : row[at[i]] = Row(pending[at[i]], at[i], None)
  BY <1>0, <1>3 DEF Row
<1>6. lost \in [1 .. n -> HopRows] /\ \A i \in 1 .. n : lost[i] = row[at[i]]
  BY <1>2, <1>3, <1>4, <1>5
<1>7. \A s, t \in ss : row[s].probe = row[t].probe => s = t
  BY <1>5
<1>8. \A s \in ss : row[s].answer \in {None, row[s].probe}
  BY <1>5
<1>9. {row[s].probe : s \in ss} = {pending[s] : s \in ss}
  BY <1>5
<1>10. /\ lost \in Seq(HopRows)
       /\ ProbesOf(lost) = {row[s].probe : s \in ss}
       /\ (\A s, t \in ss : row[s].probe = row[t].probe => s = t) => Single(lost)
       /\ (\A s \in ss : row[s].answer \in {None, row[s].probe}) => Right(lost)
  <2>1. lost \in Seq(HopRows) /\ DOMAIN lost = 1 .. n
    BY <1>6, FunctionIsSequence
  <2>2. \A i \in 1 .. n : lost[i] = row[at[i]] /\ at[i] \in ss
    BY <1>3, <1>6
  <2>3. ProbesOf(lost) = {row[s].probe : s \in ss}
    BY <1>3, <2>1, <2>2 DEF ProbesOf
  <2>4. (\A s, t \in ss : row[s].probe = row[t].probe => s = t) => Single(lost)
    BY <1>3, <2>1, <2>2 DEF Single
  <2>5. (\A s \in ss : row[s].answer \in {None, row[s].probe}) => Right(lost)
    BY <2>1, <2>2 DEF Right
  <2> QED BY <2>1, <2>3, <2>4, <2>5
<1> QED BY <1>7, <1>8, <1>9, <1>10

(* Sorting keeps what is in a batch.                                       *)
LEMMA SortedFacts ==
  ASSUME NEW rows \in Seq(HopRows), NEW q \in Sorted(rows)
  PROVE  /\ q \in Seq(HopRows) /\ ProbesOf(q) = ProbesOf(rows)
         /\ Single(rows) => Single(q)
         /\ Right(rows) => Right(q)
<1>1. /\ Len(rows) \in Nat /\ DOMAIN rows = 1 .. Len(rows)
      /\ \A i \in DOMAIN rows : rows[i] \in HopRows
  BY SequenceFacts
<1>2. IsFiniteSet(DOMAIN rows)
  BY <1>1, IntervalFacts
<1>3. PICK at \in SetToSeqs(DOMAIN rows) : q = [i \in DOMAIN at |-> rows[at[i]]]
  BY DEF Sorted, InOrder
<1> DEFINE S == DOMAIN rows
<1> HIDE DEF S
<1>11. IsFiniteSet(S) /\ at \in SetToSeqs(S)
  BY <1>2, <1>3 DEF S
<1>4. PICK n \in Nat : /\ at \in [1 .. n -> S]
                       /\ \A i, j \in 1 .. n : at[i] = at[j] => i = j
                       /\ \A s \in S : \E i \in 1 .. n : at[i] = s
  BY <1>11, ListingFacts, SMTT(60)
<1>0. PICK row : row = [s \in S |-> rows[s]]
  OBVIOUS
<1>5. row \in [S -> HopRows] /\ \A s \in S : row[s] = rows[s]
  BY <1>0, <1>1 DEF S
<1>6. q \in [1 .. n -> HopRows] /\ \A i \in 1 .. n : q[i] = row[at[i]]
  BY <1>3, <1>4, <1>5
<1>7. ProbesOf(rows) = {row[s].probe : s \in S}
  BY <1>5 DEF S, ProbesOf
<1>8. Single(rows) => \A s, t \in S : row[s].probe = row[t].probe => s = t
  BY <1>5 DEF S, Single
<1>9. Right(rows) => \A s \in S : row[s].answer \in {None, row[s].probe}
  BY <1>5 DEF S, Right
<1>10. /\ q \in Seq(HopRows)
       /\ ProbesOf(q) = {row[s].probe : s \in S}
       /\ (\A s, t \in S : row[s].probe = row[t].probe => s = t) => Single(q)
       /\ (\A s \in S : row[s].answer \in {None, row[s].probe}) => Right(q)
  <2>1. q \in Seq(HopRows) /\ DOMAIN q = 1 .. n
    BY <1>6, FunctionIsSequence
  <2>2. \A i \in 1 .. n : q[i] = row[at[i]] /\ at[i] \in S
    BY <1>4, <1>6
  <2>3. ProbesOf(q) = {row[s].probe : s \in S}
    BY <1>4, <2>1, <2>2 DEF ProbesOf
  <2>4. (\A s, t \in S : row[s].probe = row[t].probe => s = t) => Single(q)
    BY <1>4, <2>1, <2>2 DEF Single
  <2>5. (\A s \in S : row[s].answer \in {None, row[s].probe}) => Right(q)
    BY <2>1, <2>2 DEF Right
  <2> QED BY <2>1, <2>3, <2>4, <2>5
<1> QED BY <1>7, <1>8, <1>9, <1>10

LEMMA JoinedFacts ==
  ASSUME NEW s \in Seq(HopRows), NEW u \in Seq(HopRows)
  PROVE  /\ s \o u \in Seq(HopRows) /\ ProbesOf(s \o u) = ProbesOf(s) \cup ProbesOf(u)
         /\ Single(s) /\ Single(u) /\ ProbesOf(s) \cap ProbesOf(u) = {} => Single(s \o u)
         /\ Right(s) /\ Right(u) => Right(s \o u)
<1> DEFINE w == s \o u
<1>1. /\ w \in Seq(HopRows) /\ Len(s) \in Nat /\ Len(u) \in Nat
      /\ DOMAIN s = 1 .. Len(s) /\ DOMAIN u = 1 .. Len(u)
      /\ DOMAIN w = 1 .. Len(s) + Len(u)
      /\ \A i \in 1 .. Len(s) : w[i] = s[i]
      /\ \A i \in 1 .. Len(u) : w[Len(s) + i] = u[i]
  OBVIOUS
<1> HIDE DEF w
<1>2. \A i \in DOMAIN w :
        \/ i \in DOMAIN s /\ w[i] = s[i]
        \/ i - Len(s) \in DOMAIN u /\ w[i] = u[i - Len(s)]
  <2> SUFFICES ASSUME NEW i \in DOMAIN w, i \notin DOMAIN s
               PROVE  i - Len(s) \in DOMAIN u /\ w[i] = u[i - Len(s)]
    BY <1>1
  <2>1. i - Len(s) \in DOMAIN u /\ i = Len(s) + (i - Len(s))
    BY <1>1
  <2> QED BY <1>1, <2>1
<1>3. \A i \in DOMAIN u : Len(s) + i \in DOMAIN w /\ w[Len(s) + i] = u[i]
  BY <1>1
<1>4. \A i \in DOMAIN s : i \in DOMAIN w /\ w[i] = s[i]
  BY <1>1
<1>5. ProbesOf(w) = ProbesOf(s) \cup ProbesOf(u)
  BY <1>2, <1>3, <1>4 DEF ProbesOf
<1>6. Right(s) /\ Right(u) => Right(w)
  BY <1>2 DEF Right
<1>7. ASSUME Single(s), Single(u), ProbesOf(s) \cap ProbesOf(u) = {}
      PROVE  Single(w)
  <2> SUFFICES ASSUME NEW i \in DOMAIN w, NEW j \in DOMAIN w, w[i].probe = w[j].probe
               PROVE  i = j
    BY DEF Single
  <2>1. \A k \in DOMAIN s, l \in DOMAIN u : s[k].probe # u[l].probe
    BY <1>7 DEF ProbesOf
  <2>2. CASE i \in DOMAIN s /\ j \in DOMAIN s
    BY <1>4, <1>7, <2>2 DEF Single
  <2>3. CASE i \notin DOMAIN s /\ j \notin DOMAIN s
    <3>1. i - Len(s) = j - Len(s)
      BY <1>2, <1>7, <2>3 DEF Single
    <3> QED BY <1>1, <3>1
  <2>4. CASE i \in DOMAIN s /\ j \notin DOMAIN s
    BY <1>2, <1>4, <2>1, <2>4
  <2>5. CASE i \notin DOMAIN s /\ j \in DOMAIN s
    BY <1>2, <1>4, <2>1, <2>5
  <2> QED BY <2>2, <2>3, <2>4, <2>5
<1> QED BY <1>1, <1>5, <1>6, <1>7 DEF w

LEMMA OneRow ==
  ASSUME NEW r \in HopRows
  PROVE  <<r>> \in Seq(HopRows) /\ ProbesOf(<<r>>) = {r.probe} /\ Single(<<r>>)
         /\ (r.answer \in {None, r.probe} => Right(<<r>>))
<1>1. <<r>> \in Seq(HopRows) /\ DOMAIN <<r>> = {1} /\ <<r>>[1] = r
  OBVIOUS
<1> QED BY <1>1 DEF ProbesOf, Single, Right

-----------------------------------------------------------------------------
(* The queue.                                                              *)
LEMMA ElementFacts ==
  ASSUME NEW e \in Elements
  PROVE  /\ e.kind = "hop" => e.rows \in Seq(HopRows)
         /\ e.kind = "dish" => e.rows \subseteq DishRows
BY DEF Elements

LEMMA AppendFacts ==
  ASSUME NEW q \in Seq(Elements), NEW e \in Elements
  PROVE  /\ Append(q, e) \in Seq(Elements) /\ Len(Append(q, e)) = Len(q) + 1
         /\ DishRowsIn(Append(q, e)) =
              DishRowsIn(q) \cup (IF e.kind = "dish" THEN e.rows ELSE {})
         /\ \A i \in DOMAIN Append(q, e) :
              HopRowsAt(Append(q, e), i) =
                IF i \in DOMAIN q THEN HopRowsAt(q, i)
                ELSE IF e.kind = "hop" THEN e.rows ELSE <<>>
         /\ DOMAIN Append(q, e) = DOMAIN q \cup {Len(q) + 1}
         /\ Len(q) + 1 \notin DOMAIN q
<1> DEFINE u == Append(q, e)
<1>1. /\ Len(q) \in Nat /\ DOMAIN q = 1 .. Len(q)
      /\ u \in Seq(Elements) /\ Len(u) = Len(q) + 1 /\ DOMAIN u = 1 .. Len(q) + 1
      /\ \A i \in 1 .. Len(q) : u[i] = q[i]
      /\ u[Len(q) + 1] = e
  OBVIOUS
<1> HIDE DEF u
<1>2. DOMAIN u = DOMAIN q \cup {Len(q) + 1} /\ Len(q) + 1 \notin DOMAIN q
  BY <1>1
<1>3. DishRowsIn(u) = DishRowsIn(q) \cup (IF e.kind = "dish" THEN e.rows ELSE {})
  BY <1>1, <1>2 DEF DishRowsIn
<1>4. \A i \in DOMAIN u :
        HopRowsAt(u, i) = IF i \in DOMAIN q THEN HopRowsAt(q, i)
                          ELSE IF e.kind = "hop" THEN e.rows ELSE <<>>
  BY <1>1, <1>2 DEF HopRowsAt
<1> QED BY <1>1, <1>2, <1>3, <1>4 DEF u

LEMMA TailFacts ==
  ASSUME NEW q \in Seq(Elements), q # <<>>
  PROVE  /\ Tail(q) \in Seq(Elements) /\ Len(Tail(q)) = Len(q) - 1
         /\ Head(q) \in Elements /\ Head(q) = q[1] /\ 1 \in DOMAIN q
         /\ DOMAIN Tail(q) = 1 .. Len(q) - 1
         /\ \A i \in DOMAIN Tail(q) : Tail(q)[i] = q[i + 1] /\ i + 1 \in DOMAIN q
         /\ \A i \in DOMAIN q : i = 1 \/ (i - 1 \in DOMAIN Tail(q) /\ q[i] = Tail(q)[i - 1])
<1> DEFINE u == Tail(q)
<1>1. /\ Len(q) \in Nat /\ DOMAIN q = 1 .. Len(q) /\ Len(q) > 0
      /\ u \in Seq(Elements) /\ Len(u) = Len(q) - 1 /\ DOMAIN u = 1 .. Len(q) - 1
      /\ \A i \in 1 .. Len(q) - 1 : u[i] = q[i + 1]
      /\ Head(q) \in Elements /\ Head(q) = q[1]
  OBVIOUS
<1> HIDE DEF u
<1>2. \A i \in DOMAIN q : i = 1 \/ (i - 1 \in DOMAIN u /\ q[i] = u[i - 1])
  <2> SUFFICES ASSUME NEW i \in DOMAIN q, i # 1
               PROVE  i - 1 \in DOMAIN u /\ q[i] = u[i - 1]
    OBVIOUS
  <2>1. i - 1 \in DOMAIN u /\ i = (i - 1) + 1
    BY <1>1
  <2> QED BY <1>1, <2>1
<1> QED BY <1>1, <1>2 DEF u

LEMMA TailRows ==
  ASSUME NEW q \in Seq(Elements), q # <<>>
  PROVE  /\ DishRowsIn(q) = DishRowsIn(Tail(q)) \cup
                            (IF Head(q).kind = "dish" THEN Head(q).rows ELSE {})
         /\ \A i \in DOMAIN Tail(q) : HopRowsAt(Tail(q), i) = HopRowsAt(q, i + 1)
<1> DEFINE u == Tail(q)  e == Head(q)
<1>1. /\ e = q[1] /\ 1 \in DOMAIN q
      /\ \A i \in DOMAIN u : u[i] = q[i + 1] /\ i + 1 \in DOMAIN q
      /\ \A i \in DOMAIN q : i = 1 \/ (i - 1 \in DOMAIN u /\ q[i] = u[i - 1])
  BY TailFacts
<1> HIDE DEF u, e
<1>2. DishRowsIn(q) = DishRowsIn(u) \cup (IF e.kind = "dish" THEN e.rows ELSE {})
  <2>1. \A i \in DOMAIN u : u[i].kind = "dish" => u[i].rows \subseteq DishRowsIn(q)
    BY <1>1 DEF DishRowsIn
  <2>2. DishRowsIn(u) \subseteq DishRowsIn(q)
    BY <2>1 DEF DishRowsIn
  <2>3. \A i \in DOMAIN q : q[i].kind = "dish" =>
          q[i].rows \subseteq DishRowsIn(u) \cup (IF e.kind = "dish" THEN e.rows ELSE {})
    BY <1>1 DEF DishRowsIn
  <2>4. DishRowsIn(q) \subseteq DishRowsIn(u) \cup (IF e.kind = "dish" THEN e.rows ELSE {})
    BY <2>3 DEF DishRowsIn
  <2>5. e.kind = "dish" => e.rows \subseteq DishRowsIn(q)
    BY <1>1 DEF DishRowsIn
  <2> QED BY <2>2, <2>4, <2>5
<1>3. \A i \in DOMAIN u : HopRowsAt(u, i) = HopRowsAt(q, i + 1)
  BY <1>1 DEF HopRowsAt
<1> QED BY <1>2, <1>3 DEF u, e

(* Everybody puts into the queue in one way.                               *)
LEMMA PutFacts ==
  ASSUME NEW kind, NEW rows, logq \in Seq(Elements), Len(logq) <= QMax, QMax \in Nat,
         [kind |-> kind, rows |-> rows] \in Elements, Put(kind, rows)
  PROVE  /\ logq' \in Seq(Elements) /\ Len(logq') <= QMax
         /\ HasRoom => logq' = Append(logq, [kind |-> kind, rows |-> rows])
         /\ ~HasRoom => logq' = logq
BY DEF Put, HasRoom

LEMMA Constants ==
  /\ QMax \in Nat /\ SeqSpace \in Nat \ {0} /\ Ring \in Nat \ {0} /\ MaxBoots \in Nat \ {0}
  /\ Window \in Nat /\ Delay \in Nat /\ CheckEvery \in Nat
  /\ Lateness \in Nat /\ Window <= Lateness /\ Delay <= Lateness
  /\ Lateness < CheckEvery /\ CheckEvery < SeqSpace
  /\ MaxProbes \in Nat /\ MaxSamples \in Nat /\ MaxChanges \in Nat /\ MaxRestarts \in Nat
BY FirstHopAssumption DEF Lateness, Largest

(* The batch with the lost ones added, and what becomes of it.             *)
LEMMA SweepFacts ==
  ASSUME TypeOK, PendingInv, NEW young \in 0 .. Window, NEW flush \in BOOLEAN,
         Sweep(young, flush)
  PROVE  \E full, rows \in Seq(HopRows) :
           /\ ProbesOf(full) = ProbesOf(batch) \cup {pending[s] : s \in Expired(young)}
           /\ Single(batch) /\ ProbesOf(batch) \cap Awaited = {} => Single(full)
           /\ Right(batch) => Right(full)
           /\ ProbesOf(rows) = ProbesOf(full)
           /\ Single(full) => Single(rows)
           /\ Right(full) => Right(rows)
           /\ \/ logq' = logq /\ batch' = full /\ unlogged' = unlogged
              \/ /\ logq' = Append(logq, [kind |-> "hop", rows |-> rows])
                 /\ Len(logq) < QMax /\ batch' = <<>> /\ unlogged' = unlogged
              \/ logq' = logq /\ batch' = <<>> /\ unlogged' = unlogged \cup ProbesOf(full)
<1>1. PICK lost \in LostRows(Expired(young)) :
        LET full == batch \o lost
        IN  IF flush /\ full # <<>>
            THEN /\ \E rows \in Sorted(full) : Put("hop", rows)
                 /\ batch' = Cleared(full)
                 /\ unlogged' = IF HasRoom THEN unlogged ELSE unlogged \cup ProbesOf(full)
            ELSE batch' = full /\ UNCHANGED <<logq, unlogged>>
  BY DEF Sweep
<1>2. Expired(young) \in SUBSET Waiting
  BY DEF Expired, Waiting
<1>3. /\ lost \in Seq(HopRows) /\ ProbesOf(lost) = {pending[s] : s \in Expired(young)}
      /\ Single(lost) /\ Right(lost)
  BY <1>2, Constants, LostFacts DEF TypeOK, PendingInv
<1>4. PICK full : full = batch \o lost
  OBVIOUS
<1>5. /\ full \in Seq(HopRows) /\ ProbesOf(full) = ProbesOf(batch) \cup ProbesOf(lost)
      /\ Single(batch) /\ Single(lost) /\ ProbesOf(batch) \cap ProbesOf(lost) = {}
           => Single(full)
      /\ Right(batch) /\ Right(lost) => Right(full)
  BY <1>3, <1>4, JoinedFacts DEF TypeOK
<1>6. ProbesOf(lost) \subseteq Awaited
  BY <1>2, <1>3 DEF Awaited
<1>7. CASE flush /\ full # <<>>
  <2>1. /\ batch' = <<>>
        /\ unlogged' = IF HasRoom THEN unlogged ELSE unlogged \cup ProbesOf(full)
    BY <1>1, <1>4, <1>7 DEF Cleared
  <2>2. PICK rows \in Sorted(full) : Put("hop", rows)
    BY <1>1, <1>4, <1>7
  <2>3. /\ rows \in Seq(HopRows) /\ ProbesOf(rows) = ProbesOf(full)
        /\ Single(full) => Single(rows)
        /\ Right(full) => Right(rows)
    BY <1>5, SortedFacts
  <2>4. [kind |-> "hop", rows |-> rows] \in Elements
    BY <2>3 DEF Elements
  <2>5. /\ HasRoom => logq' = Append(logq, [kind |-> "hop", rows |-> rows])
        /\ ~HasRoom => logq' = logq
    BY <2>2 DEF Put
  <2>6. HasRoom => Len(logq) < QMax
    BY DEF HasRoom
  <2> QED BY <1>3, <1>5, <1>6, <2>1, <2>3, <2>5, <2>6
<1>8. CASE ~(flush /\ full # <<>>)
  <2>1. batch' = full /\ UNCHANGED <<logq, unlogged>>
    BY <1>1, <1>4, <1>8
  <2> QED BY <1>3, <1>5, <1>6, <2>1
<1> QED BY <1>7, <1>8

LEMMA SweepTypes ==
  ASSUME TypeOK, PendingInv, NEW young \in 0 .. Window, NEW flush \in BOOLEAN,
         Sweep(young, flush)
  PROVE  /\ logq' \in Seq(Elements) /\ Len(logq') <= QMax
         /\ DishRowsIn(logq') = DishRowsIn(logq)
         /\ batch' \in Seq(HopRows)
         /\ unlogged' \subseteq Probes
<1>1. PICK full, rows \in Seq(HopRows) :
           \/ logq' = logq /\ batch' = full /\ unlogged' = unlogged
           \/ /\ logq' = Append(logq, [kind |-> "hop", rows |-> rows])
              /\ Len(logq) < QMax /\ batch' = <<>> /\ unlogged' = unlogged
           \/ logq' = logq /\ batch' = <<>> /\ unlogged' = unlogged \cup ProbesOf(full)
  BY SweepFacts
<1> DEFINE e == [kind |-> "hop", rows |-> rows]
<1>2. e \in Elements /\ e.kind = "hop"
  BY DEF Elements
<1> HIDE DEF e
<1>3. ProbesOf(full) \subseteq Probes
  <2>1. \A i \in DOMAIN full : full[i] \in HopRows
    BY SequenceFacts
  <2>2. \A r \in HopRows : r.probe \in Probes
    BY DEF HopRows
  <2> QED BY <2>1, <2>2 DEF ProbesOf
<1>4. /\ Append(logq, e) \in Seq(Elements) /\ Len(Append(logq, e)) = Len(logq) + 1
      /\ DishRowsIn(Append(logq, e)) = DishRowsIn(logq)
  BY <1>2, AppendFacts DEF TypeOK
<1>5. /\ logq' \in Seq(Elements) /\ Len(logq') <= QMax
      /\ DishRowsIn(logq') = DishRowsIn(logq)
  <2>1. logq \in Seq(Elements) /\ Len(logq) \in Nat /\ Len(logq) <= QMax
    BY DEF TypeOK
  <2>2. CASE logq' = Append(logq, e) /\ Len(logq) < QMax
    BY <1>4, <2>1, <2>2, Constants
  <2>3. CASE logq' = logq
    BY <2>1, <2>3
  <2> QED BY <1>1, <2>2, <2>3 DEF e
<1>6. batch' \in {full, <<>>} /\ unlogged' \in {unlogged, unlogged \cup ProbesOf(full)}
  BY <1>1
<1>7. batch' \in Seq(HopRows)
  <2>1. <<>> \in Seq(HopRows)
    OBVIOUS
  <2> QED BY <1>6, <2>1
<1>8. unlogged' \subseteq Probes
  BY <1>3, <1>6 DEF TypeOK
<1> QED BY <1>5, <1>7, <1>8

(* What the hop prober and the other threads leave alone.                  *)
LEMMA HopFrame ==
  ASSUME TypeOK, PendingInv,
         \/ PutOther \/ Send \/ ChangeInterface
         \/ \E young \in 0 .. Window, flush \in BOOLEAN : Sweep(young, flush)
         \/ \E r \in replies : Receive(r)
  PROVE  /\ UNCHANGED <<dishVars, dbVars, owed, missed>>
         /\ logq' \in Seq(Elements) /\ Len(logq') <= QMax
         /\ DishRowsIn(logq') = DishRowsIn(logq)
<1>1. CASE PutOther
  <2> DEFINE e == [kind |-> "other", rows |-> {}]
  <2>1. e \in Elements /\ e.kind = "other"
    BY DEF Elements
  <2> HIDE DEF e
  <2>2. logq' = Append(logq, e) /\ Len(logq) < QMax
    BY <1>1 DEF PutOther, Put, HasRoom, e
  <2>3. /\ Append(logq, e) \in Seq(Elements) /\ Len(Append(logq, e)) = Len(logq) + 1
        /\ DishRowsIn(Append(logq, e)) = DishRowsIn(logq)
    BY <2>1, AppendFacts DEF TypeOK
  <2>4. Len(logq) \in Nat
    BY DEF TypeOK
  <2>5. UNCHANGED <<dishVars, dbVars, owed, missed>>
    BY <1>1 DEF PutOther, pastVars
  <2> QED BY <2>2, <2>3, <2>4, <2>5, Constants
<1>2. CASE Send \/ ChangeInterface \/ \E r \in replies : Receive(r)
  <2>1. UNCHANGED <<logq, dishVars, dbVars, owed, missed>>
    BY <1>2 DEF Send, ChangeInterface, Receive, pastVars
  <2> QED BY <2>1 DEF TypeOK
<1>3. CASE \E young \in 0 .. Window, flush \in BOOLEAN : Sweep(young, flush)
  <2>1. UNCHANGED <<dishVars, dbVars, owed, missed>>
    BY <1>3 DEF Sweep
  <2> QED BY <1>3, <2>1, SweepTypes
<1> QED BY <1>1, <1>2, <1>3

-----------------------------------------------------------------------------
(* The dish's history, action by action.                                   *)
LEMMA DishTypes ==
  ASSUME TypeOK
  PROVE  /\ boot \in 1 .. MaxBoots /\ current \in Nat /\ boot \in Nat
         /\ last \in [0 .. MaxBoots -> -1 .. MaxSamples] /\ last[boot] \in Int
         /\ ring \in [0 .. Ring - 1 -> Samples \cup {None}]
         /\ Largest(current - Ring, 0) \in Nat
         /\ current - Ring <= Largest(current - Ring, 0)
<1>1. /\ boot \in 1 .. MaxBoots /\ current \in Nat /\ boot \in Nat
      /\ last \in [0 .. MaxBoots -> -1 .. MaxSamples]
      /\ ring \in [0 .. Ring - 1 -> Samples \cup {None}]
  BY Constants DEF TypeOK
<1>2. last[boot] \in Int
  BY <1>1, Constants
<1>3. Largest(current - Ring, 0) \in Nat /\ current - Ring <= Largest(current - Ring, 0)
  BY <1>1, Constants DEF Largest
<1> QED BY <1>1, <1>2, <1>3

LEMMA InitDish == Init => RingInv /\ LastInv /\ DishInv
<1> SUFFICES ASSUME Init PROVE RingInv /\ LastInv /\ DishInv
  OBVIOUS
<1>1. /\ boot = 1 /\ current = 0 /\ last = NothingStored /\ logq = <<>>
      /\ dish_history = {} /\ owed = {}
  BY DEF Init
<1>2. Largest(current - Ring, 0) = 0
  BY <1>1, Constants DEF Largest
<1>3. RingInv
  BY <1>1, <1>2 DEF RingInv
<1>4. Held = {}
  BY <1>1, <1>2 DEF Held
<1>5. \A b \in 0 .. MaxBoots : last[b] = -1
  BY <1>1 DEF NothingStored
<1>6. LastInv
  BY <1>1, <1>4, <1>5, Constants DEF LastInv
<1>7. DishRowsIn(logq) = {}
  BY <1>1 DEF DishRowsIn
<1> QED BY <1>1, <1>3, <1>6, <1>7 DEF DishInv

(* A row that is ignored as a duplicate is the one that is there.          *)
LEMMA WriteDish ==
  ASSUME TypeOK, DishInv, Write
  PROVE  DishInv'
<1> DEFINE e == Head(logq)
<1>1. /\ logq # <<>> /\ logq' = Tail(logq) /\ owed' = owed
      /\ dish_history' = IF e.kind = "dish" THEN dish_history \cup OrIgnore(e.rows)
                         ELSE dish_history
  BY DEF Write, pastVars
<1>2. /\ e \in Elements
      /\ DishRowsIn(logq) =
           DishRowsIn(logq') \cup (IF e.kind = "dish" THEN e.rows ELSE {})
  BY <1>1, TailFacts, TailRows DEF TypeOK
<1> HIDE DEF e
<1>3. dish_history' \cup DishRowsIn(logq') \subseteq dish_history \cup DishRowsIn(logq)
  BY <1>1, <1>2 DEF OrIgnore
<1>4. \A s \in owed : DishRowOf(s) \in dish_history' \cup DishRowsIn(logq')
  <2> SUFFICES ASSUME NEW s \in owed,
                      DishRowOf(s) \notin dish_history, DishRowOf(s) \notin DishRowsIn(logq')
               PROVE  DishRowOf(s) \in dish_history'
    BY <1>1
  <2> DEFINE r == DishRowOf(s)
  <2>1. e.kind = "dish" /\ r \in e.rows
    BY <1>2 DEF DishInv
  <2>2. SUFFICES ASSUME NEW t \in dish_history, t.boot = r.boot, t.counter = r.counter
                 PROVE  t = r
    BY <1>1, <2>1 DEF OrIgnore
  <2>3. s \in Samples /\ s.boot # 0
    BY DEF TypeOK, Samples
  <2>4. r.boot = s.boot /\ r.counter = s.counter
    BY DEF DishRowOf
  <2>5. t \in DishRows /\ TrueRow(t)
    BY DEF TypeOK, DishInv
  <2>6. /\ t.sample \in Samples
        /\ t.sample.boot = s.boot /\ t.sample.counter = s.counter
    BY <2>2, <2>3, <2>4, <2>5 DEF TrueRow, DishRows
  <2>7. t.sample = s
    BY <2>3, <2>6 DEF Samples
  <2>8. t = [boot |-> t.boot, counter |-> t.counter, sample |-> t.sample]
    BY <2>5 DEF DishRows
  <2> QED BY <2>2, <2>4, <2>7, <2>8 DEF DishRowOf
<1> QED BY <1>1, <1>3, <1>4 DEF DishInv

LEMMA SampleDish ==
  ASSUME TypeOK, RingInv, LastInv, Sample
  PROVE  RingInv' /\ LastInv'
<1>1. /\ ring' = [ring EXCEPT ![current % Ring] = [boot |-> boot, counter |-> current]]
      /\ current' = current + 1
      /\ UNCHANGED <<boot, last, owed, missed>>
  BY DEF Sample, pastVars
<1>2. /\ boot \in Nat /\ current \in Nat
      /\ last[boot] \in Int /\ ring \in [0 .. Ring - 1 -> Samples \cup {None}]
  BY DishTypes
<1>3. /\ Largest(current' - Ring, 0) \in Nat
      /\ Largest(current' - Ring, 0) >= Largest(current - Ring, 0)
      /\ Largest(current' - Ring, 0) > current - Ring
      /\ Largest(current - Ring, 0) \in Nat
  BY <1>1, <1>2, Constants DEF Largest
<1>4. RingInv'
  <2> SUFFICES ASSUME NEW c \in Largest(current' - Ring, 0) .. current' - 1
               PROVE  ring'[c % Ring] = [boot |-> boot, counter |-> c]
    BY <1>1 DEF RingInv
  <2>1. c \in Nat /\ c % Ring \in 0 .. Ring - 1 /\ current % Ring \in 0 .. Ring - 1
    BY <1>2, <1>3, Constants
  <2>2. CASE c = current
    BY <1>1, <1>2, <2>1, <2>2
  <2>3. CASE c # current
    <3>1. c \in Largest(current - Ring, 0) .. current - 1 /\ c < current /\ current - c < Ring
      BY <1>1, <1>2, <1>3, <2>3, Constants
    <3>2. c % Ring # current % Ring
      BY <1>2, <2>1, <3>1, Constants, WrapsApart
    <3> QED BY <1>1, <1>2, <2>1, <3>1, <3>2 DEF RingInv
  <2> QED BY <2>2, <2>3
<1>5. LastInv'
  <2>1. \A s \in Held' : s.counter <= last[boot] => s \in Held
    <3> SUFFICES ASSUME NEW s \in Held', s.counter <= last[boot]
                 PROVE  s \in Held
      OBVIOUS
    <3>1. PICK c \in Largest(current' - Ring, 0) .. current' - 1 :
            s = [boot |-> boot, counter |-> c]
      BY <1>1 DEF Held
    <3>2. s.counter = c
      BY <3>1
    <3>3. c \in Largest(current - Ring, 0) .. current - 1
      BY <1>1, <1>2, <1>3, <3>2 DEF LastInv
    <3> QED BY <3>1, <3>3 DEF Held
  <2> QED BY <1>1, <1>2, <2>1 DEF LastInv
<1> QED BY <1>4, <1>5

LEMMA RebootDish ==
  ASSUME TypeOK, LastInv, DishReboots
  PROVE  RingInv' /\ LastInv'
<1>1. /\ boot' = boot + 1 /\ current' = 0 /\ boot < MaxBoots
      /\ UNCHANGED <<ring, last, owed, missed>>
  BY DEF DishReboots, pastVars
<1>2. boot \in Nat
  BY DishTypes
<1>3. Largest(current' - Ring, 0) = 0
  BY <1>1, Constants DEF Largest
<1>4. RingInv'
  BY <1>1, <1>3 DEF RingInv
<1>5. Held' = {}
  BY <1>1, <1>3 DEF Held
<1>6. last'[boot'] = -1
  BY <1>1, <1>2, Constants DEF LastInv
<1>7. \A b \in boot' + 1 .. MaxBoots : last'[b] = -1
  BY <1>1, <1>2, Constants DEF LastInv
<1> QED BY <1>1, <1>4, <1>5, <1>6, <1>7 DEF LastInv

LEMMA RestartDish ==
  ASSUME TypeOK, RingInv, DishInv, Restart
  PROVE  RingInv' /\ LastInv' /\ DishInv'
<1>1. /\ logq' = <<>> /\ last' = NothingStored /\ owed' = {}
      /\ UNCHANGED <<dish_history, boot, current, ring>>
  BY DEF Restart, dbVars
<1>2. RingInv'
  BY <1>1 DEF RingInv
<1>3. \A b \in 0 .. MaxBoots : last'[b] = -1
  BY <1>1 DEF NothingStored
<1>4. LastInv'
  <2>1. last'[boot'] = -1
    BY <1>1, <1>3, DishTypes
  <2>2. -1 < current'
    BY <1>1, DishTypes
  <2>3. \A s \in Held' : ~(s.counter <= -1)
    BY <1>1, DishTypes DEF Held
  <2>4. \A b \in boot' + 1 .. MaxBoots : last'[b] = -1
    BY <1>1, <1>3, DishTypes, Constants
  <2> QED BY <2>1, <2>2, <2>3, <2>4 DEF LastInv
<1>5. DishRowsIn(logq') = {}
  BY <1>1 DEF DishRowsIn
<1>6. DishInv'
  BY <1>1, <1>5 DEF DishInv
<1> QED BY <1>2, <1>4, <1>6

(* A reading takes what has come since the last one, as far as the ring    *)
(* still has it.                                                           *)
LEMMA ReadRows ==
  ASSUME TypeOK, RingInv, NEW key \in {0, boot}, NEW rows,
         rows = {[boot |-> key, counter |-> c, sample |-> ring[c % Ring]] :
                     c \in Start(key) .. current - 1}
  PROVE  /\ rows \subseteq DishRows /\ \A r \in rows : TrueRow(r)
         /\ \A s \in Held : s.counter > last[key] /\ key = boot => DishRowOf(s) \in rows
         /\ \A s \in Held : s.counter <= last[key] \/ s.counter >= Start(key)
         /\ rows = {} => \A s \in Held : s.counter <= last[key]
<1>1. /\ boot \in 1 .. MaxBoots /\ current \in Nat /\ boot \in Nat
      /\ Largest(current - Ring, 0) \in Nat
      /\ last[key] \in Int /\ current <= MaxSamples
  <2>1. boot \in 1 .. MaxBoots /\ key \in 0 .. MaxBoots
    BY Constants DEF TypeOK
  <2>2. last[key] \in Int
    BY <2>1, DishTypes
  <2>3. current <= MaxSamples
    BY Constants DEF TypeOK
  <2> QED BY <2>2, <2>3, DishTypes
<1>2. /\ Start(key) \in Nat /\ Start(key) >= Largest(current - Ring, 0)
      /\ Start(key) > last[key]
      /\ Start(key) \in {last[key] + 1, Largest(current - Ring, 0)}
  BY <1>1 DEF Start, Largest
<1> DEFINE from == Largest(current - Ring, 0)
<1> HIDE DEF from
<1>3. \A c \in Start(key) .. current - 1 :
        c \in from .. current - 1 /\ ring[c % Ring] = [boot |-> boot, counter |-> c]
  BY <1>1, <1>2 DEF RingInv, from
<1>4. \A r \in rows : \E c \in Start(key) .. current - 1 :
        r = [boot |-> key, counter |-> c, sample |-> [boot |-> boot, counter |-> c]]
  <2> SUFFICES ASSUME NEW r \in rows
               PROVE  \E c \in Start(key) .. current - 1 :
                        r = [boot |-> key, counter |-> c,
                             sample |-> [boot |-> boot, counter |-> c]]
    OBVIOUS
  <2>1. PICK c \in Start(key) .. current - 1 :
               r = [boot |-> key, counter |-> c, sample |-> ring[c % Ring]]
    OBVIOUS
  <2>2. ring[c % Ring] = [boot |-> boot, counter |-> c]
    BY <1>3
  <2> QED BY <2>1, <2>2
<1>5. \A c \in 0 .. current - 1 :
        /\ [boot |-> boot, counter |-> c] \in Samples
        /\ [boot |-> boot, counter |-> c] # None
        /\ [boot |-> key, counter |-> c, sample |-> [boot |-> boot, counter |-> c]] \in DishRows
  <2> SUFFICES ASSUME NEW c \in 0 .. current - 1
               PROVE  /\ [boot |-> boot, counter |-> c] \in Samples
                      /\ [boot |-> boot, counter |-> c] # None
                      /\ [boot |-> key, counter |-> c,
                          sample |-> [boot |-> boot, counter |-> c]] \in DishRows
    OBVIOUS
  <2>1. c \in 0 .. MaxSamples /\ c \in Nat
    BY <1>1, Constants
  <2>2. [boot |-> boot, counter |-> c] \in Samples
    BY <1>1, <2>1 DEF Samples
  <2>3. [boot |-> boot, counter |-> c] \in [boot : Nat, counter : Nat]
    BY <1>1, <2>1
  <2>4. [boot |-> boot, counter |-> c] # None
    BY <2>3, FirstHopAssumption
  <2>5. key \in 0 .. MaxBoots
    BY <1>1, Constants
  <2> QED BY <2>1, <2>2, <2>4, <2>5 DEF DishRows
<1>6. Start(key) .. current - 1 \subseteq 0 .. current - 1
  BY <1>1, <1>2
<1>7. rows \subseteq DishRows
  BY <1>4, <1>5, <1>6
<1>8. \A r \in rows : TrueRow(r)
  BY <1>4, <1>5, <1>6 DEF TrueRow
<1>9. \A s \in Held : \E c \in from .. current - 1 :
        s = [boot |-> boot, counter |-> c] /\ s.boot = boot /\ s.counter = c
  BY DEF Held, from
<1>10. \A c \in from .. current - 1 : c <= last[key] \/ c \in Start(key) .. current - 1
  BY <1>1, <1>2 DEF from
<1>11. \A s \in Held : s.counter <= last[key] \/ s.counter >= Start(key)
  BY <1>1, <1>2, <1>9, <1>10
<1>12. \A s \in Held : s.counter > last[key] /\ key = boot => DishRowOf(s) \in rows
  <2> SUFFICES ASSUME NEW s \in Held, s.counter > last[key], key = boot
               PROVE  DishRowOf(s) \in rows
    OBVIOUS
  <2>1. PICK c \in from .. current - 1 :
          s = [boot |-> boot, counter |-> c] /\ s.boot = boot /\ s.counter = c
    BY <1>9
  <2>2. c \in Start(key) .. current - 1
    BY <1>1, <1>10, <2>1 DEF from
  <2>3. DishRowOf(s) = [boot |-> key, counter |-> c, sample |-> ring[c % Ring]]
    BY <1>3, <2>1, <2>2 DEF DishRowOf
  <2> QED BY <2>2, <2>3
<1>13. rows = {} => \A s \in Held : s.counter <= last[key]
  BY <1>9, <1>10
<1> QED BY <1>7, <1>8, <1>11, <1>12, <1>13

LEMMA PollDish ==
  ASSUME TypeOK, RingInv, LastInv, DishInv, NEW key \in {0, boot}, PollHistory(key)
  PROVE  /\ RingInv' /\ LastInv' /\ DishInv'
         /\ logq' \in Seq(Elements) /\ Len(logq') <= QMax
         /\ last' \in [0 .. MaxBoots -> -1 .. MaxSamples]
         /\ owed' \subseteq Samples /\ missed' \subseteq Samples
<1>1. PICK rows : rows = {[boot |-> key, counter |-> c, sample |-> ring[c % Ring]] :
                              c \in Start(key) .. current - 1}
  OBVIOUS
<1>2. /\ IF rows = {} THEN UNCHANGED <<logq, last>>
         ELSE Put("dish", rows) /\ last' = [last EXCEPT ![key] = current - 1]
      /\ IF key = 0 THEN UNCHANGED <<owed, missed>>
         ELSE /\ missed' = IF HasRoom THEN missed
                           ELSE missed \cup {s \in Held : s.counter >= Start(key)}
              /\ owed' = owed \cup (Held \ missed')
      /\ UNCHANGED <<dish_history, boot, current, ring>>
  BY <1>1 DEF PollHistory, Held, dbVars
<1>3. /\ rows \subseteq DishRows /\ \A r \in rows : TrueRow(r)
      /\ \A s \in Held : s.counter > last[key] /\ key = boot => DishRowOf(s) \in rows
      /\ \A s \in Held : s.counter <= last[key] \/ s.counter >= Start(key)
      /\ rows = {} => \A s \in Held : s.counter <= last[key]
  BY <1>1, ReadRows
<1>4. /\ boot \in 1 .. MaxBoots /\ current \in Nat /\ boot \in Nat /\ current <= MaxSamples
      /\ last \in [0 .. MaxBoots -> -1 .. MaxSamples] /\ last[boot] \in Int
      /\ Largest(current - Ring, 0) \in Nat /\ key \in 0 .. MaxBoots
      /\ last[key] \in Int
  <2>1. current <= MaxSamples
    BY Constants DEF TypeOK
  <2>2. key \in 0 .. MaxBoots
    BY DishTypes, Constants
  <2>3. last[key] \in Int
    BY <2>2, DishTypes
  <2> QED BY <2>1, <2>2, <2>3, DishTypes
<1>5. RingInv'
  BY <1>2 DEF RingInv
<1>6. Held' = Held
  BY <1>2 DEF Held
<1>7. \A s \in Held : s \in Samples /\ s.boot = boot /\ s.counter \in Nat /\ s.counter < current
  BY <1>4, Constants DEF Held, Samples
<1>8. /\ logq' \in Seq(Elements) /\ Len(logq') <= QMax
      /\ DishRowsIn(logq) \subseteq DishRowsIn(logq')
      /\ DishRowsIn(logq') \subseteq DishRowsIn(logq) \cup rows
      /\ HasRoom => rows \subseteq DishRowsIn(logq')
  <2> DEFINE e == [kind |-> "dish", rows |-> rows]
  <2>1. e \in Elements /\ e.kind = "dish" /\ e.rows = rows
    BY <1>3 DEF Elements
  <2>2. logq \in Seq(Elements) /\ Len(logq) <= QMax
    BY DEF TypeOK
  <2>3. CASE rows = {}
    <3>1. logq' = logq
      BY <1>2, <2>3
    <3> QED BY <2>2, <2>3, <3>1
  <2>4. CASE rows # {}
    <3>1. Put("dish", rows)
      BY <1>2, <2>4
    <3>2. /\ logq' \in Seq(Elements) /\ Len(logq') <= QMax
          /\ HasRoom => logq' = Append(logq, e)
          /\ ~HasRoom => logq' = logq
      BY <2>1, <2>2, <3>1, PutFacts, Constants
    <3> HIDE DEF e
    <3>3. DishRowsIn(Append(logq, e)) = DishRowsIn(logq) \cup rows
      BY <2>1, <2>2, AppendFacts
    <3> QED BY <3>2, <3>3
  <2> QED BY <2>3, <2>4
<1>9. \A s \in Held : s.counter <= last[key] /\ key = boot => s \in owed \cup missed
  BY DEF LastInv
<1>10. /\ last' \in [0 .. MaxBoots -> -1 .. MaxSamples]
       /\ key = 0 => last'[boot] = last[boot]
       /\ key = boot => last'[boot] < current
       /\ \A b \in boot + 1 .. MaxBoots : last'[b] = last[b]
  <2>1. last' = last \/ last' = [last EXCEPT ![key] = current - 1]
    BY <1>2
  <2>2. current - 1 \in -1 .. MaxSamples
    BY <1>4, Constants
  <2>3. last[boot] < current
    BY DEF LastInv
  <2>4. CASE last' = last
    BY <1>4, <2>3, <2>4
  <2>5. CASE last' = [last EXCEPT ![key] = current - 1]
    <3>1. last' \in [0 .. MaxBoots -> -1 .. MaxSamples]
      BY <1>4, <2>2, <2>5
    <3>2. \A b \in 0 .. MaxBoots : last'[b] = IF b = key THEN current - 1 ELSE last[b]
      BY <1>4, <2>5
    <3>3. boot \in 0 .. MaxBoots /\ \A b \in boot + 1 .. MaxBoots : b \in 0 .. MaxBoots /\ b # key
      BY <1>4, Constants
    <3> QED BY <1>4, <3>1, <3>2, <3>3
  <2> QED BY <2>1, <2>4, <2>5
<1>11. CASE key = 0
  <2>1. owed' = owed /\ missed' = missed
    BY <1>2, <1>11
  <2>2. LastInv'
    BY <1>2, <1>4, <1>6, <1>10, <1>11, <2>1 DEF LastInv
  <2>3. DishInv'
    BY <1>2, <1>3, <1>8, <2>1 DEF DishInv
  <2>4. owed' \subseteq Samples /\ missed' \subseteq Samples
    BY <2>1 DEF TypeOK
  <2> QED BY <1>5, <1>8, <1>10, <2>2, <2>3, <2>4
<1>12. CASE key = boot
  <2>1. /\ missed' = IF HasRoom THEN missed
                     ELSE missed \cup {s \in Held : s.counter >= Start(key)}
        /\ owed' = owed \cup (Held \ missed')
    BY <1>2, <1>4, <1>12
  <2>2. \A s \in Held : s \in owed' \cup missed'
    BY <2>1
  <2>3. LastInv'
    BY <1>2, <1>4, <1>6, <1>10, <1>12, <2>2 DEF LastInv
  <2>4. \A s \in Held \ missed' : s \in owed \/ DishRowOf(s) \in DishRowsIn(logq')
    <3> SUFFICES ASSUME NEW s \in Held, s \notin missed', s \notin owed
                 PROVE  DishRowOf(s) \in DishRowsIn(logq')
      OBVIOUS
    <3>1. s \notin missed
      BY <2>1
    <3>2. ~(s.counter <= last[key])
      BY <1>9, <1>12, <3>1
    <3>3. s.counter >= Start(key) /\ s.counter > last[key]
      BY <1>3, <1>4, <1>7, <3>2
    <3>4. HasRoom
      BY <2>1, <3>3
    <3> QED BY <1>3, <1>8, <1>12, <3>3, <3>4
  <2>5. DishInv'
    BY <1>2, <1>3, <1>8, <2>1, <2>4 DEF DishInv
  <2>6. owed' \subseteq Samples /\ missed' \subseteq Samples
    BY <1>7, <2>1 DEF TypeOK
  <2> QED BY <1>5, <1>8, <1>10, <2>3, <2>5, <2>6
<1> QED BY <1>11, <1>12

LEMMA DishInductive ==
  ASSUME TypeOK, PendingInv, RingInv, LastInv, DishInv, [Next]_vars
  PROVE  RingInv' /\ LastInv' /\ DishInv'
<1> DEFINE Goal == RingInv' /\ LastInv' /\ DishInv'
<1>1. ASSUME UNCHANGED <<dishVars, dbVars, owed, missed>>,
             DishRowsIn(logq') = DishRowsIn(logq)
      PROVE  Goal
  <2>1. UNCHANGED <<boot, current, ring, last, dish_history, owed, missed>>
    BY <1>1 DEF dishVars, dbVars
  <2>2. Held' = Held
    BY <2>1 DEF Held
  <2> QED BY <1>1, <2>1, <2>2 DEF RingInv, LastInv, DishInv
<1>2. CASE Write
  <2>1. UNCHANGED <<boot, current, ring, last, owed, missed>>
    BY <1>2 DEF Write, dishVars, pastVars
  <2>2. Held' = Held
    BY <2>1 DEF Held
  <2>3. RingInv' /\ LastInv'
    BY <2>1, <2>2 DEF RingInv, LastInv
  <2> QED BY <1>2, <2>3, WriteDish
<1>3. CASE \/ PutOther \/ Send \/ ChangeInterface
           \/ \E young \in 0 .. Window, flush \in BOOLEAN : Sweep(young, flush)
           \/ \E r \in replies : Receive(r)
  <2>1. UNCHANGED <<dishVars, dbVars, owed, missed>> /\ DishRowsIn(logq') = DishRowsIn(logq)
    BY <1>3, HopFrame
  <2> QED BY <1>1, <2>1
<1>4. CASE Sample \/ DishReboots
  <2>1. RingInv' /\ LastInv'
    BY <1>4, SampleDish, RebootDish
  <2>2. UNCHANGED <<logq, dish_history, owed>>
    BY <1>4 DEF Sample, DishReboots, dbVars, pastVars
  <2> QED BY <2>1, <2>2 DEF DishInv
<1>5. CASE \E key \in {0, boot} : PollHistory(key)
  BY <1>5, PollDish
<1>6. CASE Restart
  BY <1>6, RestartDish
<1>7. CASE UNCHANGED vars
  BY <1>1, <1>7 DEF vars, dishVars, dbVars, pastVars
<1> QED BY <1>2, <1>3, <1>4, <1>5, <1>6, <1>7 DEF Next

-----------------------------------------------------------------------------
(* Numbers and marks.                                                      *)
LEMMA HopTypes ==
  ASSUME TypeOK
  PROVE  /\ sent \in Nat /\ sent \in 0 .. MaxProbes /\ opened \in 0 .. sent /\ opened \in Nat
         /\ opened <= sent /\ seq \in Nat /\ seq \in Seqs /\ Seqs \subseteq Nat
         /\ pending \in [Seqs -> Probes \cup {None}]
         /\ Waiting \subseteq Seqs
         /\ \A s \in Waiting : pending[s] \in Nat /\ pending[s] \in Probes
         /\ \A r \in replies : r.probe \in Nat /\ r.seq \in Seqs
         /\ None \notin Nat
<1>1. /\ sent \in Nat /\ sent \in 0 .. MaxProbes /\ opened \in 0 .. sent /\ opened \in Nat
      /\ opened <= sent
  BY Constants DEF TypeOK
<1>2. seq \in Nat /\ seq \in Seqs /\ Seqs \subseteq Nat
  BY Constants DEF TypeOK, Seqs
<1>3. pending \in [Seqs -> Probes \cup {None}] /\ Probes \subseteq Nat
  BY Constants DEF TypeOK, Probes
<1>4. \A r \in replies : r.probe \in Nat /\ r.seq \in Seqs
  BY <1>3 DEF TypeOK
<1>5. None \notin Nat
  BY FirstHopAssumption
<1>6. Waiting \subseteq Seqs /\ \A s \in Waiting : pending[s] \in Nat /\ pending[s] \in Probes
  BY <1>3 DEF Waiting
<1> QED BY <1>1, <1>2, <1>3, <1>4, <1>5, <1>6

LEMMA SeqSpaceFacts ==
  ASSUME NEW s, s \in Seqs
  PROVE  s \in Nat /\ s < SeqSpace
BY Constants DEF Seqs

LEMMA MarkFacts ==
  ASSUME TypeOK, PendingInv, NEW m \in Marks
  PROVE  /\ m.probe \in Nat /\ m.seq \in Nat /\ m.seq < SeqSpace
         /\ m.probe <= sent /\ sent - m.probe <= Lateness
<1>1. CASE m \in replies
  <2>1. m.probe \in Nat /\ m.seq \in Seqs /\ m.probe <= sent /\ sent - m.probe <= Delay
    BY <1>1, HopTypes DEF PendingInv
  <2> QED BY <2>1, HopTypes, SeqSpaceFacts, Constants
<1>2. CASE \E s \in Waiting : m = [probe |-> pending[s], seq |-> s]
  <2>1. PICK s \in Waiting : m = [probe |-> pending[s], seq |-> s]
    BY <1>2
  <2>2. /\ m.probe = pending[s] /\ m.seq = s /\ s \in Seqs /\ pending[s] \in Nat
        /\ pending[s] <= sent /\ sent - pending[s] <= Window
    BY <2>1, HopTypes DEF PendingInv
  <2> QED BY <2>2, HopTypes, SeqSpaceFacts, Constants
<1> QED BY <1>1, <1>2 DEF Marks

(* While a mark of the socket before lasts, the present one has not sent   *)
(* more probes than the mark's number tells.                               *)
LEMMA OldMark ==
  ASSUME TypeOK, PendingInv, NumberInv, ~ambiguous, NEW m \in Marks, m.probe <= opened
  PROVE  /\ sent - opened <= Lateness
         /\ m.seq > sent - opened
         /\ sent - m.probe < Lateness => m.seq > sent + 1 - opened
<1>1. m.seq > Lateness - (opened - m.probe)
  BY DEF NumberInv
<1> QED BY <1>1, MarkFacts, HopTypes, Constants

LEMMA SmallNumber ==
  ASSUME NEW k \in Nat, k <= Lateness + 1
  PROVE  k % SeqSpace = k
<1>1. k \in 0 .. SeqSpace - 1
  BY Constants
<1> QED BY <1>1, SmallStays, Constants

LEMMA NewMark ==
  ASSUME TypeOK, PendingInv, NumberInv, ~ambiguous, NEW m \in Marks, m.probe > opened,
         sent - opened <= Lateness
  PROVE  m.seq <= sent - opened
<1>1. m.seq = (m.probe - opened) % SeqSpace
  BY DEF NumberInv
<1>2. m.probe - opened \in Nat /\ m.probe - opened <= sent - opened
  BY MarkFacts, HopTypes
<1>3. (m.probe - opened) % SeqSpace = m.probe - opened
  BY <1>2, SmallNumber, HopTypes, Constants
<1> QED BY <1>1, <1>2, <1>3

(* A number stands for one probe.                                          *)
LEMMA NumberNamesProbe ==
  ASSUME TypeOK, PendingInv, NumberInv, ~ambiguous,
         NEW m \in Marks, NEW n \in Marks, m.seq = n.seq
  PROVE  m.probe = n.probe
<1>1. /\ m.probe \in Nat /\ n.probe \in Nat /\ m.seq \in Nat /\ n.seq \in Nat
      /\ m.probe <= sent /\ sent - m.probe <= Lateness
      /\ n.probe <= sent /\ sent - n.probe <= Lateness
  BY MarkFacts
<1>2. CASE m.probe <= opened /\ n.probe <= opened
  <2>1. m.seq - n.seq = m.probe - n.probe
    BY <1>2 DEF NumberInv
  <2> QED BY <1>1, <2>1
<1>3. CASE m.probe <= opened /\ n.probe > opened
  <2>1. sent - opened <= Lateness /\ m.seq > sent - opened
    BY <1>3, OldMark
  <2>2. n.seq <= sent - opened
    BY <1>3, <2>1, NewMark
  <2> QED BY <1>1, <2>1, <2>2, HopTypes
<1>4. CASE m.probe > opened /\ n.probe <= opened
  <2>1. sent - opened <= Lateness /\ n.seq > sent - opened
    BY <1>4, OldMark
  <2>2. m.seq <= sent - opened
    BY <1>4, <2>1, NewMark
  <2> QED BY <1>1, <2>1, <2>2, HopTypes
<1>5. CASE m.probe > opened /\ n.probe > opened
  <2>1. (m.probe - opened) % SeqSpace = (n.probe - opened) % SeqSpace
    BY <1>5 DEF NumberInv
  <2>2. /\ m.probe - opened \in Nat /\ n.probe - opened \in Nat
        /\ (m.probe - opened) - (n.probe - opened) < SeqSpace
        /\ (n.probe - opened) - (m.probe - opened) < SeqSpace
    BY <1>1, <1>5, HopTypes, Constants
  <2>3. ~(m.probe - opened < n.probe - opened)
    BY <2>1, <2>2, Constants, WrapsApart
  <2>4. ~(n.probe - opened < m.probe - opened)
    BY <2>1, <2>2, Constants, WrapsApart
  <2> QED BY <1>1, <2>3, <2>4, HopTypes
<1> QED BY <1>1, <1>2, <1>3, <1>4, <1>5, HopTypes

(* The next probe finds its number free.                                   *)
LEMMA NextNumberFree ==
  ASSUME TypeOK, PendingInv, NumberInv, ~ambiguous, pc = "send"
  PROVE  (seq + 1) % SeqSpace \notin Waiting
<1> SUFFICES ASSUME NEW s \in Waiting, (seq + 1) % SeqSpace = s PROVE FALSE
  OBVIOUS
<1>1. PICK m : m = [probe |-> pending[s], seq |-> s]
  OBVIOUS
<1>2. m \in Marks /\ m.probe = pending[s] /\ m.seq = s
  BY <1>1 DEF Marks
<1>3. /\ m.probe \in Nat /\ m.seq \in Nat /\ m.seq < SeqSpace
      /\ m.probe <= sent /\ sent - m.probe < Lateness
  <2>1. sent - pending[s] < Window
    BY DEF PendingInv
  <2> QED BY <1>2, <2>1, MarkFacts, HopTypes, Constants
<1>4. s = (sent + 1 - opened) % SeqSpace
  <2>1. sent - opened \in Nat /\ sent - opened + 1 = sent + 1 - opened
    BY HopTypes
  <2>2. (((sent - opened) % SeqSpace) + 1) % SeqSpace = (sent - opened + 1) % SeqSpace
    BY <2>1, CountsUp, Constants
  <2> QED BY <2>1, <2>2 DEF PendingInv
<1>5. CASE m.probe <= opened
  <2>1. sent - opened <= Lateness /\ s > sent + 1 - opened
    BY <1>2, <1>3, <1>5, OldMark
  <2>2. (sent + 1 - opened) % SeqSpace = sent + 1 - opened
    <3>1. sent + 1 - opened \in Nat /\ sent + 1 - opened <= Lateness + 1
      BY <2>1, HopTypes, Constants
    <3> QED BY <3>1, SmallNumber
  <2> QED BY <1>4, <2>1, <2>2, HopTypes
<1>6. CASE m.probe > opened
  <2>1. s = (m.probe - opened) % SeqSpace
    BY <1>2, <1>6 DEF NumberInv
  <2>2. /\ m.probe - opened \in Nat /\ sent + 1 - opened \in Nat
        /\ m.probe - opened < sent + 1 - opened
        /\ (sent + 1 - opened) - (m.probe - opened) < SeqSpace
    BY <1>3, <1>6, HopTypes, Constants
  <2> QED BY <1>4, <2>1, <2>2, Constants, WrapsApart
<1> QED BY <1>3, <1>5, <1>6, HopTypes

LEMMA InitMarks == Init => PendingInv /\ NumberInv
<1> SUFFICES ASSUME Init PROVE PendingInv /\ NumberInv
  OBVIOUS
<1>1. Waiting = {} /\ replies = {}
  BY DEF Init, NothingPending, Waiting
<1>2. seq = (sent - opened) % SeqSpace
  BY SmallNumber, Constants DEF Init
<1>3. Marks = {}
  BY <1>1 DEF Marks
<1> QED BY <1>1, <1>2, <1>3 DEF PendingInv, NumberInv

LEMMA SendFacts ==
  ASSUME TypeOK, PendingInv, Send
  PROVE  /\ sent' = sent + 1 /\ seq' = (seq + 1) % SeqSpace
         /\ seq' \in Seqs /\ sent' \in Probes
         /\ seq' = (sent' - opened') % SeqSpace
         /\ Waiting' = Waiting \cup {seq'}
         /\ pending' \in [Seqs -> Probes \cup {None}]
         /\ pending'[seq'] = sent'
         /\ \A s \in Seqs : s # seq' => pending'[s] = pending[s]
<1>1. /\ sent' = sent + 1 /\ seq' = (seq + 1) % SeqSpace /\ sent < MaxProbes
      /\ pending' = [pending EXCEPT ![seq'] = sent'] /\ opened' = opened
  BY DEF Send
<1>2. seq' \in Seqs
  BY <1>1, HopTypes, Constants DEF Seqs
<1>3. sent' \in Probes /\ sent' \in Nat
  BY <1>1, HopTypes, Constants DEF Probes
<1>4. /\ pending' \in [Seqs -> Probes \cup {None}] /\ pending'[seq'] = sent'
      /\ \A s \in Seqs : s # seq' => pending'[s] = pending[s]
  BY <1>1, <1>2, <1>3, HopTypes
<1>5. Waiting' = Waiting \cup {seq'}
  BY <1>2, <1>3, <1>4, HopTypes DEF Waiting
<1>6. seq' = (sent' - opened') % SeqSpace
  <2>1. sent - opened \in Nat /\ sent - opened + 1 = sent' - opened'
    BY <1>1, HopTypes
  <2>2. (((sent - opened) % SeqSpace) + 1) % SeqSpace = (sent - opened + 1) % SeqSpace
    BY <2>1, CountsUp, Constants
  <2> QED BY <1>1, <2>1, <2>2 DEF PendingInv
<1> QED BY <1>1, <1>2, <1>3, <1>4, <1>5, <1>6

LEMMA SendMarks ==
  ASSUME TypeOK, PendingInv, NumberInv, Send
  PROVE  PendingInv' /\ NumberInv'
<1>1. /\ sent' = sent + 1 /\ seq' \in Seqs /\ sent' \in Probes
      /\ seq' = (sent' - opened') % SeqSpace
      /\ Waiting' = Waiting \cup {seq'}
      /\ pending'[seq'] = sent'
      /\ \A s \in Seqs : s # seq' => pending'[s] = pending[s]
  BY SendFacts
<1>2. /\ pc = "send" /\ pc' = "sweep" /\ opened' = opened /\ ambiguous' = ambiguous
      /\ \A r \in replies' : \/ r \in replies /\ sent' - r.probe <= Delay
                             \/ r = [probe |-> sent', seq |-> seq']
  BY DEF Send
<1>3. \A s \in Waiting' : s = seq' \/ (s # seq' /\ s \in Waiting /\ pending'[s] = pending[s])
  BY <1>1, HopTypes
<1>4. \A s \in Waiting' : pending'[s] <= sent' /\ sent' - pending'[s] <= Window
  <2> SUFFICES ASSUME NEW s \in Waiting'
               PROVE  pending'[s] <= sent' /\ sent' - pending'[s] <= Window
    OBVIOUS
  <2>1. CASE s = seq'
    BY <1>1, <2>1, HopTypes, Constants
  <2>2. CASE s \in Waiting /\ pending'[s] = pending[s]
    <3>1. pending[s] \in Nat /\ pending[s] <= sent /\ sent - pending[s] < Window
      BY <1>2, <2>2, HopTypes DEF PendingInv
    <3> QED BY <1>1, <2>2, <3>1, HopTypes, Constants
  <2> QED BY <1>3, <2>1, <2>2
<1>5. \A s, t \in Waiting' : pending'[s] = pending'[t] => s = t
  <2>1. \A s \in Waiting : pending[s] # sent'
    BY <1>1, HopTypes DEF PendingInv
  <2> QED BY <1>1, <1>3, <2>1 DEF PendingInv
<1>6. \A r \in replies' : r.probe <= sent' /\ sent' - r.probe <= Delay
  <2> SUFFICES ASSUME NEW r \in replies'
               PROVE  r.probe <= sent' /\ sent' - r.probe <= Delay
    OBVIOUS
  <2>1. CASE r \in replies /\ sent' - r.probe <= Delay
    BY <1>1, <2>1, HopTypes DEF PendingInv
  <2>2. CASE r = [probe |-> sent', seq |-> seq']
    BY <1>1, <2>2, HopTypes, Constants
  <2> QED BY <1>2, <2>1, <2>2
<1>7. PendingInv'
  BY <1>1, <1>2, <1>4, <1>5, <1>6 DEF PendingInv
<1> DEFINE m0 == [probe |-> sent', seq |-> seq']
<1>8. \A m \in Marks' : m \in Marks \/ m = m0
  <2> SUFFICES ASSUME NEW m \in Marks' PROVE m \in Marks \/ m = m0
    OBVIOUS
  <2>1. CASE m \in replies'
    BY <1>2, <2>1 DEF Marks
  <2>2. CASE \E s \in Waiting' : m = [probe |-> pending'[s], seq |-> s]
    BY <1>1, <1>3, <2>2 DEF Marks
  <2> QED BY <2>1, <2>2 DEF Marks
<1>9. m0.probe > opened /\ m0.seq = (m0.probe - opened) % SeqSpace
  BY <1>1, <1>2, HopTypes
<1> HIDE DEF m0
<1>10. opened \in Nat /\ m0.probe \in Int
  BY <1>1, HopTypes DEF m0
<1>11. NumberInv'
  <2> SUFFICES ASSUME ~ambiguous, NEW m \in Marks'
               PROVE  /\ m.probe > opened => m.seq = (m.probe - opened) % SeqSpace
                      /\ m.probe <= opened =>
                           /\ m.seq > Lateness - (opened - m.probe)
                           /\ \A n \in Marks' : n.probe <= opened =>
                                m.seq - n.seq = m.probe - n.probe
    BY <1>2 DEF NumberInv
  <2>1. CASE m = m0
    BY <1>9, <1>10, <2>1
  <2>2. CASE m \in Marks
    <3>1. \A n \in Marks' : n.probe <= opened => n \in Marks
      BY <1>8, <1>9, <1>10
    <3> QED BY <2>2, <3>1 DEF NumberInv
  <2> QED BY <1>8, <2>1, <2>2
<1> QED BY <1>7, <1>11

LEMMA FewerMarks ==
  ASSUME PendingInv, NumberInv,
         UNCHANGED <<sent, opened, seq, ambiguous>>,
         Waiting' \subseteq Waiting, \A s \in Waiting' : pending'[s] = pending[s],
         replies' \subseteq replies,
         pc' = "send" => pc = "send" \/ \A s \in Waiting' : sent - pending[s] < Window
  PROVE  PendingInv' /\ NumberInv'
<1>1. \A s \in Waiting' : s \in Waiting /\ pending'[s] = pending[s]
  OBVIOUS
<1>2. \A s \in Waiting' : /\ pending'[s] <= sent' /\ sent' - pending'[s] <= Window
                          /\ pc' = "send" => sent' - pending'[s] < Window
  BY <1>1 DEF PendingInv
<1>3. \A s, t \in Waiting' : pending'[s] = pending'[t] => s = t
  BY <1>1 DEF PendingInv
<1>4. PendingInv'
  BY <1>2, <1>3 DEF PendingInv
<1>5. Marks' \subseteq Marks
  BY <1>1 DEF Marks
<1>6. NumberInv'
  BY <1>5 DEF NumberInv
<1> QED BY <1>4, <1>6

LEMMA SweepPending ==
  ASSUME TypeOK, PendingInv, NEW young \in 0 .. Window, NEW flush \in BOOLEAN,
         Sweep(young, flush)
  PROVE  /\ Waiting' = Waiting \ Expired(young)
         /\ \A s \in Waiting' : pending'[s] = pending[s] /\ sent - pending[s] < Window
         /\ pending' \in [Seqs -> Probes \cup {None}]
         /\ UNCHANGED <<sent, opened, seq, ambiguous, replies>>
<1>1. /\ pending' = [s \in Seqs |-> IF s \in Expired(young) THEN None ELSE pending[s]]
      /\ UNCHANGED <<sent, opened, seq, ambiguous, replies>>
  BY DEF Sweep
<1>2. Waiting' = Waiting \ Expired(young)
  BY <1>1, HopTypes DEF Waiting
<1>3. \A s \in Waiting' : s \in Waiting /\ s \in Seqs /\ s \notin Expired(young)
  BY <1>2, HopTypes
<1>4. \A s \in Waiting' : pending'[s] = pending[s]
  BY <1>1, <1>3
<1>5. \A s \in Waiting' : sent - pending[s] < Window
  <2> SUFFICES ASSUME NEW s \in Waiting' PROVE sent - pending[s] < Window
    OBVIOUS
  <2>1. pending[s] # None /\ pending[s] \in Nat
    BY <1>3, HopTypes
  <2>2. ~(pending[s] <= sent - young)
    BY <1>3, <2>1 DEF Expired
  <2> QED BY <2>1, <2>2, HopTypes, Constants
<1>6. pending' \in [Seqs -> Probes \cup {None}]
  BY <1>1, HopTypes
<1> QED BY <1>1, <1>2, <1>4, <1>5, <1>6

LEMMA ReceivePending ==
  ASSUME TypeOK, NEW r \in replies, Receive(r)
  PROVE  /\ Waiting' = Waiting \ {r.seq}
         /\ \A s \in Waiting' : pending'[s] = pending[s]
         /\ pending' \in [Seqs -> Probes \cup {None}]
         /\ replies' \subseteq replies
         /\ UNCHANGED <<sent, opened, seq, ambiguous, pc>>
<1>1. /\ pending' = [pending EXCEPT ![r.seq] = None]
      /\ replies' \subseteq replies
      /\ UNCHANGED <<sent, opened, seq, ambiguous, pc>>
  BY DEF Receive, Popped
<1>2. Waiting' = Waiting \ {r.seq}
  BY <1>1, HopTypes DEF Waiting
<1>3. \A s \in Waiting' : pending'[s] = pending[s]
  BY <1>1, <1>2, HopTypes
<1>4. pending' \in [Seqs -> Probes \cup {None}]
  BY <1>1, HopTypes
<1> QED BY <1>1, <1>2, <1>3, <1>4

(* The numbers of the old socket, seen from the new one.                   *)
LEMMA ChangeMarks ==
  ASSUME TypeOK, PendingInv, NumberInv, ChangeInterface
  PROVE  PendingInv' /\ NumberInv'
<1>1. /\ seq' = 0 /\ opened' = sent /\ sent - opened >= CheckEvery
      /\ ambiguous' = (ambiguous \/ seq <= Lateness)
      /\ UNCHANGED <<pc, sent, pending, replies>>
  BY DEF ChangeInterface, Lateness
<1>2. Waiting' = Waiting /\ Marks' = Marks
  BY <1>1 DEF Waiting, Marks
<1>3. seq' = (sent' - opened') % SeqSpace
  BY <1>1, SmallNumber, HopTypes, Constants
<1>4. PendingInv'
  BY <1>1, <1>2, <1>3 DEF PendingInv
<1>5. ASSUME ~ambiguous', NEW m \in Marks
      PROVE  m.seq = seq - (sent - m.probe) /\ seq > Lateness
  <2>0. ~ambiguous /\ ~(seq <= Lateness)
    BY <1>1, <1>5, Zenon
  <2>1. ~ambiguous /\ seq > Lateness
    BY <2>0, HopTypes, Constants
  <2>2. /\ m.probe \in Nat /\ m.seq \in Nat /\ m.probe <= sent
        /\ sent - m.probe <= Lateness /\ m.probe > opened
    BY <1>1, MarkFacts, HopTypes, Constants
  <2>3. m.seq = (m.probe - opened) % SeqSpace
    BY <2>1, <2>2 DEF NumberInv
  <2>4. /\ sent - opened \in Nat /\ sent - m.probe \in Nat
        /\ m.probe - opened = (sent - opened) - (sent - m.probe)
        /\ sent - m.probe <= (sent - opened) % SeqSpace
    BY <2>1, <2>2, HopTypes, Constants DEF PendingInv
  <2>5. ((sent - opened) - (sent - m.probe)) % SeqSpace
            = ((sent - opened) % SeqSpace) - (sent - m.probe)
    BY <2>4, CountsDown, Constants
  <2> QED BY <2>1, <2>3, <2>4, <2>5 DEF PendingInv
<1>6. \A m \in Marks : m.probe \in Nat /\ m.seq \in Nat /\ m.probe <= sent
  BY MarkFacts
<1>7. NumberInv'
  <2> SUFFICES ASSUME ~ambiguous', NEW m \in Marks
               PROVE  /\ m.probe > sent => m.seq = (m.probe - sent) % SeqSpace
                      /\ m.seq > Lateness - (sent - m.probe)
                      /\ \A n \in Marks : m.seq - n.seq = m.probe - n.probe
    BY <1>1, <1>2 DEF NumberInv
  <2>1. ~(m.probe > sent)
    BY <1>6, HopTypes
  <2>2. m.seq > Lateness - (sent - m.probe)
    BY <1>5, <1>6, HopTypes, Constants
  <2>3. \A n \in Marks : m.seq - n.seq = m.probe - n.probe
    BY <1>5, <1>6, HopTypes, Constants
  <2> QED BY <2>1, <2>2, <2>3
<1> QED BY <1>4, <1>7

LEMMA MarksInductive ==
  ASSUME TypeOK, PendingInv, NumberInv, [Next]_vars
  PROVE  PendingInv' /\ NumberInv'
<1>1. CASE Send
  BY <1>1, SendMarks
<1>2. CASE \E young \in 0 .. Window, flush \in BOOLEAN : Sweep(young, flush)
  <2>1. PICK young \in 0 .. Window, flush \in BOOLEAN : Sweep(young, flush)
    BY <1>2
  <2>2. /\ Waiting' \subseteq Waiting
        /\ \A s \in Waiting' : pending'[s] = pending[s] /\ sent - pending[s] < Window
        /\ UNCHANGED <<sent, opened, seq, ambiguous, replies>>
    BY <2>1, SweepPending
  <2> QED BY <2>2, FewerMarks
<1>3. CASE \E r \in replies : Receive(r)
  <2>1. PICK r \in replies : Receive(r)
    BY <1>3
  <2>2. /\ Waiting' \subseteq Waiting
        /\ \A s \in Waiting' : pending'[s] = pending[s]
        /\ replies' \subseteq replies
        /\ UNCHANGED <<sent, opened, seq, ambiguous, pc>>
    BY <2>1, ReceivePending
  <2> QED BY <2>2, FewerMarks
<1>4. CASE ChangeInterface
  BY <1>4, ChangeMarks
<1>5. CASE Restart
  <2>1. /\ pending' = NothingPending /\ replies' = {} /\ seq' = 0 /\ opened' = sent
        /\ sent' = sent
    BY <1>5 DEF Restart
  <2>2. Waiting' = {}
    BY <2>1 DEF NothingPending, Waiting
  <2>3. seq' = (sent' - opened') % SeqSpace
    BY <2>1, SmallNumber, HopTypes, Constants
  <2>4. Marks' = {}
    BY <2>1, <2>2 DEF Marks
  <2> QED BY <2>1, <2>2, <2>3, <2>4 DEF PendingInv, NumberInv
<1>6. CASE UNCHANGED hopVars
  <2>1. UNCHANGED <<pc, seq, sent, pending, opened, replies, ambiguous>>
    BY <1>6 DEF hopVars
  <2>2. Waiting' = Waiting
    BY <2>1 DEF Waiting
  <2>3. Marks' = Marks
    BY <2>1, <2>2 DEF Marks
  <2> QED BY <2>1, <2>2, <2>3 DEF PendingInv, NumberInv
<1>7. ASSUME \/ Write \/ PutOther \/ Sample \/ DishReboots
             \/ \E key \in {0, boot} : PollHistory(key)
      PROVE  UNCHANGED hopVars
  BY <1>7 DEF Write, PutOther, Sample, DishReboots, PollHistory
<1>8. CASE UNCHANGED vars
  BY <1>6, <1>8 DEF vars
<1> QED BY <1>1, <1>2, <1>3, <1>4, <1>5, <1>6, <1>7, <1>8 DEF Next

-----------------------------------------------------------------------------
(* The place of every probe.                                               *)
LEMMA AppendPlaces ==
  ASSUME NEW q \in Seq(Elements), NEW e \in Elements, NEW rows,
         rows = IF e.kind = "hop" THEN e.rows ELSE <<>>
  PROVE  /\ ProbesIn(Append(q, e)) = ProbesIn(q) \cup ProbesOf(rows)
         /\ Separate(q) /\ Single(rows) /\ ProbesIn(q) \cap ProbesOf(rows) = {}
              => Separate(Append(q, e))
         /\ RightIn(q) /\ Right(rows) => RightIn(Append(q, e))
<1> DEFINE u == Append(q, e)  n == Len(q) + 1
<1>1. /\ DOMAIN u = DOMAIN q \cup {n} /\ n \notin DOMAIN q
      /\ \A i \in DOMAIN u : HopRowsAt(u, i) = IF i \in DOMAIN q THEN HopRowsAt(q, i) ELSE rows
  BY AppendFacts
<1> HIDE DEF u, n
<1>2. /\ \A i \in DOMAIN q : i \in DOMAIN u /\ HopRowsAt(u, i) = HopRowsAt(q, i)
      /\ n \in DOMAIN u /\ HopRowsAt(u, n) = rows
      /\ \A i \in DOMAIN u : i \in DOMAIN q \/ i = n
  BY <1>1
<1>3. ProbesIn(u) = ProbesIn(q) \cup ProbesOf(rows)
  BY <1>2 DEF ProbesIn
<1>4. RightIn(q) /\ Right(rows) => RightIn(u)
  BY <1>2 DEF RightIn
<1>5. ASSUME Separate(q), Single(rows), ProbesIn(q) \cap ProbesOf(rows) = {}
      PROVE  Separate(u)
  <2>1. \A i \in DOMAIN q : ProbesOf(HopRowsAt(q, i)) \cap ProbesOf(rows) = {}
    BY <1>5 DEF ProbesIn
  <2>2. \A i \in DOMAIN u : Single(HopRowsAt(u, i))
    BY <1>2, <1>5 DEF Separate
  <2>3. \A i, j \in DOMAIN u : i # j =>
          ProbesOf(HopRowsAt(u, i)) \cap ProbesOf(HopRowsAt(u, j)) = {}
    BY <1>2, <1>5, <2>1 DEF Separate
  <2> QED BY <2>2, <2>3 DEF Separate
<1> QED BY <1>3, <1>4, <1>5 DEF u

LEMMA TailPlaces ==
  ASSUME NEW q \in Seq(Elements), q # <<>>, NEW rows,
         rows = IF Head(q).kind = "hop" THEN Head(q).rows ELSE <<>>
  PROVE  /\ ProbesIn(q) = ProbesIn(Tail(q)) \cup ProbesOf(rows)
         /\ Separate(q) => /\ Separate(Tail(q)) /\ Single(rows)
                           /\ ProbesIn(Tail(q)) \cap ProbesOf(rows) = {}
         /\ RightIn(q) => RightIn(Tail(q)) /\ Right(rows)
<1> DEFINE u == Tail(q)
<1>1. /\ 1 \in DOMAIN q /\ HopRowsAt(q, 1) = rows
      /\ DOMAIN u \subseteq Nat \ {0}
      /\ \A i \in DOMAIN u : i + 1 \in DOMAIN q /\ HopRowsAt(u, i) = HopRowsAt(q, i + 1)
      /\ \A i \in DOMAIN q : i = 1 \/ (i - 1 \in DOMAIN u)
      /\ DOMAIN q \subseteq Nat
  <2>1. /\ Head(q) = q[1] /\ 1 \in DOMAIN q /\ DOMAIN u = 1 .. Len(q) - 1
        /\ \A i \in DOMAIN u : i + 1 \in DOMAIN q
        /\ \A i \in DOMAIN q : i = 1 \/ i - 1 \in DOMAIN u
        /\ \A i \in DOMAIN u : HopRowsAt(u, i) = HopRowsAt(q, i + 1)
    BY TailFacts, TailRows
  <2>2. Len(q) \in Nat /\ DOMAIN q = 1 .. Len(q)
    OBVIOUS
  <2>3. HopRowsAt(q, 1) = rows
    BY <2>1 DEF HopRowsAt
  <2> QED BY <2>1, <2>2, <2>3
<1> HIDE DEF u
<1>2. \A i \in DOMAIN q : i = 1 \/ (i - 1 \in DOMAIN u /\ HopRowsAt(q, i) = HopRowsAt(u, i - 1))
  <2> SUFFICES ASSUME NEW i \in DOMAIN q, i # 1
               PROVE  i - 1 \in DOMAIN u /\ HopRowsAt(q, i) = HopRowsAt(u, i - 1)
    OBVIOUS
  <2>1. i - 1 \in DOMAIN u /\ (i - 1) + 1 = i
    BY <1>1
  <2> QED BY <1>1, <2>1
<1>3. ProbesIn(q) = ProbesIn(u) \cup ProbesOf(rows)
  <2>1. ProbesIn(q) \subseteq ProbesIn(u) \cup ProbesOf(rows)
    BY <1>1, <1>2 DEF ProbesIn
  <2>2. \A i \in DOMAIN u : ProbesOf(HopRowsAt(u, i)) \subseteq ProbesIn(q)
    BY <1>1 DEF ProbesIn
  <2>3. ProbesIn(u) \subseteq ProbesIn(q)
    BY <2>2 DEF ProbesIn
  <2>4. ProbesOf(rows) \subseteq ProbesIn(q)
    BY <1>1 DEF ProbesIn
  <2> QED BY <2>1, <2>3, <2>4
<1>4. ASSUME Separate(q)
      PROVE  Separate(u) /\ Single(rows) /\ ProbesIn(u) \cap ProbesOf(rows) = {}
  <2>1. \A i \in DOMAIN u : i + 1 # 1
    BY <1>1
  <2>2. \A i \in DOMAIN u : ProbesOf(HopRowsAt(u, i)) \cap ProbesOf(rows) = {}
    BY <1>1, <1>4, <2>1 DEF Separate
  <2>3. ProbesIn(u) \cap ProbesOf(rows) = {}
    BY <2>2 DEF ProbesIn
  <2>4. \A i \in DOMAIN u : Single(HopRowsAt(u, i))
    BY <1>1, <1>4 DEF Separate
  <2>5. \A i, j \in DOMAIN u : i # j =>
          ProbesOf(HopRowsAt(u, i)) \cap ProbesOf(HopRowsAt(u, j)) = {}
    <3> SUFFICES ASSUME NEW i \in DOMAIN u, NEW j \in DOMAIN u, i # j
                 PROVE  ProbesOf(HopRowsAt(u, i)) \cap ProbesOf(HopRowsAt(u, j)) = {}
      OBVIOUS
    <3>1. i + 1 \in DOMAIN q /\ j + 1 \in DOMAIN q /\ i + 1 # j + 1
      BY <1>1
    <3> QED BY <1>1, <1>4, <3>1 DEF Separate
  <2>6. Single(rows)
    BY <1>1, <1>4 DEF Separate
  <2> QED BY <2>3, <2>4, <2>5, <2>6 DEF Separate
<1>5. RightIn(q) => RightIn(u) /\ Right(rows)
  BY <1>1 DEF RightIn
<1> QED BY <1>3, <1>4, <1>5 DEF u

LEMMA InitPlaces == Init => PlaceInv /\ CoverInv
<1> SUFFICES ASSUME Init PROVE PlaceInv /\ CoverInv
  OBVIOUS
<1>1. /\ logq = <<>> /\ hop_ping = <<>> /\ batch = <<>> /\ unlogged = {} /\ sent = 0
      /\ pending = NothingPending
  BY DEF Init
<1>2. Awaited = {}
  BY <1>1 DEF NothingPending, Waiting, Awaited
<1>3. ProbesIn(logq) = {} /\ Separate(logq) /\ RightIn(logq)
  BY <1>1 DEF ProbesIn, Separate, RightIn
<1>4. /\ ProbesOf(hop_ping) = {} /\ Single(hop_ping) /\ Right(hop_ping)
      /\ ProbesOf(batch) = {} /\ Single(batch) /\ Right(batch)
  BY <1>1, EmptyFacts
<1>5. 1 .. sent = {}
  BY <1>1
<1> QED BY <1>1, <1>2, <1>3, <1>4, <1>5 DEF PlaceInv, CoverInv

LEMMA WritePlaces ==
  ASSUME TypeOK, PlaceInv, CoverInv, Write
  PROVE  PlaceInv' /\ CoverInv'
<1>1. PICK rows : rows = IF Head(logq).kind = "hop" THEN Head(logq).rows ELSE <<>>
  OBVIOUS
<1>2. /\ logq # <<>> /\ logq \in Seq(Elements) /\ logq' = Tail(logq)
      /\ hop_ping \in Seq(HopRows)
      /\ UNCHANGED <<pending, batch, sent, unlogged, ambiguous>>
  BY DEF Write, TypeOK, hopVars, pastVars
<1>3. /\ ProbesIn(logq) = ProbesIn(logq') \cup ProbesOf(rows)
      /\ Separate(logq') /\ Single(rows) /\ ProbesIn(logq') \cap ProbesOf(rows) = {}
      /\ RightIn(logq) => RightIn(logq') /\ Right(rows)
  BY <1>1, <1>2, TailPlaces DEF PlaceInv
<1>4. /\ ProbesOf(hop_ping') = ProbesOf(hop_ping) \cup ProbesOf(rows)
      /\ Single(hop_ping')
      /\ Right(hop_ping) /\ Right(rows) => Right(hop_ping')
  <2>1. CASE Head(logq).kind = "hop"
    <3>1. hop_ping' = hop_ping \o rows
      BY <1>1, <2>1 DEF Write
    <3>2. rows \in Seq(HopRows)
      BY <1>1, <1>2, <2>1, TailFacts, ElementFacts
    <3>3. ProbesOf(hop_ping) \cap ProbesOf(rows) = {} /\ Single(hop_ping)
      BY <1>3 DEF PlaceInv
    <3> QED BY <1>2, <1>3, <3>1, <3>2, <3>3, JoinedFacts
  <2>2. CASE Head(logq).kind # "hop"
    <3>1. hop_ping' = hop_ping /\ rows = <<>>
      BY <1>1, <2>2 DEF Write
    <3> QED BY <3>1, EmptyFacts DEF PlaceInv
  <2> QED BY <2>1, <2>2
<1>5. Awaited' = Awaited
  BY <1>2 DEF Awaited, Waiting
<1>6. PlaceInv'
  BY <1>2, <1>3, <1>4, <1>5 DEF PlaceInv
<1>7. CoverInv'
  BY <1>2, <1>3, <1>4, <1>5 DEF CoverInv
<1> QED BY <1>6, <1>7

(* An element without rows of the hop prober changes nothing here.         *)
LEMMA OtherPlaces ==
  ASSUME TypeOK, PlaceInv, CoverInv,
         UNCHANGED <<hop_ping, pending, batch, sent, unlogged>>,
         (ambiguous' = ambiguous) \/ ambiguous',
         NEW e \in Elements, e.kind # "hop",
         logq' = logq \/ logq' = Append(logq, e)
  PROVE  PlaceInv' /\ CoverInv'
<1>1. Awaited' = Awaited
  BY DEF Awaited, Waiting
<1>2. /\ ProbesIn(logq') = ProbesIn(logq) /\ Separate(logq')
      /\ RightIn(logq) => RightIn(logq')
  <2>1. logq \in Seq(Elements) /\ Separate(logq)
    BY DEF TypeOK, PlaceInv
  <2>2. CASE logq' = Append(logq, e)
    <3>1. PICK rows : rows = IF e.kind = "hop" THEN e.rows ELSE <<>>
      OBVIOUS
    <3>2. rows = <<>>
      BY <3>1
    <3>3. ProbesOf(rows) = {} /\ Single(rows) /\ Right(rows)
      BY <3>2, EmptyFacts
    <3>4. /\ ProbesIn(Append(logq, e)) = ProbesIn(logq) \cup ProbesOf(rows)
          /\ Separate(logq) /\ Single(rows) /\ ProbesIn(logq) \cap ProbesOf(rows) = {}
               => Separate(Append(logq, e))
          /\ RightIn(logq) /\ Right(rows) => RightIn(Append(logq, e))
      BY <2>1, <3>1, AppendPlaces
    <3> QED BY <2>1, <2>2, <3>3, <3>4
  <2>3. CASE logq' = logq
    BY <2>1, <2>3
  <2> QED BY <2>2, <2>3
<1>3. PlaceInv'
  BY <1>1, <1>2 DEF PlaceInv
<1>4. CoverInv'
  BY <1>1, <1>2 DEF CoverInv
<1> QED BY <1>3, <1>4

LEMMA SendPlaces ==
  ASSUME TypeOK, PendingInv, NumberInv, PlaceInv, CoverInv, Send
  PROVE  PlaceInv' /\ CoverInv'
<1>1. /\ UNCHANGED <<logq, hop_ping, batch, unlogged, ambiguous>> /\ pc = "send"
  BY DEF Send, dbVars, pastVars
<1>2. /\ sent' = sent + 1 /\ seq' = (seq + 1) % SeqSpace /\ seq' \in Seqs
      /\ Waiting' = Waiting \cup {seq'}
      /\ pending'[seq'] = sent'
      /\ \A s \in Seqs : s # seq' => pending'[s] = pending[s]
  BY SendFacts
<1>3. Awaited' \subseteq Awaited \cup {sent'}
  BY <1>2, HopTypes DEF Awaited
<1>4. ~ambiguous => Awaited' = Awaited \cup {sent'}
  <2> SUFFICES ASSUME ~ambiguous PROVE Awaited \cup {sent'} \subseteq Awaited'
    BY <1>3
  <2>1. seq' \notin Waiting
    BY <1>1, <1>2, NextNumberFree
  <2>2. \A s \in Waiting : s \in Waiting' /\ pending'[s] = pending[s]
    BY <1>2, <2>1, HopTypes
  <2> QED BY <1>2, <2>2 DEF Awaited
<1>5. 1 .. sent' = (1 .. sent) \cup {sent'} /\ sent' \notin 1 .. sent
  BY <1>2, HopTypes
<1>6. PlaceInv'
  BY <1>1, <1>3, <1>5 DEF PlaceInv
<1>7. CoverInv'
  BY <1>1, <1>4, <1>5 DEF CoverInv
<1> QED BY <1>6, <1>7

LEMMA SweepPlaces ==
  ASSUME TypeOK, PendingInv, PlaceInv, CoverInv,
         NEW young \in 0 .. Window, NEW flush \in BOOLEAN, Sweep(young, flush)
  PROVE  PlaceInv' /\ CoverInv'
<1> DEFINE gone == {pending[s] : s \in Expired(young)}
<1>1. UNCHANGED <<hop_ping, sent, ambiguous>>
  BY DEF Sweep, dbVars
<1>2. /\ Waiting' = Waiting \ Expired(young)
      /\ \A s \in Waiting' : pending'[s] = pending[s]
      /\ Expired(young) \subseteq Waiting
  BY SweepPending DEF Expired, Waiting
<1>3. gone \subseteq Awaited
  BY <1>2 DEF Awaited
<1>4. Awaited' = Awaited \ gone
  <2>1. Awaited' = {pending[s] : s \in Waiting'}
    BY <1>2 DEF Awaited
  <2>2. \A s, t \in Waiting : pending[s] = pending[t] => s = t
    BY DEF PendingInv
  <2> QED BY <1>2, <2>1, <2>2 DEF Awaited
<1> HIDE DEF gone
<1>5. Awaited \subseteq 1 .. sent
  BY HopTypes DEF PendingInv, Awaited, Probes
<1>6. /\ Single(batch) /\ ProbesOf(batch) \cap Awaited = {}
      /\ logq \in Seq(Elements)
  BY DEF PlaceInv, TypeOK
<1>7. PICK full \in Seq(HopRows), rows \in Seq(HopRows) :
           /\ ProbesOf(full) = ProbesOf(batch) \cup gone
           /\ Single(full) /\ Single(rows) /\ ProbesOf(rows) = ProbesOf(full)
           /\ Right(batch) => Right(full) /\ Right(rows)
           /\ \/ logq' = logq /\ batch' = full /\ unlogged' = unlogged
              \/ /\ logq' = Append(logq, [kind |-> "hop", rows |-> rows])
                 /\ batch' = <<>> /\ unlogged' = unlogged
              \/ logq' = logq /\ batch' = <<>> /\ unlogged' = unlogged \cup ProbesOf(full)
  BY <1>6, SweepFacts DEF gone
<1>8. CASE logq' = logq /\ batch' = full /\ unlogged' = unlogged
  <2>1. PlaceInv'
    BY <1>1, <1>3, <1>4, <1>5, <1>7, <1>8 DEF PlaceInv
  <2>2. CoverInv'
    BY <1>1, <1>3, <1>4, <1>5, <1>7, <1>8 DEF CoverInv
  <2> QED BY <2>1, <2>2
<1>9. CASE logq' = logq /\ batch' = <<>> /\ unlogged' = unlogged \cup ProbesOf(full)
  <2>1. ProbesOf(batch') = {} /\ Single(batch') /\ Right(batch')
    BY <1>9, EmptyFacts
  <2>2. PlaceInv'
    BY <1>1, <1>3, <1>4, <1>5, <1>7, <1>9, <2>1 DEF PlaceInv
  <2>3. CoverInv'
    BY <1>1, <1>3, <1>4, <1>5, <1>7, <1>9, <2>1 DEF CoverInv
  <2> QED BY <2>2, <2>3
<1>10. CASE /\ logq' = Append(logq, [kind |-> "hop", rows |-> rows])
            /\ batch' = <<>> /\ unlogged' = unlogged
  <2> DEFINE e == [kind |-> "hop", rows |-> rows]
  <2>1. e \in Elements /\ e.kind = "hop" /\ rows = IF e.kind = "hop" THEN e.rows ELSE <<>>
    BY DEF Elements
  <2> HIDE DEF e
  <2>2. ProbesOf(batch') = {} /\ Single(batch') /\ Right(batch')
    BY <1>10, EmptyFacts
  <2>3. ProbesIn(logq) \cap ProbesOf(rows) = {} /\ Separate(logq)
    BY <1>3, <1>7 DEF PlaceInv
  <2>4. logq' = Append(logq, e)
    BY <1>10 DEF e
  <2>5. /\ ProbesIn(logq') = ProbesIn(logq) \cup ProbesOf(rows)
        /\ Separate(logq')
        /\ RightIn(logq) /\ Right(rows) => RightIn(logq')
    BY <1>6, <1>7, <2>1, <2>3, <2>4, AppendPlaces
  <2>6. PlaceInv'
    BY <1>1, <1>3, <1>4, <1>5, <1>7, <1>10, <2>2, <2>5 DEF PlaceInv
  <2>7. CoverInv'
    BY <1>1, <1>3, <1>4, <1>5, <1>7, <1>10, <2>2, <2>5 DEF CoverInv
  <2> QED BY <2>6, <2>7
<1> QED BY <1>7, <1>8, <1>9, <1>10

LEMMA ReceivePlaces ==
  ASSUME TypeOK, PendingInv, NumberInv, PlaceInv, CoverInv,
         NEW r \in replies, Receive(r)
  PROVE  PlaceInv' /\ CoverInv'
<1>1. /\ UNCHANGED <<logq, hop_ping, sent, unlogged, ambiguous>>
      /\ batch' = IF pending[r.seq] = None THEN batch
                  ELSE Append(batch, Row(pending[r.seq], r.seq, r.probe))
  BY DEF Receive, dbVars, pastVars
<1>2. /\ Waiting' = Waiting \ {r.seq}
      /\ \A s \in Waiting' : pending'[s] = pending[s]
  BY ReceivePending
<1>3. r.seq \in Seqs /\ r.probe \in Probes
  BY HopTypes DEF TypeOK
<1>4. CASE pending[r.seq] = None
  <2>1. Waiting' = Waiting /\ batch' = batch
    BY <1>1, <1>2, <1>4 DEF Waiting
  <2>2. Awaited' = Awaited
    BY <1>2, <2>1 DEF Awaited
  <2> QED BY <1>1, <2>1, <2>2 DEF PlaceInv, CoverInv
<1>5. CASE pending[r.seq] # None
  <2>1. PICK p : p = pending[r.seq]
    OBVIOUS
  <2>2. PICK x : x = Row(p, r.seq, r.probe)
    OBVIOUS
  <2>3. r.seq \in Waiting /\ p \in Probes
    BY <1>3, <1>5, <2>1, HopTypes DEF Waiting
  <2>4. x \in HopRows /\ x.probe = p /\ x.answer = r.probe
    BY <1>3, <2>2, <2>3 DEF HopRows, Row
  <2>5. batch' = batch \o <<x>> /\ batch \in Seq(HopRows)
    BY <1>1, <1>5, <2>1, <2>2, <2>4 DEF TypeOK
  <2>6. p \in Awaited /\ Awaited \subseteq 1 .. sent
    BY <2>1, <2>3, HopTypes DEF Awaited, PendingInv, Probes
  <2>7. Awaited' = Awaited \ {p}
    <3>1. Awaited' = {pending[s] : s \in Waiting'}
      BY <1>2 DEF Awaited
    <3>2. \A s \in Waiting : pending[s] = p => s = r.seq
      BY <2>1, <2>3 DEF PendingInv
    <3> QED BY <1>2, <2>1, <3>1, <3>2 DEF Awaited
  <2>8. ~ambiguous => p = r.probe
    <3> SUFFICES ASSUME ~ambiguous PROVE p = r.probe
      OBVIOUS
    <3>1. PICK m : m = [probe |-> pending[r.seq], seq |-> r.seq]
      OBVIOUS
    <3>2. m \in Marks /\ r \in Marks /\ m.seq = r.seq /\ m.probe = p
      BY <2>1, <2>3, <3>1 DEF Marks
    <3> QED BY <3>2, NumberNamesProbe
  <2>9. ProbesOf(batch) \cap {p} = {} /\ Single(batch)
    BY <2>6 DEF PlaceInv
  <2>10. /\ ProbesOf(batch') = ProbesOf(batch) \cup {p} /\ Single(batch')
         /\ Right(batch) /\ p = r.probe => Right(batch')
    <3>1. /\ <<x>> \in Seq(HopRows) /\ ProbesOf(<<x>>) = {p} /\ Single(<<x>>)
          /\ (p = r.probe => Right(<<x>>))
      BY <2>4, OneRow
    <3> QED BY <2>5, <2>9, <3>1, JoinedFacts
  <2>11. PlaceInv'
    BY <1>1, <2>6, <2>7, <2>10 DEF PlaceInv
  <2>12. CoverInv'
    BY <1>1, <2>6, <2>7, <2>8, <2>10 DEF CoverInv
  <2> QED BY <2>11, <2>12
<1> QED BY <1>4, <1>5

LEMMA RestartPlaces ==
  ASSUME TypeOK, PlaceInv, CoverInv, Restart
  PROVE  PlaceInv' /\ CoverInv'
<1>1. /\ logq' = <<>> /\ pending' = NothingPending /\ batch' = <<>>
      /\ unlogged' = (1 .. sent) \ ProbesOf(hop_ping)
      /\ UNCHANGED <<hop_ping, sent, ambiguous>>
  BY DEF Restart, dbVars
<1>2. Awaited' = {}
  BY <1>1 DEF NothingPending, Waiting, Awaited
<1>3. ProbesIn(logq') = {} /\ Separate(logq') /\ RightIn(logq')
  BY <1>1 DEF ProbesIn, Separate, RightIn
<1>4. ProbesOf(batch') = {} /\ Single(batch') /\ Right(batch')
  BY <1>1, EmptyFacts
<1>5. PlaceInv'
  BY <1>1, <1>2, <1>3, <1>4 DEF PlaceInv
<1>6. CoverInv'
  BY <1>1, <1>2, <1>3, <1>4 DEF CoverInv, PlaceInv
<1> QED BY <1>5, <1>6

LEMMA PlacesInductive ==
  ASSUME TypeOK, RingInv, PendingInv, NumberInv, PlaceInv, CoverInv, [Next]_vars
  PROVE  PlaceInv' /\ CoverInv'
<1> DEFINE other == [kind |-> "other", rows |-> {}]
<1>1. other \in Elements /\ other.kind # "hop"
  BY DEF Elements
<1> HIDE DEF other
<1>2. CASE Write
  BY <1>2, WritePlaces
<1>3. CASE Send
  BY <1>3, SendPlaces
<1>4. CASE \E young \in 0 .. Window, flush \in BOOLEAN : Sweep(young, flush)
  BY <1>4, SweepPlaces
<1>5. CASE \E r \in replies : Receive(r)
  BY <1>5, ReceivePlaces
<1>6. CASE Restart
  BY <1>6, RestartPlaces
<1>7. CASE PutOther
  <2>1. /\ UNCHANGED <<hop_ping, pending, batch, sent, unlogged, ambiguous>>
        /\ logq' = Append(logq, other)
    BY <1>7 DEF PutOther, Put, HasRoom, dbVars, hopVars, pastVars, other
  <2> QED BY <1>1, <2>1, OtherPlaces
<1>8. CASE \E key \in {0, boot} : PollHistory(key)
  <2>1. PICK key \in {0, boot} : PollHistory(key)
    BY <1>8
  <2>2. PICK rows : rows = {[boot |-> key, counter |-> c, sample |-> ring[c % Ring]] :
                                c \in Start(key) .. current - 1}
    OBVIOUS
  <2>3. rows \subseteq DishRows
    BY <2>2, ReadRows
  <2>4. PICK e : e = [kind |-> "dish", rows |-> rows]
    OBVIOUS
  <2>5. e \in Elements /\ e.kind # "hop"
    BY <2>3, <2>4 DEF Elements
  <2>6. /\ UNCHANGED <<hop_ping, pending, batch, sent, unlogged, ambiguous>>
        /\ logq' = logq \/ logq' = Append(logq, e)
    BY <2>1, <2>2, <2>4 DEF PollHistory, Put, dbVars, hopVars
  <2> QED BY <2>5, <2>6, OtherPlaces
<1>9. CASE ChangeInterface \/ Sample \/ DishReboots \/ UNCHANGED vars
  <2>1. UNCHANGED <<hop_ping, pending, batch, sent, unlogged, logq>>
    BY <1>9 DEF ChangeInterface, Sample, DishReboots, vars, dbVars, hopVars, pastVars
  <2>2. (ambiguous' = ambiguous) \/ ambiguous'
    <3>1. CASE ChangeInterface
      BY <3>1, Zenon DEF ChangeInterface, TypeOK
    <3>2. CASE Sample \/ DishReboots \/ UNCHANGED vars
      BY <3>2 DEF Sample, DishReboots, vars, hopVars
    <3> QED BY <1>9, <3>1, <3>2
  <2> QED BY <1>1, <2>1, <2>2, OtherPlaces
<1> QED BY <1>2, <1>3, <1>4, <1>5, <1>6, <1>7, <1>8, <1>9 DEF Next

-----------------------------------------------------------------------------
(* Types.                                                                  *)

(* Of the probes still waiting there are no more than the timeout allows,  *)
(* so numbers do not run out.                                              *)
LEMMA WaitingBounded ==
  ASSUME NEW W, NEW n \in Nat, NEW k \in Nat, NEW P,
         \A s \in W : P[s] \in Nat /\ P[s] <= n /\ n - P[s] <= k,
         \A s, t \in W : P[s] = P[t] => s = t
  PROVE  Cardinality(W) <= k + 1
<1> DEFINE f == [s \in W |-> P[s]]
<1>1. f \in Injection(W, n - k .. n)
  <2>1. f \in [W -> n - k .. n] /\ \A s \in W : f[s] = P[s]
    OBVIOUS
  <2> HIDE DEF f
  <2>2. \A s, t \in W : f[s] = f[t] => s = t
    BY <2>1
  <2> QED BY <2>1, <2>2 DEF Injection, IsInjective
<1> HIDE DEF f
<1>2. IsFiniteSet(n - k .. n) /\ Cardinality(n - k .. n) = k + 1
  BY FS_Interval
<1>3. IsFiniteSet(W) /\ Cardinality(W) <= Cardinality(n - k .. n)
  BY <1>1, <1>2, FS_Injection
<1> QED BY <1>2, <1>3

LEMMA PendingBounded ==
  ASSUME pending' \in [Seqs -> Probes \cup {None}], sent' \in Nat, PendingInv'
  PROVE  Cardinality({s \in Seqs : pending[s] # None}') <= Window + 1
<1>1. \A s \in Waiting' : pending'[s] \in Nat
  BY Constants DEF Waiting, Probes
<1>2. /\ \A s \in Waiting' : pending'[s] <= sent' /\ sent' - pending'[s] <= Window
      /\ \A s, t \in Waiting' : pending'[s] = pending'[t] => s = t
  BY DEF PendingInv
<1>3. Cardinality(Waiting') <= Window + 1
  BY <1>1, <1>2, Constants, WaitingBounded
<1> QED BY <1>3 DEF Waiting

LEMMA InitTypes == Init => TypeOK
<1> SUFFICES ASSUME Init PROVE TypeOK
  OBVIOUS
<1>1. Waiting = {} /\ pending \in [Seqs -> Probes \cup {None}]
  BY DEF Init, NothingPending, Waiting
<1>2. Cardinality({s \in Seqs : pending[s] # None}) <= Window + 1
  BY <1>1, FS_EmptySet, Constants DEF Waiting
<1>3. /\ ring \in [0 .. Ring - 1 -> Samples \cup {None}]
      /\ last \in [0 .. MaxBoots -> -1 .. MaxSamples]
  BY Constants DEF Init, NothingStored
<1>4. <<>> \in Seq(Elements) /\ <<>> \in Seq(HopRows) /\ Len(<<>>) <= QMax
  BY Constants
<1>5. seq \in Seqs /\ sent \in 0 .. MaxProbes /\ opened \in 0 .. sent /\ boot \in 1 .. MaxBoots
      /\ current \in 0 .. MaxSamples /\ changes \in 0 .. MaxChanges /\ restarts \in 0 .. MaxRestarts
  BY Constants DEF Init, Seqs
<1> QED BY <1>1, <1>2, <1>3, <1>4, <1>5 DEF Init, TypeOK

LEMMA WriteTypes ==
  ASSUME TypeOK, Write
  PROVE  TypeOK'
<1>1. /\ logq # <<>> /\ logq' = Tail(logq)
      /\ hop_ping' = IF Head(logq).kind = "hop" THEN hop_ping \o Head(logq).rows ELSE hop_ping
      /\ dish_history' \subseteq dish_history
            \cup (IF Head(logq).kind = "dish" THEN Head(logq).rows ELSE {})
      /\ UNCHANGED <<hopVars, dishVars, pastVars>>
  BY DEF Write, OrIgnore
<1>2. /\ logq' \in Seq(Elements) /\ Len(logq') = Len(logq) - 1 /\ Len(logq) \in Nat
      /\ Head(logq) \in Elements
  BY <1>1, TailFacts DEF TypeOK
<1>3. Len(logq') <= QMax
  BY <1>2, Constants DEF TypeOK
<1>4. hop_ping' \in Seq(HopRows)
  BY <1>1, <1>2, ElementFacts DEF TypeOK
<1>5. dish_history' \subseteq DishRows
  BY <1>1, <1>2, ElementFacts DEF TypeOK
<1> QED BY <1>1, <1>2, <1>3, <1>4, <1>5 DEF TypeOK, hopVars, dishVars, pastVars

LEMMA SendTypes ==
  ASSUME TypeOK, PendingInv, PendingInv', Send
  PROVE  TypeOK'
<1>1. /\ sent' = sent + 1 /\ seq' \in Seqs /\ sent' \in Probes
      /\ pending' \in [Seqs -> Probes \cup {None}]
  BY SendFacts
<1>2. sent' \in 0 .. MaxProbes /\ opened' \in 0 .. sent' /\ sent' \in Nat
  BY <1>1, HopTypes, Constants DEF Send, Probes
<1>3. Cardinality({s \in Seqs : pending[s] # None}') <= Window + 1
  BY <1>1, <1>2, PendingBounded
<1>4. [probe |-> sent', seq |-> seq'] \in [probe : Probes, seq : Seqs]
  BY <1>1
<1>5. replies' \subseteq [probe : Probes, seq : Seqs]
  BY <1>4 DEF Send, TypeOK
<1>6. /\ pc' \in {"send", "sweep"}
      /\ UNCHANGED <<logq, hop_ping, dish_history, batch, boot, current, ring, last, unlogged,
                     ambiguous, owed, missed, changes, restarts>>
  BY DEF Send, dbVars, dishVars, pastVars
<1> QED BY <1>1, <1>2, <1>3, <1>5, <1>6 DEF TypeOK

LEMMA SweepKeepsTypes ==
  ASSUME TypeOK, PendingInv, PendingInv', NEW young \in 0 .. Window, NEW flush \in BOOLEAN,
         Sweep(young, flush)
  PROVE  TypeOK'
<1>1. /\ logq' \in Seq(Elements) /\ Len(logq') <= QMax
      /\ batch' \in Seq(HopRows) /\ unlogged' \subseteq Probes
  BY SweepTypes
<1>2. pending' \in [Seqs -> Probes \cup {None}]
  BY SweepPending
<1>3. /\ pc' \in {"send", "sweep"}
      /\ UNCHANGED <<hop_ping, dish_history, seq, sent, opened, replies, boot, current, ring,
                     last, ambiguous, owed, missed, changes, restarts>>
  BY DEF Sweep, dbVars, dishVars
<1>4. Cardinality({s \in Seqs : pending[s] # None}') <= Window + 1
  BY <1>2, <1>3, HopTypes, PendingBounded
<1> QED BY <1>1, <1>2, <1>3, <1>4 DEF TypeOK

LEMMA ReceiveTypes ==
  ASSUME TypeOK, PendingInv', NEW r \in replies, Receive(r)
  PROVE  TypeOK'
<1>1. /\ pending' \in [Seqs -> Probes \cup {None}] /\ replies' \subseteq replies
      /\ UNCHANGED <<sent, opened, seq, ambiguous, pc>>
  BY ReceivePending
<1>2. /\ UNCHANGED <<logq, hop_ping, dish_history, boot, current, ring, last, unlogged, owed,
                     missed, changes, restarts>>
      /\ batch' = IF pending[r.seq] = None THEN batch
                  ELSE Append(batch, Row(pending[r.seq], r.seq, r.probe))
  BY DEF Receive, dbVars, dishVars, pastVars
<1>3. r.seq \in Seqs /\ r.probe \in Probes /\ pending[r.seq] \in Probes \cup {None}
  BY DEF TypeOK
<1>4. pending[r.seq] # None => Row(pending[r.seq], r.seq, r.probe) \in HopRows
  BY <1>3 DEF Row, HopRows
<1>5. batch' \in Seq(HopRows)
  BY <1>2, <1>4 DEF TypeOK
<1>6. Cardinality({s \in Seqs : pending[s] # None}') <= Window + 1
  BY <1>1, HopTypes, PendingBounded
<1> QED BY <1>1, <1>2, <1>5, <1>6 DEF TypeOK

LEMMA RestartTypes ==
  ASSUME TypeOK, Restart
  PROVE  TypeOK'
<1>1. /\ logq' = <<>> /\ pending' = NothingPending /\ batch' = <<>> /\ pc' = "send"
      /\ seq' = 0 /\ opened' = sent /\ replies' = {} /\ last' = NothingStored
      /\ restarts' = restarts + 1 /\ restarts < MaxRestarts
      /\ unlogged' \subseteq 1 .. sent /\ owed' = {} /\ missed' = {}
      /\ UNCHANGED <<hop_ping, dish_history, sent, ambiguous, changes, boot, current, ring>>
  BY DEF Restart, dbVars
<1>2. Waiting' = {} /\ pending' \in [Seqs -> Probes \cup {None}]
  BY <1>1 DEF NothingPending, Waiting
<1>3. Cardinality({s \in Seqs : pending[s] # None}') <= Window + 1
  BY <1>2, FS_EmptySet, Constants DEF Waiting
<1>4. <<>> \in Seq(Elements) /\ <<>> \in Seq(HopRows) /\ Len(<<>>) <= QMax
  BY Constants
<1>5. seq' \in Seqs /\ opened' \in 0 .. sent' /\ restarts' \in 0 .. MaxRestarts
  BY <1>1, HopTypes, Constants DEF TypeOK, Seqs
<1>6. last' \in [0 .. MaxBoots -> -1 .. MaxSamples]
  BY <1>1, Constants DEF NothingStored
<1>7. unlogged' \subseteq Probes
  BY <1>1, HopTypes, Constants DEF Probes
<1> QED BY <1>1, <1>2, <1>3, <1>4, <1>5, <1>6, <1>7 DEF TypeOK

LEMMA TypesInductive ==
  ASSUME TypeOK, RingInv, LastInv, DishInv, PendingInv, PendingInv', [Next]_vars
  PROVE  TypeOK'
<1>1. CASE PutOther
  <2>1. logq' \in Seq(Elements) /\ Len(logq') <= QMax
    BY <1>1, HopFrame
  <2>2. UNCHANGED <<hop_ping, dish_history, pc, seq, sent, opened, pending, batch, replies, boot,
                    current, ring, last, unlogged, ambiguous, owed, missed, changes, restarts>>
    BY <1>1 DEF PutOther, dbVars, hopVars, dishVars, pastVars
  <2> QED BY <2>1, <2>2 DEF TypeOK
<1>2. CASE ChangeInterface
  <2>1. /\ UNCHANGED <<logq, hop_ping, dish_history, pc, sent, pending, batch, replies, boot,
                       current, ring, last, unlogged, owed, missed, restarts>>
        /\ seq' = 0 /\ opened' = sent /\ changes' = changes + 1 /\ changes < MaxChanges
    BY <1>2 DEF ChangeInterface, dbVars, dishVars, pastVars
  <2>2. ambiguous' \in BOOLEAN
    BY <1>2 DEF ChangeInterface
  <2>3. seq' \in Seqs /\ opened' \in 0 .. sent' /\ changes' \in 0 .. MaxChanges
    BY <2>1, HopTypes, Constants DEF TypeOK, Seqs
  <2> QED BY <2>1, <2>2, <2>3 DEF TypeOK
<1>3. CASE Sample
  <2>1. /\ UNCHANGED <<logq, hop_ping, dish_history, pc, seq, sent, opened, pending, batch,
                       replies, boot, last, unlogged, ambiguous, owed, missed, changes, restarts>>
        /\ current < MaxSamples /\ current' = current + 1
        /\ ring' = [ring EXCEPT ![current % Ring] = [boot |-> boot, counter |-> current]]
    BY <1>3 DEF Sample, dbVars, hopVars, pastVars
  <2>2. current' \in 0 .. MaxSamples /\ current \in 0 .. MaxSamples
    BY <2>1, DishTypes, Constants DEF TypeOK
  <2>3. [boot |-> boot, counter |-> current] \in Samples
    BY <2>2, DishTypes DEF Samples
  <2>4. ring' \in [0 .. Ring - 1 -> Samples \cup {None}]
    BY <2>1, <2>3, DishTypes
  <2> QED BY <2>1, <2>2, <2>4 DEF TypeOK
<1>4. CASE DishReboots
  <2>1. /\ UNCHANGED <<logq, hop_ping, dish_history, pc, seq, sent, opened, pending, batch,
                       replies, ring, last, unlogged, ambiguous, owed, missed, changes, restarts>>
        /\ boot < MaxBoots /\ boot' = boot + 1 /\ current' = 0
    BY <1>4 DEF DishReboots, dbVars, hopVars, pastVars
  <2>2. boot' \in 1 .. MaxBoots /\ current' \in 0 .. MaxSamples
    BY <2>1, DishTypes, Constants
  <2> QED BY <2>1, <2>2 DEF TypeOK
<1>5. CASE \E key \in {0, boot} : PollHistory(key)
  <2>1. PICK key \in {0, boot} : PollHistory(key)
    BY <1>5
  <2>2. /\ logq' \in Seq(Elements) /\ Len(logq') <= QMax
        /\ last' \in [0 .. MaxBoots -> -1 .. MaxSamples]
        /\ owed' \subseteq Samples /\ missed' \subseteq Samples
    BY <2>1, PollDish
  <2>3. UNCHANGED <<hop_ping, dish_history, pc, seq, sent, opened, pending, batch, replies, boot,
                    current, ring, unlogged, ambiguous, changes, restarts>>
    BY <2>1 DEF PollHistory, dbVars, hopVars
  <2> QED BY <2>2, <2>3 DEF TypeOK
<1>6. CASE UNCHANGED vars
  BY <1>6 DEF TypeOK, vars, dbVars, hopVars, dishVars, pastVars
<1> QED BY <1>1, <1>2, <1>3, <1>4, <1>5, <1>6, WriteTypes, SendTypes, SweepKeepsTypes,
           ReceiveTypes, RestartTypes DEF Next

-----------------------------------------------------------------------------
(* What the invariants say together.                                       *)
LEMMA InitInv == Init => Inv
BY InitTypes, InitDish, InitMarks, InitPlaces DEF Inv

LEMMA StepInv == Inv /\ [Next]_vars => Inv'
<1> SUFFICES ASSUME Inv, [Next]_vars PROVE Inv'
  OBVIOUS
<1>1. RingInv' /\ LastInv' /\ DishInv'
  BY DishInductive DEF Inv
<1>2. PendingInv' /\ NumberInv'
  BY MarksInductive DEF Inv
<1>3. PlaceInv' /\ CoverInv'
  BY PlacesInductive DEF Inv
<1>4. TypeOK'
  BY <1>2, TypesInductive DEF Inv
<1> QED BY <1>1, <1>2, <1>3, <1>4 DEF Inv

(* The list of all the lists of rows, by place: the table, the batch, and  *)
(* then the queue.                                                         *)
LEMMA ListsFacts ==
  ASSUME TypeOK
  PROVE  /\ Lists[1] = hop_ping /\ Lists[2] = batch
         /\ \A i \in DOMAIN logq : i + 2 \in DOMAIN Lists /\ Lists[i + 2] = HopRowsAt(logq, i)
         /\ 1 \in DOMAIN Lists /\ 2 \in DOMAIN Lists
         /\ \A k \in DOMAIN Lists : k = 1 \/ k = 2 \/ \E i \in DOMAIN logq : k = i + 2
<1> DEFINE queued == [i \in DOMAIN logq |-> IF logq[i].kind = "hop" THEN logq[i].rows ELSE <<>>]
<1>1. DOMAIN logq = 1 .. Len(logq) /\ Len(logq) \in Nat
  BY DEF TypeOK
<1>2. \A i \in DOMAIN logq : queued[i] \in Seq(HopRows)
  <2>1. \A i \in DOMAIN logq : logq[i] \in Elements
    BY SequenceFacts DEF TypeOK
  <2> QED BY <2>1, ElementFacts
<1>3. \A i \in DOMAIN logq : queued[i] = HopRowsAt(logq, i)
  BY DEF HopRowsAt
<1>4. queued \in [1 .. Len(logq) -> Seq(HopRows)]
  BY <1>1, <1>2
<1> HIDE DEF queued
<1>5. queued \in Seq(Seq(HopRows)) /\ Len(queued) = Len(logq) /\ DOMAIN queued = DOMAIN logq
  BY <1>1, <1>4, FunctionIsSequence
<1>6. hop_ping \in Seq(HopRows) /\ batch \in Seq(HopRows)
  BY DEF TypeOK
<1> DEFINE two == <<hop_ping, batch>>
<1>7. two \in Seq(Seq(HopRows)) /\ Len(two) = 2 /\ two[1] = hop_ping /\ two[2] = batch
  BY <1>6
<1>8. Lists = two \o queued
  BY DEF Lists, queued
<1> HIDE DEF two
<1>9. /\ DOMAIN Lists = 1 .. Len(logq) + 2
      /\ \A k \in 1 .. Len(logq) + 2 : Lists[k] = IF k <= 2 THEN two[k] ELSE queued[k - 2]
  <2>1. /\ DOMAIN (two \o queued) = 1 .. Len(two) + Len(queued)
        /\ \A k \in 1 .. Len(two) + Len(queued) :
             (two \o queued)[k] = IF k <= Len(two) THEN two[k] ELSE queued[k - Len(two)]
    BY <1>5, <1>7, ConcatFacts
  <2>2. Len(two) + Len(queued) = Len(logq) + 2
    BY <1>1, <1>5, <1>7
  <2> QED BY <1>7, <1>8, <2>1, <2>2
<1>10. \A i \in DOMAIN logq : i + 2 \in DOMAIN Lists /\ Lists[i + 2] = HopRowsAt(logq, i)
  <2> SUFFICES ASSUME NEW i \in DOMAIN logq
               PROVE  i + 2 \in DOMAIN Lists /\ Lists[i + 2] = HopRowsAt(logq, i)
    OBVIOUS
  <2>1. i + 2 \in 1 .. Len(logq) + 2 /\ ~(i + 2 <= 2) /\ (i + 2) - 2 = i
    BY <1>1
  <2> QED BY <1>3, <1>9, <2>1
<1>11. \A k \in DOMAIN Lists : k = 1 \/ k = 2 \/ \E i \in DOMAIN logq : k = i + 2
  <2> SUFFICES ASSUME NEW k \in DOMAIN Lists, k # 1, k # 2
               PROVE  \E i \in DOMAIN logq : k = i + 2
    OBVIOUS
  <2>1. k - 2 \in DOMAIN logq /\ k = (k - 2) + 2
    BY <1>1, <1>9
  <2> QED BY <2>1
<1>12. 1 \in DOMAIN Lists /\ 2 \in DOMAIN Lists /\ Lists[1] = hop_ping /\ Lists[2] = batch
  BY <1>1, <1>7, <1>9
<1> QED BY <1>10, <1>11, <1>12

LEMMA InvGivesEachProbeOnce == Inv => EachProbeOnce
<1> SUFFICES ASSUME Inv PROVE EachProbeOnce
  OBVIOUS
<1> DEFINE lists   == Lists
           places  == UNION {{k} \X DOMAIN lists[k] : k \in DOMAIN lists}
           row(at) == lists[at[1]][at[2]]
           waiting == {pending[s] : s \in Seqs} \ {None}
           written == ProbesOf(hop_ping) \cup ProbesIn(logq) \cup ProbesOf(batch)
<1>1. /\ lists[1] = hop_ping /\ lists[2] = batch
      /\ \A i \in DOMAIN logq : i + 2 \in DOMAIN lists /\ lists[i + 2] = HopRowsAt(logq, i)
      /\ 1 \in DOMAIN lists /\ 2 \in DOMAIN lists
      /\ \A k \in DOMAIN lists : k = 1 \/ k = 2 \/ \E i \in DOMAIN logq : k = i + 2
  BY ListsFacts DEF Inv
<1>2. waiting = Awaited
  BY DEF Awaited, Waiting
<1> HIDE DEF lists
<1>3. \A k \in DOMAIN lists : Single(lists[k])
  BY <1>1 DEF Inv, PlaceInv, Separate
<1>4. \A j, k \in DOMAIN lists : j # k => ProbesOf(lists[j]) \cap ProbesOf(lists[k]) = {}
  <2>1. \A i \in DOMAIN logq : ProbesOf(lists[i + 2]) \subseteq ProbesIn(logq)
    BY <1>1 DEF ProbesIn
  <2>2. \A i, j \in DOMAIN logq : i # j => ProbesOf(lists[i + 2]) \cap ProbesOf(lists[j + 2]) = {}
    BY <1>1 DEF Inv, PlaceInv, Separate
  <2>3. /\ ProbesOf(hop_ping) \cap ProbesIn(logq) = {}
        /\ ProbesOf(hop_ping) \cap ProbesOf(batch) = {}
        /\ ProbesIn(logq) \cap ProbesOf(batch) = {}
    BY DEF Inv, PlaceInv
  <2> SUFFICES ASSUME NEW j \in DOMAIN lists, NEW k \in DOMAIN lists, j # k
               PROVE  ProbesOf(lists[j]) \cap ProbesOf(lists[k]) = {}
    OBVIOUS
  <2> QED BY <1>1, <2>1, <2>2, <2>3
<1>5. \A at \in places : /\ at[1] \in DOMAIN lists /\ at[2] \in DOMAIN lists[at[1]]
                         /\ at = <<at[1], at[2]>>
  OBVIOUS
<1>6. \A at \in places : row(at).probe \in ProbesOf(lists[at[1]])
  BY <1>5 DEF ProbesOf
<1>7. \A at, bt \in places : row(at).probe = row(bt).probe => at = bt
  <2> SUFFICES ASSUME NEW at \in places, NEW bt \in places, row(at).probe = row(bt).probe
               PROVE  at = bt
    OBVIOUS
  <2>1. at[1] = bt[1]
    BY <1>4, <1>5, <1>6
  <2>2. at[2] = bt[2]
    BY <1>3, <1>5, <2>1 DEF Single
  <2> QED BY <1>5, <2>1, <2>2
<1>8. {row(at).probe : at \in places} = written
  <2>1. \A k \in DOMAIN lists : ProbesOf(lists[k]) \subseteq written
    BY <1>1 DEF ProbesIn
  <2>2. \A k \in DOMAIN lists : ProbesOf(lists[k]) \subseteq {row(at).probe : at \in places}
    <3> SUFFICES ASSUME NEW k \in DOMAIN lists, NEW i \in DOMAIN lists[k]
                 PROVE  \E at \in places : lists[k][i].probe = row(at).probe
      BY DEF ProbesOf
    <3>1. <<k, i>> \in places /\ row(<<k, i>>) = lists[k][i]
      OBVIOUS
    <3> QED BY <3>1
  <2>3. written \subseteq {row(at).probe : at \in places}
    BY <1>1, <2>2 DEF ProbesIn
  <2> QED BY <1>6, <1>5, <2>1, <2>3
<1>9. ASSUME ~ambiguous
      PROVE  {row(at).probe : at \in places} = (1 .. sent) \ (unlogged \cup waiting)
  <2>1. 1 .. sent = written \cup Awaited \cup unlogged
    BY <1>9 DEF Inv, CoverInv
  <2>2. written \cap (Awaited \cup unlogged) = {}
    BY DEF Inv, PlaceInv
  <2> QED BY <1>2, <1>8, <2>1, <2>2
<1>10. ASSUME ~ambiguous
       PROVE  \A at \in places : row(at).answer \in {None, row(at).probe}
  <2>1. \A k \in DOMAIN lists : Right(lists[k])
    BY <1>1, <1>10 DEF Inv, CoverInv, RightIn
  <2> QED BY <1>5, <2>1 DEF Right
<1> QED BY <1>7, <1>9, <1>10 DEF EachProbeOnce, lists

LEMMA InvGivesDishHistory == Inv => DishHistoryTrue
<1> SUFFICES ASSUME Inv PROVE DishHistoryTrue
  OBVIOUS
<1>1. UNION {e.rows : e \in {logq[i] : i \in {j \in DOMAIN logq : logq[j].kind = "dish"}}}
        = DishRowsIn(logq)
  BY DEF DishRowsIn
<1> QED BY <1>1 DEF Inv, DishInv, TrueRow, DishRowOf, DishHistoryTrue

(* The inductive invariant.                                                *)
THEOREM InvHolds == Spec => []Inv
<1> QED BY InitInv, StepInv, PTL DEF Spec

(* The types: the queue stays within QMax, and the numbers of the probes   *)
(* waiting never run out, for there are at most Window + 1 of them.        *)
THEOREM TypeCorrect == Spec => []TypeOK
<1>1. Inv => TypeOK
  BY DEF Inv
<1> QED BY <1>1, InvHolds, PTL

(* No probe of hop_prober has two rows, none disappears, and an answer is  *)
(* counted for the probe it answers, although the numbers wrap, the        *)
(* sockets are replaced and the threads interleave: unless the interface   *)
(* changed just after the numbers had wrapped.                             *)
THEOREM ProbesAccounted == Spec => []EachProbeOnce
<1> QED BY InvGivesEachProbeOnce, InvHolds, PTL

(* The dish_history table and its queue hold every sample that was in the  *)
(* ring at a reading of the running collector and found room, under its    *)
(* own number, although the ring is reused and the dish and the collector  *)
(* restart.                                                                *)
THEOREM HistoryTrue == Spec => []DishHistoryTrue
<1> QED BY InvGivesDishHistory, InvHolds, PTL

=============================================================================
