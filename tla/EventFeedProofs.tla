-------------------------- MODULE EventFeedProofs --------------------------
(***************************************************************************)
(* Theorems about EventFeed, for any sizes of the page and the table and   *)
(* any number of requests and deletions.                                   *)
(*                                                                         *)
(* While requests do not overlap there is at most one under way, so the    *)
(* answer that is on its way can be related to the page that asked for it: *)
(* the rows of a poll continue the page's list, and after a clear has been *)
(* served the table holds nothing of the node that the page could know.    *)
(***************************************************************************)
EXTENDS EventFeed, FiniteSetTheorems, WellFoundedInduction, TLAPS

-----------------------------------------------------------------------------
(* A row is named by its id, in the table and wherever it has been copied. *)
TableInv ==
    /\ IsFiniteSet(uplink_events)
    /\ \A r, t \in uplink_events : r.id = t.id => r = t

(* The clauses below say what the page may rely on.                        *)
Calm == ~overlapped /\ ~wiped

SingleInv ==
    ~overlapped =>
        \A s, t \in Slots : req[s] # NoRequest /\ req[t] # NoRequest => s = t

ShapeInv ==
    \A s \in Slots :
        /\ req[s].kind = "none" => req[s] = NoRequest
        /\ req[s].kind = "load" => req[s].since = None
        /\ req[s].kind = "poll" => req[s].since \in Nat
        /\ ~req[s].served \/ req[s].kind = "clear" => req[s].rows = <<>>

Listed(q) == {q[i] : i \in 1 .. Len(q)}

Decreasing(q) == \A i, j \in 1 .. Len(q) : i < j => q[i].id > q[j].id

Increasing(q) == \A i, j \in 1 .. Len(q) : i < j => q[i].id < q[j].id

(* The rows of S are rows that the table has, or has had and lost by       *)
(* somebody else's hand or by a clear that the page has asked for.         *)
KnownRows(S) ==
    /\ \A r \in S : r.id <= sequence
    /\ \A r \in S, t \in uplink_events : r.id = t.id => r = t
    /\ \A r \in S :
           \/ r \in uplink_events
           \/ r.id \in goneElsewhere
           \/ \E s \in Slots : req[s].kind = "clear" /\ req[s].served /\ req[s].dev = r.dev

PageInv ==
    Calm =>
        /\ Decreasing(allEvents) /\ KnownRows(Listed(allEvents))
        /\ latestEventId <= sequence
        /\ \A r \in Listed(allEvents) : r.id <= latestEventId
        /\ \A r \in uplink_events :
               r.id <= latestEventId /\ (\E t \in Listed(allEvents) : t.id < r.id)
                   => r \in Listed(allEvents)

(* The rows on their way to the page.                                      *)
LoadInv ==
    Calm => \A s \in Slots :
        req[s].kind = "load" /\ req[s].served =>
            /\ Decreasing(req[s].rows) /\ KnownRows(Listed(req[s].rows))
            /\ \A r \in uplink_events, t, u \in Listed(req[s].rows) :
                   t.id < r.id /\ r.id <= u.id => r \in Listed(req[s].rows)

PollInv ==
    Calm => \A s \in Slots :
        /\ req[s].kind = "poll" => req[s].since = latestEventId
        /\ req[s].kind = "poll" /\ req[s].served =>
            /\ Increasing(req[s].rows) /\ KnownRows(Listed(req[s].rows))
            /\ \A t \in Listed(req[s].rows) : t.id > latestEventId
            /\ \A r \in uplink_events, u \in Listed(req[s].rows) :
                   latestEventId < r.id /\ r.id <= u.id => r \in Listed(req[s].rows)

ClearInv ==
    Calm => \A s \in Slots :
        req[s].kind = "clear" /\ req[s].served =>
            \A r \in uplink_events : r.dev = req[s].dev => r.id > latestEventId

Inv ==
    /\ TypeOK /\ TableInv /\ SingleInv /\ ShapeInv
    /\ PageInv /\ LoadInv /\ PollInv /\ ClearInv

-----------------------------------------------------------------------------
(* Sequences of rows.                                                      *)
LEMMA SequenceFacts ==
  ASSUME NEW R, NEW q \in Seq(R)
  PROVE  /\ Len(q) \in Nat /\ q = [i \in 1 .. Len(q) |-> q[i]] /\ DOMAIN q = 1 .. Len(q)
         /\ \A i \in 1 .. Len(q) : q[i] \in R
         /\ Listed(q) \subseteq R
<1>1. /\ Len(q) \in Nat /\ q = [i \in 1 .. Len(q) |-> q[i]] /\ DOMAIN q = 1 .. Len(q)
      /\ \A i \in 1 .. Len(q) : q[i] \in R
  OBVIOUS
<1> QED BY <1>1 DEF Listed

LEMMA EmptyFacts ==
  Listed(<<>>) = {} /\ Decreasing(<<>>) /\ Increasing(<<>>) /\ Len(<<>>) = 0
BY DEF Listed, Decreasing, Increasing

LEMMA RowId == \A r \in Rows : r.id \in Nat /\ r.dev \in Devs
BY DEF Rows

LEMMA FirstFacts ==
  ASSUME NEW q \in Seq(Rows)
  PROVE  /\ First(q) \in Seq(Rows) /\ Len(First(q)) <= PageSize
         /\ Len(First(q)) \in 0 .. Len(q)
         /\ \A i \in 1 .. Len(First(q)) : First(q)[i] = q[i]
         /\ Listed(First(q)) \subseteq Listed(q)
<1> DEFINE n == IF Len(q) < PageSize THEN Len(q) ELSE PageSize
<1>1. n \in 0 .. Len(q) /\ n <= PageSize
  BY FeedAssumption
<1> HIDE DEF n
<1>2. /\ SubSeq(q, 1, n) \in Seq(Rows) /\ Len(SubSeq(q, 1, n)) = n
      /\ \A i \in 1 .. n : SubSeq(q, 1, n)[i] = q[i]
  BY <1>1
<1>3. First(q) = SubSeq(q, 1, n)
  BY DEF First, n
<1>4. 1 .. n \subseteq 1 .. Len(q)
  BY <1>1
<1> QED BY <1>1, <1>2, <1>3, <1>4 DEF Listed

(* A beginning of an ordered sequence keeps what comes before what it      *)
(* keeps.                                                                  *)
LEMMA FirstDecreasing ==
  ASSUME NEW q \in Seq(Rows), Decreasing(q)
  PROVE  /\ Decreasing(First(q))
         /\ \A r \in Listed(q), t \in Listed(First(q)) : t.id <= r.id => r \in Listed(First(q))
<1>1. /\ Len(First(q)) \in 0 .. Len(q) /\ Len(q) \in Nat
      /\ \A i \in 1 .. Len(First(q)) : First(q)[i] = q[i]
      /\ \A i \in 1 .. Len(q) : q[i].id \in Nat
  BY FirstFacts, SequenceFacts, RowId
<1>2. 1 .. Len(First(q)) \subseteq 1 .. Len(q)
  BY <1>1
<1>3. Decreasing(First(q))
  BY <1>1, <1>2 DEF Decreasing
<1>4. ASSUME NEW i \in 1 .. Len(q), NEW j \in 1 .. Len(First(q)), q[j].id <= q[i].id
      PROVE  i \in 1 .. Len(First(q))
  <2>1. ~(j < i)
    BY <1>1, <1>2, <1>4 DEF Decreasing
  <2> QED BY <1>1, <2>1
<1> QED BY <1>1, <1>3, <1>4 DEF Listed

LEMMA FirstIncreasing ==
  ASSUME NEW q \in Seq(Rows), Increasing(q)
  PROVE  /\ Increasing(First(q))
         /\ \A r \in Listed(q), t \in Listed(First(q)) : r.id <= t.id => r \in Listed(First(q))
<1>1. /\ Len(First(q)) \in 0 .. Len(q) /\ Len(q) \in Nat
      /\ \A i \in 1 .. Len(First(q)) : First(q)[i] = q[i]
      /\ \A i \in 1 .. Len(q) : q[i].id \in Nat
  BY FirstFacts, SequenceFacts, RowId
<1>2. 1 .. Len(First(q)) \subseteq 1 .. Len(q)
  BY <1>1
<1>3. Increasing(First(q))
  BY <1>1, <1>2 DEF Increasing
<1>4. ASSUME NEW i \in 1 .. Len(q), NEW j \in 1 .. Len(First(q)), q[i].id <= q[j].id
      PROVE  i \in 1 .. Len(First(q))
  <2>1. ~(j < i)
    BY <1>1, <1>2, <1>4 DEF Increasing
  <2> QED BY <1>1, <2>1
<1> QED BY <1>1, <1>3, <1>4 DEF Listed

LEMMA ReverseFacts ==
  ASSUME NEW q \in Seq(Rows)
  PROVE  /\ Reverse(q) \in Seq(Rows) /\ Listed(Reverse(q)) = Listed(q)
         /\ Increasing(q) => Decreasing(Reverse(q))
<1> DEFINE w == Reverse(q)
<1>1. Len(q) \in Nat /\ \A i \in 1 .. Len(q) : Len(q) - i + 1 \in 1 .. Len(q)
  OBVIOUS
<1>2. w = [i \in 1 .. Len(q) |-> q[Len(q) - i + 1]]
  BY DEF Reverse
<1>3. w \in Seq(Rows) /\ Len(w) = Len(q)
  BY <1>1, <1>2
<1>4. \A i \in 1 .. Len(q) : w[i] = q[Len(q) - i + 1]
  BY <1>2
<1> HIDE DEF w
<1>5. \A i \in 1 .. Len(q) : q[i] = w[Len(q) - i + 1]
  <2> TAKE i \in 1 .. Len(q)
  <2>1. Len(q) - (Len(q) - i + 1) + 1 = i
    BY <1>1
  <2> QED BY <1>1, <1>4, <2>1
<1>6. Listed(w) = Listed(q)
  <2>1. Listed(w) \subseteq Listed(q)
    BY <1>1, <1>3, <1>4 DEF Listed
  <2>2. Listed(q) \subseteq Listed(w)
    BY <1>1, <1>3, <1>5 DEF Listed
  <2> QED BY <2>1, <2>2
<1>7. Increasing(q) => Decreasing(w)
  <2> SUFFICES ASSUME Increasing(q), NEW i \in 1 .. Len(q), NEW j \in 1 .. Len(q), i < j
               PROVE  w[i].id > w[j].id
    BY <1>3 DEF Decreasing
  <2>1. Len(q) - j + 1 < Len(q) - i + 1
    BY <1>1
  <2>2. q[Len(q) - j + 1].id < q[Len(q) - i + 1].id
    BY <1>1, <2>1 DEF Increasing
  <2>3. q[Len(q) - j + 1].id \in Nat /\ q[Len(q) - i + 1].id \in Nat
    BY <1>1, SequenceFacts, RowId
  <2> QED BY <1>4, <2>2, <2>3
<1> QED BY <1>3, <1>6, <1>7 DEF w

LEMMA Concatenated ==
  ASSUME NEW s \in Seq(Rows), NEW u \in Seq(Rows)
  PROVE  /\ s \o u \in Seq(Rows) /\ Listed(s \o u) = Listed(s) \cup Listed(u)
         /\ /\ Decreasing(s) /\ Decreasing(u)
            /\ \A r \in Listed(s), t \in Listed(u) : r.id > t.id
            => Decreasing(s \o u)
<1> DEFINE w == s \o u
<1>1. /\ w \in Seq(Rows) /\ Len(w) = Len(s) + Len(u)
      /\ \A i \in 1 .. Len(s) : w[i] = s[i]
      /\ \A i \in 1 .. Len(u) : w[Len(s) + i] = u[i]
      /\ Len(s) \in Nat /\ Len(u) \in Nat
  OBVIOUS
<1> HIDE DEF w
<1>2. \A i \in 1 .. Len(w) :
        i \in 1 .. Len(s) \/ (i - Len(s) \in 1 .. Len(u) /\ w[i] = u[i - Len(s)])
  <2> TAKE i \in 1 .. Len(w)
  <2>1. i \in 1 .. Len(s) \/ i - Len(s) \in 1 .. Len(u)
    BY <1>1
  <2>2. i = Len(s) + (i - Len(s))
    BY <1>1
  <2> QED BY <1>1, <2>1, <2>2
<1>3. Listed(w) = Listed(s) \cup Listed(u)
  <2>1. Listed(w) \subseteq Listed(s) \cup Listed(u)
    BY <1>1, <1>2 DEF Listed
  <2>2. \A i \in 1 .. Len(s) : i \in 1 .. Len(w) /\ w[i] = s[i]
    BY <1>1
  <2>3. \A i \in 1 .. Len(u) : Len(s) + i \in 1 .. Len(w) /\ w[Len(s) + i] = u[i]
    BY <1>1
  <2>4. Listed(s) \subseteq Listed(w)
    BY <2>2 DEF Listed
  <2>5. Listed(u) \subseteq Listed(w)
    BY <2>3 DEF Listed
  <2> QED BY <2>1, <2>4, <2>5
<1>4. ASSUME Decreasing(s), Decreasing(u), \A r \in Listed(s), t \in Listed(u) : r.id > t.id
      PROVE  Decreasing(w)
  <2> SUFFICES ASSUME NEW i \in 1 .. Len(w), NEW j \in 1 .. Len(w), i < j
               PROVE  w[i].id > w[j].id
    BY DEF Decreasing
  <2>1. CASE j \in 1 .. Len(s)
    <3>1. i \in 1 .. Len(s) /\ w[i] = s[i] /\ w[j] = s[j]
      BY <2>1, <1>1
    <3> QED BY <3>1, <2>1, <1>4 DEF Decreasing
  <2>2. CASE i \in 1 .. Len(s) /\ j \notin 1 .. Len(s)
    <3>1. w[i] = s[i] /\ w[j] = u[j - Len(s)] /\ j - Len(s) \in 1 .. Len(u)
      BY <2>2, <1>1, <1>2
    <3> QED BY <3>1, <2>2, <1>4 DEF Listed
  <2>3. CASE i \notin 1 .. Len(s) /\ j \notin 1 .. Len(s)
    <3> DEFINE k == i - Len(s)  l == j - Len(s)
    <3>1. /\ w[i] = u[k] /\ k \in 1 .. Len(u)
          /\ w[j] = u[l] /\ l \in 1 .. Len(u)
      BY <2>3, <1>1, <1>2
    <3>2. k < l
      BY <1>1
    <3> HIDE DEF k, l
    <3> QED BY <3>1, <3>2, <1>4 DEF Decreasing
  <2> QED BY <2>1, <2>2, <2>3, <1>1
<1> QED BY <1>1, <1>3, <1>4 DEF w

LEMMA FunctionIsSequence ==
  ASSUME NEW R, NEW n \in Nat, NEW f \in [1 .. n -> R]
  PROVE  f \in Seq(R) /\ Len(f) = n
OBVIOUS

LEMMA IntervalFacts ==
  ASSUME NEW n \in Nat
  PROVE  IsFiniteSet(1 .. n) /\ Cardinality(1 .. n) = n
BY FS_Interval

(* A listing of a finite set has each of its members once.                 *)
LEMMA ListingFacts ==
  ASSUME NEW S, IsFiniteSet(S), NEW q \in SetToSeqs(S)
  PROVE  /\ q \in Seq(S) /\ Len(q) = Cardinality(S) /\ Listed(q) = S
<1> DEFINE n == Cardinality(S)
<1>1. n \in Nat
  BY FS_CardinalityType
<1>2. q \in [1 .. n -> S] /\ \A i, j \in 1 .. n : i # j => q[i] # q[j]
  BY DEF SetToSeqs
<1> HIDE DEF n
<1>3. IsFiniteSet(1 .. n) /\ Cardinality(1 .. n) = n
  BY <1>1, IntervalFacts
<1>4. q \in Injection(1 .. n, S)
  BY <1>2 DEF Injection, IsInjective
<1>5. q \in Surjection(1 .. n, S)
  BY <1>3, <1>4, FS_Injection DEF n
<1>6. \A r \in S : \E i \in 1 .. n : q[i] = r
  BY <1>5 DEF Surjection
<1>7. q \in Seq(S) /\ Len(q) = n
  BY <1>1, <1>2
<1> QED BY <1>2, <1>6, <1>7 DEF n, Listed

LEMMA RowsInOrder ==
  ASSUME NEW S \in SUBSET Rows, IsFiniteSet(S)
  PROVE  /\ \A q \in InOrder(S, LAMBDA r, t : r.id < t.id) :
                q \in Seq(Rows) /\ Listed(q) = S /\ Increasing(q)
         /\ \A q \in InOrder(S, LAMBDA r, t : r.id > t.id) :
                q \in Seq(Rows) /\ Listed(q) = S /\ Decreasing(q)
<1>1. ASSUME NEW q \in SetToSeqs(S)
      PROVE  q \in Seq(Rows) /\ Listed(q) = S /\ DOMAIN q = 1 .. Len(q)
  <2>1. q \in Seq(S) /\ Listed(q) = S
    BY ListingFacts
  <2>2. q \in Seq(Rows)
    BY <2>1
  <2> QED BY <2>1, <2>2
<1>2. ASSUME NEW q \in InOrder(S, LAMBDA r, t : r.id < t.id)
      PROVE  q \in SetToSeqs(S) /\ \A i, j \in DOMAIN q : i < j => q[i].id < q[j].id
  BY DEF InOrder
<1>3. ASSUME NEW q \in InOrder(S, LAMBDA r, t : r.id > t.id)
      PROVE  q \in SetToSeqs(S) /\ \A i, j \in DOMAIN q : i < j => q[i].id > q[j].id
  BY DEF InOrder
<1> QED BY <1>1, <1>2, <1>3 DEF Increasing, Decreasing

LEMMA WithoutNodeFacts ==
  ASSUME allEvents \in Seq(Rows), NEW d, NEW q \in WithoutNode(d)
  PROVE  /\ q \in Seq(Rows) /\ Len(q) <= Len(allEvents)
         /\ Listed(q) = {r \in Listed(allEvents) : r.dev # d}
         /\ Decreasing(allEvents) => Decreasing(q)
<1> DEFINE kept == {i \in DOMAIN allEvents : allEvents[i].dev # d}
<1>1. PICK at \in InOrder(kept, LAMBDA i, j : i < j) : q = [k \in DOMAIN at |-> allEvents[at[k]]]
  BY DEF WithoutNode, Filtered
<1>2. /\ Len(allEvents) \in Nat /\ DOMAIN allEvents = 1 .. Len(allEvents)
      /\ \A i \in 1 .. Len(allEvents) : allEvents[i] \in Rows
  BY SequenceFacts
<1>3. /\ IsFiniteSet(1 .. Len(allEvents)) /\ Cardinality(1 .. Len(allEvents)) = Len(allEvents)
      /\ kept \subseteq 1 .. Len(allEvents)
  <2>1. IsFiniteSet(1 .. Len(allEvents)) /\ Cardinality(1 .. Len(allEvents)) = Len(allEvents)
    BY <1>2, IntervalFacts
  <2> QED BY <1>2, <2>1
<1>4. IsFiniteSet(kept) /\ Cardinality(kept) <= Len(allEvents)
  <2> HIDE DEF kept
  <2> QED BY <1>3, FS_Subset
<1>5. at \in SetToSeqs(kept) /\ \A i, j \in DOMAIN at : i < j => at[i] < at[j]
  BY <1>1 DEF InOrder
<1>6. at \in Seq(kept) /\ Len(at) = Cardinality(kept) /\ Listed(at) = kept
  <2> HIDE DEF kept
  <2> QED BY <1>4, <1>5, ListingFacts
<1>7. Len(at) \in Nat /\ DOMAIN at = 1 .. Len(at) /\ \A k \in 1 .. Len(at) : at[k] \in kept
  <2> HIDE DEF kept
  <2> QED BY <1>6, SequenceFacts
<1>8. /\ q = [k \in 1 .. Len(at) |-> allEvents[at[k]]]
      /\ \A k \in 1 .. Len(at) : at[k] \in 1 .. Len(allEvents) /\ allEvents[at[k]].dev # d
  BY <1>1, <1>3, <1>7
<1>9. q \in Seq(Rows) /\ Len(q) = Len(at) /\ \A k \in 1 .. Len(at) : q[k] = allEvents[at[k]]
  <2>1. \A k \in 1 .. Len(at) : q[k] = allEvents[at[k]] /\ q[k] \in Rows
    BY <1>2, <1>8
  <2>2. q \in [1 .. Len(at) -> Rows]
    BY <1>8, <2>1
  <2>3. q \in Seq(Rows) /\ Len(q) = Len(at)
    BY <1>7, <2>2, FunctionIsSequence
  <2> QED BY <2>1, <2>3
<1>10. Listed(q) = {r \in Listed(allEvents) : r.dev # d}
  <2>1. Listed(q) \subseteq {r \in Listed(allEvents) : r.dev # d}
    BY <1>8, <1>9 DEF Listed
  <2>2. ASSUME NEW i \in 1 .. Len(allEvents), allEvents[i].dev # d
        PROVE  allEvents[i] \in Listed(q)
    <3>1. i \in kept
      BY <1>2, <2>2
    <3>2. PICK k \in 1 .. Len(at) : at[k] = i
      <4> HIDE DEF kept
      <4> QED BY <3>1, <1>6 DEF Listed
    <3> QED BY <3>2, <1>9 DEF Listed
  <2> QED BY <2>1, <2>2 DEF Listed
<1>11. Decreasing(allEvents) => Decreasing(q)
  BY <1>5, <1>7, <1>8, <1>9 DEF Decreasing
<1> QED BY <1>4, <1>6, <1>9, <1>10, <1>11

-----------------------------------------------------------------------------
(* A set of naturals has a least element.                                  *)
LEMMA LeastNatural ==
  ASSUME NEW T \in SUBSET Nat, T # {}
  PROVE  \E m \in T : \A n \in T : m <= n
<1>1. PICK m \in T : \A n \in T : <<n, m>> \notin OpToRel(<, Nat)
  BY WFMin, NatLessThanWellFounded, Zenon
<1>2. \A n \in T : ~(n < m)
  BY <1>1, Zenon DEF OpToRel
<1> QED BY <1>2

(* The ids of a sequence have a largest one, by induction on its length:   *)
(* no least length is without a bound.                                     *)
LEMMA IdsBounded ==
  ASSUME NEW q \in Seq(Rows)
  PROVE  \E m \in Nat : \A i \in 1 .. Len(q) : q[i].id <= m
<1> DEFINE Bounded(n) == \E m \in Nat : \A i \in 1 .. n : q[i].id <= m
           Bad == {n \in 0 .. Len(q) : ~Bounded(n)}
<1>1. Len(q) \in Nat /\ \A i \in 1 .. Len(q) : q[i].id \in Nat
  BY SequenceFacts, RowId
<1>2. SUFFICES ASSUME Bad # {} PROVE FALSE
  <2>1. Len(q) \in 0 .. Len(q)
    BY <1>1
  <2> QED BY <2>1
<1>3. Bad \in SUBSET Nat
  BY <1>1
<1> HIDE DEF Bad
<1>4. PICK n \in Bad : \A k \in Bad : n <= k
  BY <1>2, <1>3, LeastNatural
<1>5. n # 0
  BY <1>4 DEF Bad
<1>6. n \in Nat /\ n - 1 \in 0 .. Len(q) /\ n \in 1 .. Len(q) /\ n - 1 \notin Bad
  <2>1. n \in 0 .. Len(q)
    BY DEF Bad
  <2>2. n \in Nat /\ n - 1 \in 0 .. Len(q) /\ n \in 1 .. Len(q)
    BY <1>1, <1>5, <2>1
  <2> QED BY <1>4, <2>2
<1>7. PICK m \in Nat : \A i \in 1 .. n - 1 : q[i].id <= m
  BY <1>6 DEF Bad
<1>8. \A i \in 1 .. n : q[i].id <= m + q[n].id
  <2> TAKE i \in 1 .. n
  <2>1. q[i].id \in Nat /\ q[n].id \in Nat
    BY <1>1, <1>6
  <2>2. i \in 1 .. n - 1 \/ i = n
    BY <1>6
  <2> QED BY <1>7, <2>1, <2>2
<1>9. m + q[n].id \in Nat
  BY <1>1, <1>6
<1> QED BY <1>4, <1>8, <1>9 DEF Bad

LEMMA LargestFacts ==
  ASSUME NEW n \in Nat, NEW q \in Seq(Rows)
  PROVE  /\ Largest(n, q) \in Nat /\ Largest(n, q) >= n
         /\ \A r \in Listed(q) : r.id <= Largest(n, q)
         /\ Largest(n, q) = n \/ \E r \in Listed(q) : r.id = Largest(n, q)
<1> DEFINE T == {n} \cup {q[i].id : i \in DOMAIN q}
           B == {m \in Nat : \A k \in T : k <= m}
<1>1. /\ Len(q) \in Nat /\ DOMAIN q = 1 .. Len(q)
      /\ \A i \in 1 .. Len(q) : q[i].id \in Nat
  BY SequenceFacts, RowId
<1>2. T \in SUBSET Nat /\ T # {}
  BY <1>1
<1>3. B # {}
  <2>1. PICK m \in Nat : \A i \in 1 .. Len(q) : q[i].id <= m
    BY IdsBounded
  <2>2. m + n \in B
    BY <1>1, <2>1
  <2> QED BY <2>2
<1> HIDE DEF T
<1>4. PICK m \in B : \A k \in B : m <= k
  <2>1. B \in SUBSET Nat
    OBVIOUS
  <2> HIDE DEF B
  <2> QED BY <1>3, <2>1, LeastNatural
<1>5. m \in Nat /\ \A k \in T : k <= m
  OBVIOUS
<1>6. m \in T
  <2> SUFFICES ASSUME m \notin T PROVE FALSE
    OBVIOUS
  <2>1. \A k \in T : k <= m - 1 /\ k >= 0
    BY <1>2, <1>5
  <2>2. m - 1 \in Nat
    <3>1. PICK k \in T : k <= m - 1 /\ k >= 0
      BY <1>2, <2>1
    <3> QED BY <3>1, <1>2, <1>5
  <2>3. m - 1 \in B
    BY <2>1, <2>2
  <2>4. m <= m - 1
    BY <2>3, <1>4
  <2> QED BY <1>5, <2>4
<1>7. Largest(n, q) = Max(T)
  BY DEF Largest, T
<1>8. Max(T) \in T /\ \A k \in T : Max(T) >= k
  BY <1>2, <1>5, <1>6 DEF Max
<1> QED BY <1>1, <1>2, <1>7, <1>8 DEF T, Listed

-----------------------------------------------------------------------------
(* The table.                                                              *)
Grows ==
    \E r \in Rows :
        /\ r.id = sequence + 1 /\ sequence' = sequence + 1
        /\ uplink_events' = uplink_events \cup {r}

Shrinks == uplink_events' \subseteq uplink_events /\ sequence' = sequence

LEMMA SaveTable ==
  ASSUME HistoryTypeOK, TableInv, NEW f \in saving, Save(f)
  PROVE  HistoryTypeOK' /\ TableInv' /\ Grows
<1> DEFINE base == IF BaseMoves(fcnt_base[f.dev], f.raw) THEN f.raw ELSE fcnt_base[f.dev]
           r == [id |-> sequence + 1, no |-> f.no, dev |-> f.dev, raw |-> f.raw,
                 shown |-> IF f.raw = None THEN None ELSE f.raw - base]
<1>1. /\ f.no \in Nat /\ f.dev \in Devs /\ f.raw \in RawCounters
      /\ sequence \in Nat /\ fcnt_base[f.dev] \in RawCounters
  BY DEF HistoryTypeOK, Frames
<1>2. base \in RawCounters
  BY <1>1
<1>3. f.raw # None => f.raw \in Nat /\ base \in Nat
  BY <1>1, HistoryAssumption DEF RawCounters, BaseMoves
<1>4. /\ sequence' = sequence + 1 /\ uplink_events' = uplink_events \cup {r}
      /\ saving' = saving \ {f} /\ fcnt_base' = [fcnt_base EXCEPT ![f.dev] = base]
      /\ spawned' = spawned
  BY DEF Save
<1>5. (IF f.raw = None THEN None ELSE f.raw - base) \in Int \cup {None}
  BY <1>3
<1> HIDE DEF base
<1>6. r \in Rows /\ r.id = sequence + 1
  BY <1>1, <1>5 DEF Rows
<1> HIDE DEF r
<1>7. Grows
  BY <1>4, <1>6 DEF Grows
<1>8. \A t \in uplink_events' : t \in Rows /\ t.id <= sequence + 1
  BY <1>1, <1>4, <1>6, RowId DEF HistoryTypeOK
<1>9. fcnt_base' \in [Devs -> RawCounters]
  BY <1>2, <1>4 DEF HistoryTypeOK
<1>10. HistoryTypeOK'
  BY <1>1, <1>4, <1>8, <1>9 DEF HistoryTypeOK
<1>11. IsFiniteSet(uplink_events')
  BY <1>4, FS_AddElement DEF TableInv
<1>12. \A t \in uplink_events : t.id # r.id
  BY <1>1, <1>6, RowId DEF HistoryTypeOK
<1> QED BY <1>4, <1>7, <1>10, <1>11, <1>12 DEF TableInv

LEMMA UplinkTable ==
  ASSUME HistoryTypeOK, TableInv, Uplink
  PROVE  HistoryTypeOK' /\ TableInv' /\ (Grows \/ Shrinks)
<1>1. ASSUME NEW d \in Devs, NEW c \in RawCounters, Spawn(d, c)
      PROVE  HistoryTypeOK' /\ TableInv' /\ Shrinks
  <2>1. /\ spawned < MaxFrames /\ spawned' = spawned + 1
        /\ saving' = saving \cup {FrameOf(d, c)}
        /\ UNCHANGED <<fcnt_base, uplink_events, sequence>>
    BY <1>1 DEF Spawn
  <2>2. spawned' \in 0 .. MaxFrames /\ spawned \in Nat
    BY <2>1, HistoryAssumption DEF HistoryTypeOK
  <2>3. FrameOf(d, c) \in Frames
    BY <2>2 DEF FrameOf, Frames
  <2> QED BY <2>1, <2>2, <2>3 DEF HistoryTypeOK, TableInv, Shrinks
<1> QED BY <1>1, SaveTable DEF Uplink

LEMMA DeleteTable ==
  ASSUME HistoryTypeOK, TableInv, NEW d \in Devs, DeleteNode(d) \/ ResetNode(d)
  PROVE  /\ HistoryTypeOK' /\ TableInv' /\ Shrinks
         /\ uplink_events' = {r \in uplink_events : r.dev # d}
<1>1. /\ uplink_events' = {r \in uplink_events : r.dev # d}
      /\ fcnt_base' = fcnt_base \/ fcnt_base' = [fcnt_base EXCEPT ![d] = None]
      /\ UNCHANGED <<spawned, saving, sequence>>
  BY DEF DeleteNode, ResetNode, RowsOf
<1>2. fcnt_base' \in [Devs -> RawCounters]
  BY <1>1 DEF HistoryTypeOK, RawCounters
<1>3. uplink_events' \subseteq uplink_events
  BY <1>1
<1>4. IsFiniteSet(uplink_events')
  BY <1>3, FS_Subset DEF TableInv
<1> QED BY <1>1, <1>2, <1>3, <1>4 DEF HistoryTypeOK, TableInv, Shrinks

LEMMA DeleteAllTable ==
  ASSUME HistoryTypeOK, TableInv, NEW keep \in BOOLEAN, DeleteAll(keep)
  PROVE  HistoryTypeOK' /\ TableInv'
<1>1. /\ uplink_events' = {} /\ sequence' = 0 /\ UNCHANGED <<spawned, saving>>
      /\ fcnt_base' = fcnt_base \/ fcnt_base' = [d \in Devs |-> None]
  BY DEF DeleteAll
<1>2. fcnt_base' \in [Devs -> RawCounters]
  BY <1>1 DEF HistoryTypeOK, RawCounters
<1>3. IsFiniteSet(uplink_events')
  BY <1>1, FS_EmptySet
<1> QED BY <1>1, <1>2, <1>3 DEF HistoryTypeOK, TableInv

-----------------------------------------------------------------------------
(* What a change of the table leaves true of the rows that the page or an  *)
(* answer holds: a new row is newer than all of them.                      *)
LEMMA GrowsKeepsKnown ==
  ASSUME HistoryTypeOK, NEW S \in SUBSET Rows, KnownRows(S), Grows,
         UNCHANGED <<req, goneElsewhere>>
  PROVE  KnownRows(S)'
<1>1. PICK r \in Rows : /\ r.id = sequence + 1 /\ sequence' = sequence + 1
                        /\ uplink_events' = uplink_events \cup {r}
  BY DEF Grows
<1>2. sequence \in Nat /\ \A t \in S : t.id \in Nat /\ t.id <= sequence
  BY RowId DEF HistoryTypeOK, KnownRows
<1>3. \A t \in S : t.id <= sequence' /\ t.id # r.id
  BY <1>1, <1>2
<1> QED BY <1>1, <1>3 DEF KnownRows

LEMMA ShrinksKeepsKnown ==
  ASSUME NEW S, KnownRows(S), Shrinks, req' = req, goneElsewhere \subseteq goneElsewhere',
         \A r \in uplink_events \ uplink_events' : r.id \in goneElsewhere'
  PROVE  KnownRows(S)'
BY DEF KnownRows, Shrinks

(* The uplinks and the deletions of others.                                *)
LEMMA TableChangeKeepsInv ==
  ASSUME Inv, UNCHANGED <<allEvents, latestEventId, req, overlapped>>,
         TypeOK', TableInv',
         \/ wiped'
         \/ /\ wiped' = wiped
            /\ \/ Grows /\ goneElsewhere' = goneElsewhere
               \/ /\ Shrinks /\ goneElsewhere \subseteq goneElsewhere'
                  /\ \A r \in uplink_events \ uplink_events' : r.id \in goneElsewhere'
  PROVE  Inv'
<1>1. SingleInv' /\ ShapeInv'
  BY DEF Inv, SingleInv, ShapeInv
<1>2. CASE wiped'
  BY <1>1, <1>2 DEF Inv, PageInv, LoadInv, PollInv, ClearInv, Calm
<1>3. CASE ~wiped'
  <2>1. Calm' <=> Calm
    BY <1>3 DEF Calm
  <2>2. /\ Listed(allEvents) \subseteq Rows
        /\ \A s \in Slots : Listed(req[s].rows) \subseteq Rows
    <3>1. \A s \in Slots : req[s].rows \in Seq(Rows)
      BY DEF Inv, TypeOK, Requests
    <3> QED BY <3>1, SequenceFacts DEF Inv, TypeOK
  <2>3. ASSUME NEW S \in SUBSET Rows, KnownRows(S)
        PROVE  KnownRows(S)'
    BY <1>3, <2>3, GrowsKeepsKnown, ShrinksKeepsKnown DEF Inv, TypeOK
  <2>4. KnownRows(Listed(allEvents)) => KnownRows(Listed(allEvents))'
    BY <2>2, <2>3
  <2>5. \A s \in Slots : KnownRows(Listed(req[s].rows)) => KnownRows(Listed(req[s].rows))'
    BY <2>2, <2>3
  <2>6. /\ sequence \in Nat /\ sequence' \in Nat /\ sequence <= sequence'
        /\ latestEventId \in Nat
        /\ \A r \in uplink_events' : r \in uplink_events \/ r.id = sequence + 1
    BY <1>3 DEF Inv, TypeOK, HistoryTypeOK, Grows, Shrinks
  <2>7. PageInv'
    <3> SUFFICES ASSUME Calm
                 PROVE  PageInv'
      BY <2>1 DEF PageInv
    <3>1. latestEventId <= sequence'
      BY <2>6 DEF Inv, PageInv
    <3>2. \A r \in uplink_events' : r.id <= latestEventId => r \in uplink_events
      BY <2>6 DEF Inv, PageInv
    <3> QED BY <2>1, <2>4, <3>1, <3>2 DEF Inv, PageInv, Listed, Decreasing
  <2>8. ASSUME Calm, NEW s \in Slots, KnownRows(Listed(req[s].rows)),
               NEW r \in uplink_events', NEW u \in Listed(req[s].rows), r.id <= u.id
        PROVE  r \in uplink_events
    <3>1. u.id \in Nat /\ u.id <= sequence
      BY <2>2, <2>8, RowId DEF KnownRows
    <3> QED BY <2>6, <2>8, <3>1
  <2>9. LoadInv'
    <3> SUFFICES ASSUME Calm', NEW s \in Slots, (req[s].kind = "load" /\ req[s].served)'
                 PROVE  /\ Decreasing(req[s].rows)' /\ KnownRows(Listed(req[s].rows))'
                        /\ \A r \in uplink_events', t, u \in Listed(req[s].rows)' :
                               t.id < r.id /\ r.id <= u.id => r \in Listed(req[s].rows)'
      BY DEF LoadInv
    <3>1. /\ Decreasing(req[s].rows) /\ KnownRows(Listed(req[s].rows))
          /\ \A r \in uplink_events, t, u \in Listed(req[s].rows) :
                 t.id < r.id /\ r.id <= u.id => r \in Listed(req[s].rows)
      BY <2>1 DEF Inv, LoadInv
    <3>2. Decreasing(req[s].rows)' /\ Listed(req[s].rows)' = Listed(req[s].rows)
      BY <3>1 DEF Decreasing, Listed
    <3>3. KnownRows(Listed(req[s].rows))'
      BY <3>1, <2>5
    <3> QED BY <3>1, <3>2, <3>3, <2>1, <2>8
  <2>10. PollInv'
    <3> SUFFICES ASSUME Calm', NEW s \in Slots, (req[s].kind = "poll")'
                 PROVE  /\ (req[s].since = latestEventId)'
                        /\ req[s].served' =>
                             /\ Increasing(req[s].rows)' /\ KnownRows(Listed(req[s].rows))'
                             /\ \A t \in Listed(req[s].rows)' : t.id > latestEventId'
                             /\ \A r \in uplink_events', u \in Listed(req[s].rows)' :
                                  latestEventId' < r.id /\ r.id <= u.id
                                      => r \in Listed(req[s].rows)'
      BY DEF PollInv
    <3>1. /\ req[s].since = latestEventId
          /\ req[s].served =>
               /\ Increasing(req[s].rows) /\ KnownRows(Listed(req[s].rows))
               /\ \A t \in Listed(req[s].rows) : t.id > latestEventId
               /\ \A r \in uplink_events, u \in Listed(req[s].rows) :
                      latestEventId < r.id /\ r.id <= u.id => r \in Listed(req[s].rows)
      BY <2>1 DEF Inv, PollInv
    <3>2. /\ Increasing(req[s].rows) => Increasing(req[s].rows)'
          /\ Listed(req[s].rows)' = Listed(req[s].rows)
      BY DEF Increasing, Listed
    <3>3. req[s].served => KnownRows(Listed(req[s].rows))'
      BY <3>1, <2>5
    <3> QED BY <3>1, <3>2, <3>3, <2>1, <2>8
  <2>11. ClearInv'
    <3>1. Calm => latestEventId < sequence + 1
      BY <2>6 DEF Inv, PageInv
    <3> QED BY <2>1, <2>6, <3>1 DEF Inv, ClearInv
  <2> QED BY <1>1, <2>7, <2>9, <2>10, <2>11 DEF Inv
<1> QED BY <1>2, <1>3

LEMMA UplinkKeepsInv ==
  ASSUME Inv, Uplink
  PROVE  Inv'
<1>1. UNCHANGED <<allEvents, latestEventId, req, opens, deletes, overlapped, wiped, goneElsewhere>>
  BY DEF Uplink, pageVars, pastVars
<1>2. HistoryTypeOK' /\ TableInv' /\ (Grows \/ Shrinks)
  BY UplinkTable DEF Inv, TypeOK
<1>3. Shrinks => uplink_events' = uplink_events
  <2>1. ASSUME NEW d \in Devs, NEW c \in RawCounters, Spawn(d, c)
        PROVE  uplink_events' = uplink_events
    BY <2>1 DEF Spawn
  <2>2. ASSUME NEW f \in saving, Save(f), Shrinks
        PROVE  FALSE
    <3>1. sequence' = sequence + 1 /\ sequence \in Nat
      BY <2>2 DEF Save, Inv, TypeOK, HistoryTypeOK
    <3> QED BY <2>2, <3>1 DEF Shrinks
  <2> QED BY <2>1, <2>2 DEF Uplink
<1>4. TypeOK'
  BY <1>1, <1>2 DEF Inv, TypeOK
<1> QED BY <1>1, <1>2, <1>3, <1>4, TableChangeKeepsInv

LEMMA DeleteElsewhereKeepsInv ==
  ASSUME Inv, DeleteElsewhere
  PROVE  Inv'
<1>1. /\ UNCHANGED <<allEvents, latestEventId, req, opens, overlapped>>
      /\ deletes < MaxDeletes /\ deletes' = deletes + 1
      /\ goneElsewhere' = goneElsewhere \cup {r.id : r \in uplink_events \ uplink_events'}
  BY DEF DeleteElsewhere, pageVars
<1>2. HistoryTypeOK' /\ TableInv'
  BY DeleteTable, DeleteAllTable DEF DeleteElsewhere, Inv, TypeOK
<1>3. wiped' \/ (wiped' = wiped /\ Shrinks)
  BY DeleteTable, Zenon DEF DeleteElsewhere, Inv, TypeOK
<1>4. wiped' \in BOOLEAN
  BY DEF DeleteElsewhere, Inv, TypeOK
<1>5. \A r \in uplink_events \ uplink_events' : r.id \in Nat
  BY RowId DEF Inv, TypeOK, HistoryTypeOK
<1>6. deletes' \in 0 .. MaxDeletes
  BY <1>1, FeedAssumption DEF Inv, TypeOK
<1>7. TypeOK'
  BY <1>1, <1>2, <1>4, <1>5, <1>6 DEF Inv, TypeOK
<1> QED BY <1>1, <1>2, <1>3, <1>7, TableChangeKeepsInv

-----------------------------------------------------------------------------
(* Requests begin and end.                                                 *)
LEMMA NoRequestFacts ==
  /\ NoRequest \in Requests /\ NoRequest.kind = "none" /\ NoRequest.since = None
  /\ NoRequest.served = FALSE /\ NoRequest.rows = <<>> /\ Len(NoRequest.rows) <= PageSize
<1>1. <<>> \in Seq(Rows) /\ Len(<<>>) = 0 /\ 0 <= PageSize
  BY FeedAssumption
<1> QED BY <1>1 DEF NoRequest, Requests

LEMMA OnlyRequest ==
  ASSUME Inv, ~overlapped, NEW s \in Slots, req[s] # NoRequest
  PROVE  \A t \in Slots : t # s => req[t] = NoRequest
BY DEF Inv, SingleInv

LEMMA EndedRequest ==
  ASSUME Inv, NEW s \in Slots, req[s] # NoRequest, req' = [req EXCEPT ![s] = NoRequest],
         overlapped' = overlapped
  PROVE  /\ req' \in [Slots -> Requests] /\ \A t \in Slots : Len(req'[t].rows) <= PageSize
         /\ SingleInv' /\ ShapeInv' /\ LoadInv' /\ PollInv' /\ ClearInv'
<1>1. req \in [Slots -> Requests] /\ \A t \in Slots : Len(req[t].rows) <= PageSize
  BY DEF Inv, TypeOK
<1>2. \A t \in Slots : req'[t] = IF t = s THEN NoRequest ELSE req[t]
  BY <1>1
<1>3. req' \in [Slots -> Requests] /\ \A t \in Slots : Len(req'[t].rows) <= PageSize
  BY <1>1, <1>2, NoRequestFacts
<1>4. ShapeInv'
  <2>1. \A t \in Slots :
          /\ req'[t].kind = "none" => req'[t] = NoRequest
          /\ req'[t].kind = "load" => req'[t].since = None
          /\ req'[t].kind = "poll" => req'[t].since \in Nat
          /\ ~req'[t].served \/ req'[t].kind = "clear" => req'[t].rows = <<>>
    BY <1>2, NoRequestFacts DEF Inv, ShapeInv
  <2> QED BY <2>1, NoRequestFacts DEF ShapeInv, NoRequest
<1>5. ~overlapped' => \A t \in Slots : req'[t] = NoRequest
  BY <1>2, OnlyRequest
<1>6. SingleInv'
  BY <1>5 DEF SingleInv, NoRequest
<1>7. Calm' => \A t \in Slots : req'[t].kind = "none"
  BY <1>5, NoRequestFacts DEF Calm
<1>8. LoadInv'
  BY <1>7 DEF LoadInv
<1>9. PollInv'
  BY <1>7 DEF PollInv
<1>10. ClearInv'
  BY <1>7 DEF ClearInv
<1> QED BY <1>3, <1>4, <1>6, <1>8, <1>9, <1>10

LEMMA OpenPageKeepsInv ==
  ASSUME Inv, NEW s \in Slots, OpenPage(s)
  PROVE  Inv'
<1> DEFINE load == [NoRequest EXCEPT !.kind = "load"]
<1>1. /\ opens < MaxOpens /\ opens' = opens + 1 /\ allEvents' = <<>> /\ latestEventId' = 0
      /\ req' = [[t \in Slots |-> NoRequest] EXCEPT ![s].kind = "load"]
      /\ overlapped' = FALSE /\ wiped' = FALSE /\ goneElsewhere' = {}
      /\ UNCHANGED <<spawned, saving, fcnt_base, uplink_events, sequence, deletes>>
  BY DEF OpenPage, historyVars
<1>2. \A t \in Slots : req'[t] = IF t = s THEN load ELSE NoRequest
  BY <1>1
<1>3. /\ load \in Requests /\ load.kind = "load" /\ load.since = None
      /\ load.served = FALSE /\ load.rows = <<>> /\ Len(load.rows) <= PageSize
  <2>1. <<>> \in Seq(Rows) /\ Len(<<>>) = 0 /\ 0 <= PageSize
    BY FeedAssumption
  <2> QED BY <2>1 DEF NoRequest, Requests
<1> HIDE DEF load
<1>4. TypeOK'
  <2>1. HistoryTypeOK'
    BY <1>1 DEF Inv, TypeOK, HistoryTypeOK
  <2>2. req' = [t \in Slots |-> IF t = s THEN load ELSE NoRequest]
    BY <1>1, <1>2
  <2>3. req' \in [Slots -> Requests] /\ \A t \in Slots : Len(req'[t].rows) <= PageSize
    BY <2>2, <1>3, NoRequestFacts
  <2>4. opens' \in 0 .. MaxOpens
    BY <1>1, FeedAssumption DEF Inv, TypeOK
  <2>5. <<>> \in Seq(Rows) /\ Len(<<>>) <= PageSize
    BY FeedAssumption
  <2> QED BY <1>1, <2>1, <2>3, <2>4, <2>5 DEF Inv, TypeOK
<1>5. TableInv'
  BY <1>1 DEF Inv, TableInv
<1>6. ShapeInv'
  <2>1. \A t \in Slots :
          /\ req'[t].kind = "none" => req'[t] = NoRequest
          /\ req'[t].kind = "load" => req'[t].since = None
          /\ req'[t].kind = "poll" => req'[t].since \in Nat
          /\ ~req'[t].served \/ req'[t].kind = "clear" => req'[t].rows = <<>>
    BY <1>2, <1>3, NoRequestFacts
  <2> QED BY <2>1 DEF ShapeInv, NoRequest
<1>7. SingleInv'
  BY <1>2 DEF SingleInv, NoRequest
<1>8. PageInv'
  <2>1. 0 <= sequence'
    BY <1>1 DEF Inv, TypeOK, HistoryTypeOK
  <2> QED BY <1>1, <2>1, EmptyFacts DEF PageInv, KnownRows
<1>9. \A t \in Slots : req'[t].kind \in {"none", "load"} /\ ~req'[t].served
  BY <1>2, <1>3, NoRequestFacts
<1>10. LoadInv' /\ PollInv' /\ ClearInv'
  BY <1>9 DEF LoadInv, PollInv, ClearInv
<1> QED BY <1>4, <1>5, <1>6, <1>7, <1>8, <1>10 DEF Inv

LEMMA SendKeepsInv ==
  ASSUME Inv, NEW s \in Slots, NEW r \in Requests, Send(s, r),
         r.kind \in {"poll", "clear"}, r.kind = "poll" => r.since = latestEventId,
         ~r.served, r.rows = <<>>,
         deletes' \in 0 .. MaxDeletes,
         UNCHANGED <<historyVars, pageVars, opens, wiped, goneElsewhere>>
  PROVE  Inv'
<1>1. /\ req[s] = NoRequest /\ req' = [req EXCEPT ![s] = r]
      /\ overlapped' = (overlapped \/ \E t \in Slots : req[t] # NoRequest)
      /\ UNCHANGED <<spawned, saving, fcnt_base, uplink_events, sequence, allEvents,
                     latestEventId, opens, wiped, goneElsewhere>>
  BY DEF Send, historyVars, pageVars
<1>2. \A t \in Slots : req'[t] = IF t = s THEN r ELSE req[t]
  BY <1>1 DEF Inv, TypeOK
<1>3. TypeOK'
  <2>1. HistoryTypeOK'
    BY <1>1 DEF Inv, TypeOK, HistoryTypeOK
  <2>2. req' \in [Slots -> Requests]
    BY <1>1 DEF Inv, TypeOK
  <2>3. \A t \in Slots : Len(req'[t].rows) <= PageSize
    BY <1>2, NoRequestFacts DEF Inv, TypeOK, NoRequest
  <2>4. overlapped' \in BOOLEAN
    BY <1>1
  <2> QED BY <1>1, <2>1, <2>2, <2>3, <2>4 DEF Inv, TypeOK
<1>4. TableInv'
  BY <1>1 DEF Inv, TableInv
<1>5. ShapeInv'
  <2>1. latestEventId \in Nat
    BY DEF Inv, TypeOK
  <2>2. \A t \in Slots :
          /\ req'[t].kind = "none" => req'[t] = NoRequest
          /\ req'[t].kind = "load" => req'[t].since = None
          /\ req'[t].kind = "poll" => req'[t].since \in Nat
          /\ ~req'[t].served \/ req'[t].kind = "clear" => req'[t].rows = <<>>
    BY <1>2, <2>1 DEF Inv, ShapeInv
  <2> QED BY <2>2 DEF ShapeInv, NoRequest
<1>6. ~overlapped' => ~overlapped /\ \A t \in Slots : t # s => req'[t] = NoRequest
  BY <1>1, <1>2
<1>7. SingleInv'
  BY <1>6 DEF SingleInv, NoRequest
<1>8. Calm' => Calm
  BY <1>1, <1>6 DEF Calm
<1>9. PageInv'
  <2> SUFFICES ASSUME Calm'
               PROVE  PageInv'
    BY DEF PageInv
  <2>1. \A t \in Slots : req[t].kind = "clear" => req'[t] = req[t]
    BY <1>1, <1>2, NoRequestFacts
  <2>2. KnownRows(Listed(allEvents))'
    <3>1. KnownRows(Listed(allEvents))
      BY <1>8 DEF Inv, PageInv
    <3>2. Listed(allEvents)' = Listed(allEvents)
      BY <1>1 DEF Listed
    <3> QED BY <1>1, <2>1, <3>1, <3>2 DEF KnownRows
  <2> QED BY <1>1, <1>8, <2>2 DEF Inv, PageInv, Listed, Decreasing
<1>10. Calm' => \A t \in Slots : ~req'[t].served
  BY <1>2, <1>6, NoRequestFacts DEF Calm
<1>11. LoadInv' /\ ClearInv'
  BY <1>10 DEF LoadInv, ClearInv
<1>12. PollInv'
  <2>1. Calm' => \A t \in Slots : req'[t].kind = "poll" => req'[t].since = latestEventId
    BY <1>2, <1>6, NoRequestFacts DEF Calm
  <2> QED BY <1>1, <1>10, <2>1 DEF PollInv
<1> QED BY <1>3, <1>4, <1>5, <1>7, <1>9, <1>11, <1>12 DEF Inv

LEMMA PollRecentEventsKeepsInv ==
  ASSUME Inv, NEW s \in Slots, PollRecentEvents(s)
  PROVE  Inv'
<1> DEFINE r == [NoRequest EXCEPT !.kind = "poll", !.since = latestEventId]
<1>1. Send(s, r) /\ UNCHANGED <<historyVars, pageVars, opens, deletes, wiped, goneElsewhere>>
  BY DEF PollRecentEvents
<1>2. latestEventId \in Nat /\ <<>> \in Seq(Rows)
  BY DEF Inv, TypeOK
<1>3. /\ r \in Requests /\ r.kind = "poll" /\ r.since = latestEventId
      /\ ~r.served /\ r.rows = <<>>
  BY <1>2 DEF NoRequest, Requests
<1> HIDE DEF r
<1>4. deletes' \in 0 .. MaxDeletes
  BY <1>1 DEF Inv, TypeOK
<1> QED BY <1>1, <1>3, <1>4, SendKeepsInv

LEMMA ClearNodeEventsKeepsInv ==
  ASSUME Inv, NEW s \in Slots, NEW d \in Devs, ClearNodeEvents(s, d)
  PROVE  Inv'
<1> DEFINE r == [NoRequest EXCEPT !.kind = "clear", !.dev = d]
<1>1. /\ Send(s, r) /\ UNCHANGED <<historyVars, pageVars, opens, wiped, goneElsewhere>>
      /\ deletes < MaxDeletes /\ deletes' = deletes + 1
  BY DEF ClearNodeEvents
<1>2. <<>> \in Seq(Rows)
  OBVIOUS
<1>3. r \in Requests /\ r.kind = "clear" /\ ~r.served /\ r.rows = <<>>
  BY <1>2 DEF NoRequest, Requests
<1> HIDE DEF r
<1>4. deletes' \in 0 .. MaxDeletes
  BY <1>1, FeedAssumption DEF Inv, TypeOK
<1> QED BY <1>1, <1>3, <1>4, SendKeepsInv

-----------------------------------------------------------------------------
(* Requests are served.                                                    *)
LEMMA AnswerFacts ==
  ASSUME Inv, NEW s \in Slots, req[s].kind \in {"load", "poll"},
         NEW q \in Reads(req[s])
  PROVE  /\ q \in Seq(Rows) /\ Len(q) <= PageSize /\ Listed(q) \subseteq uplink_events
         /\ req[s].kind = "load" =>
              /\ Decreasing(q)
              /\ \A r \in uplink_events, t \in Listed(q) : t.id <= r.id => r \in Listed(q)
         /\ req[s].kind = "poll" =>
              /\ Increasing(q) /\ \A t \in Listed(q) : t.id > req[s].since
              /\ \A r \in uplink_events, u \in Listed(q) :
                     req[s].since < r.id /\ r.id <= u.id => r \in Listed(q)
<1>1. IsFiniteSet(uplink_events) /\ uplink_events \subseteq Rows
  BY DEF Inv, TableInv, TypeOK, HistoryTypeOK
<1>2. CASE req[s].kind = "load"
  <2>1. PICK w \in InOrder(uplink_events, LAMBDA r, t : r.id > t.id) : q = First(w)
    BY <1>2 DEF Inv, ShapeInv, Reads, Newest
  <2>2. w \in Seq(Rows) /\ Listed(w) = uplink_events /\ Decreasing(w)
    BY <1>1, RowsInOrder
  <2> QED BY <1>2, <2>1, <2>2, FirstFacts, FirstDecreasing
<1>3. CASE req[s].kind = "poll"
  <2> DEFINE S == {r \in uplink_events : r.id > req[s].since}
  <2>1. req[s].since # None /\ req[s].since \in Nat
    BY <1>3, HistoryAssumption DEF Inv, ShapeInv
  <2>2. PICK w \in InOrder(S, LAMBDA r, t : r.id < t.id) : q = First(w)
    BY <2>1 DEF Reads, After
  <2>3. S \subseteq uplink_events
    OBVIOUS
  <2> HIDE DEF S
  <2>4. S \subseteq Rows /\ IsFiniteSet(S)
    BY <1>1, <2>3, FS_Subset
  <2>5. w \in Seq(Rows) /\ Listed(w) = S /\ Increasing(w)
    BY <2>4, RowsInOrder
  <2>6. /\ q \in Seq(Rows) /\ Len(q) <= PageSize /\ Listed(q) \subseteq S /\ Increasing(q)
        /\ \A r \in S, u \in Listed(q) : r.id <= u.id => r \in Listed(q)
    BY <2>2, <2>5, FirstFacts, FirstIncreasing
  <2>7. \A r \in uplink_events : r.id \in Nat
    BY <1>1, RowId
  <2> QED BY <1>3, <2>1, <2>3, <2>6, <2>7 DEF S
<1> QED BY <1>2, <1>3

LEMMA ServeEventsKeepsInv ==
  ASSUME Inv, NEW s \in Slots, ServeEvents(s)
  PROVE  Inv'
<1>1. PICK q \in Reads(req[s]) :
        req' = [req EXCEPT ![s].served = TRUE, ![s].rows = q]
  BY DEF ServeEvents
<1>2. /\ req[s].kind \in {"load", "poll"} /\ ~req[s].served
      /\ UNCHANGED <<spawned, saving, fcnt_base, uplink_events, sequence, allEvents,
                     latestEventId, opens, deletes, overlapped, wiped, goneElsewhere>>
  BY DEF ServeEvents, historyVars, pageVars, pastVars
<1>3. req \in [Slots -> Requests] /\ req[s] \in Requests
  BY DEF Inv, TypeOK
<1>4. /\ q \in Seq(Rows) /\ Len(q) <= PageSize /\ Listed(q) \subseteq uplink_events
      /\ req[s].kind = "load" =>
           /\ Decreasing(q)
           /\ \A r \in uplink_events, t \in Listed(q) : t.id <= r.id => r \in Listed(q)
      /\ req[s].kind = "poll" =>
           /\ Increasing(q) /\ \A t \in Listed(q) : t.id > req[s].since
           /\ \A r \in uplink_events, u \in Listed(q) :
                  req[s].since < r.id /\ r.id <= u.id => r \in Listed(q)
  BY <1>2, AnswerFacts
<1>5. /\ \A t \in Slots : t # s => req'[t] = req[t]
      /\ req'[s].kind = req[s].kind /\ req'[s].since = req[s].since
      /\ req'[s].dev = req[s].dev /\ req'[s].served = TRUE /\ req'[s].rows = q
      /\ req'[s] \in Requests /\ req' \in [Slots -> Requests]
  BY <1>1, <1>3, <1>4 DEF Requests
<1>6. req[s] # NoRequest /\ req'[s] # NoRequest
  BY <1>2, <1>5, NoRequestFacts
<1>7. TypeOK'
  <2>1. HistoryTypeOK'
    BY <1>2 DEF Inv, TypeOK, HistoryTypeOK
  <2>2. \A t \in Slots : Len(req'[t].rows) <= PageSize
    BY <1>4, <1>5 DEF Inv, TypeOK
  <2> QED BY <1>2, <1>5, <2>1, <2>2 DEF Inv, TypeOK
<1>8. TableInv'
  BY <1>2 DEF Inv, TableInv
<1>9. ShapeInv'
  <2>1. \A t \in Slots :
          /\ req'[t].kind = "none" => req'[t] = NoRequest
          /\ req'[t].kind = "load" => req'[t].since = None
          /\ req'[t].kind = "poll" => req'[t].since \in Nat
          /\ ~req'[t].served \/ req'[t].kind = "clear" => req'[t].rows = <<>>
    <3> TAKE t \in Slots
    <3>1. CASE t = s
      BY <3>1, <1>2, <1>5 DEF Inv, ShapeInv
    <3>2. CASE t # s
      BY <3>2, <1>5 DEF Inv, ShapeInv
    <3> QED BY <3>1, <3>2
  <2> QED BY <2>1 DEF ShapeInv, NoRequest
<1>10. SingleInv'
  <2>1. \A t \in Slots : req'[t] # NoRequest => req[t] # NoRequest
    BY <1>5, <1>6
  <2> QED BY <1>2, <2>1 DEF Inv, SingleInv, NoRequest
<1>11. Calm' = Calm
  BY <1>2 DEF Calm
<1>12. Calm => \A t \in Slots : t # s => req'[t].kind = "none"
  BY <1>5, <1>6, OnlyRequest, NoRequestFacts DEF Calm
<1>13. Calm => latestEventId <= sequence
  BY DEF Inv, PageInv
<1>14. KnownRows(Listed(q))'
  <2>1. \A r \in uplink_events : r.id <= sequence
    BY DEF Inv, TypeOK, HistoryTypeOK
  <2>2. Listed(q)' = Listed(q)
    BY DEF Listed
  <2> QED BY <1>2, <1>4, <2>1, <2>2 DEF Inv, TableInv, KnownRows
<1>15. PageInv'
  <2> SUFFICES ASSUME Calm PROVE PageInv'
    BY <1>11 DEF PageInv
  <2>1. KnownRows(Listed(allEvents))
    BY DEF Inv, PageInv
  <2>2. \A t \in Slots : req[t].kind = "clear" => req'[t] = req[t]
    BY <1>2, <1>5
  <2>3. Listed(allEvents)' = Listed(allEvents)
    BY <1>2 DEF Listed
  <2>4. KnownRows(Listed(allEvents))'
    BY <1>2, <2>1, <2>2, <2>3 DEF KnownRows
  <2> QED BY <1>2, <1>11, <2>4 DEF Inv, PageInv, Listed, Decreasing
<1>16. LoadInv'
  <2> SUFFICES ASSUME Calm', NEW t \in Slots, (req[t].kind = "load" /\ req[t].served)'
               PROVE  /\ Decreasing(req[t].rows)' /\ KnownRows(Listed(req[t].rows))'
                      /\ \A r \in uplink_events', u, w \in Listed(req[t].rows)' :
                             u.id < r.id /\ r.id <= w.id => r \in Listed(req[t].rows)'
    BY DEF LoadInv
  <2>1. t = s /\ req[s].kind = "load"
    BY <1>5, <1>11, <1>12
  <2>2. /\ Decreasing(req[t].rows)' = Decreasing(q)
        /\ Listed(req[t].rows)' = Listed(q)
    BY <2>1, <1>5 DEF Decreasing, Listed
  <2>3. KnownRows(Listed(req[t].rows))'
    BY <2>2, <1>14 DEF KnownRows, Listed
  <2>4. \A r \in uplink_events : r.id \in Nat
    BY RowId DEF Inv, TypeOK, HistoryTypeOK
  <2>5. \A r \in uplink_events, u \in Listed(q) : u.id < r.id => u.id <= r.id
    BY <1>4, <2>4
  <2> QED BY <1>2, <1>4, <2>1, <2>2, <2>3, <2>5
<1>17. PollInv'
  <2> SUFFICES ASSUME Calm', NEW t \in Slots, (req[t].kind = "poll")'
               PROVE  /\ (req[t].since = latestEventId)'
                      /\ req[t].served' =>
                           /\ Increasing(req[t].rows)' /\ KnownRows(Listed(req[t].rows))'
                           /\ \A u \in Listed(req[t].rows)' : u.id > latestEventId'
                           /\ \A r \in uplink_events', u \in Listed(req[t].rows)' :
                                latestEventId' < r.id /\ r.id <= u.id
                                    => r \in Listed(req[t].rows)'
    BY DEF PollInv
  <2>1. t = s /\ req[s].kind = "poll"
    BY <1>5, <1>11, <1>12
  <2>2. /\ Increasing(req[t].rows)' = Increasing(q)
        /\ Listed(req[t].rows)' = Listed(q)
    BY <2>1, <1>5 DEF Increasing, Listed
  <2>3. KnownRows(Listed(req[t].rows))'
    BY <2>2, <1>14 DEF KnownRows, Listed
  <2>4. req[s].since = latestEventId
    BY <1>11, <2>1 DEF Inv, PollInv
  <2> QED BY <1>2, <1>4, <1>5, <2>1, <2>2, <2>3, <2>4
<1>18. ClearInv'
  BY <1>2, <1>5, <1>11, <1>12 DEF ClearInv
<1> QED BY <1>7, <1>8, <1>9, <1>10, <1>15, <1>16, <1>17, <1>18 DEF Inv

LEMMA ServeClearKeepsInv ==
  ASSUME Inv, NEW s \in Slots, ServeClear(s)
  PROVE  Inv'
<1> DEFINE d == req[s].dev
<1>1. /\ req[s].kind = "clear" /\ ~req[s].served /\ DeleteNode(d)
      /\ req' = [req EXCEPT ![s].served = TRUE]
      /\ UNCHANGED <<allEvents, latestEventId, opens, deletes, overlapped, wiped, goneElsewhere>>
  BY DEF ServeClear, pageVars, pastVars
<1>2. req \in [Slots -> Requests] /\ req[s] \in Requests
  BY DEF Inv, TypeOK
<1>3. /\ uplink_events' = {r \in uplink_events : r.dev # d}
      /\ UNCHANGED <<spawned, saving, fcnt_base, sequence>>
  BY <1>1 DEF DeleteNode, RowsOf
<1>4. /\ \A t \in Slots : t # s => req'[t] = req[t]
      /\ req'[s].kind = "clear" /\ req'[s].dev = d /\ req'[s].served = TRUE
      /\ req'[s].rows = req[s].rows /\ req[s].rows = <<>>
      /\ req'[s] \in Requests /\ req' \in [Slots -> Requests]
  BY <1>1, <1>2 DEF Requests, Inv, ShapeInv
<1>5. req[s] # NoRequest /\ req'[s] # NoRequest
  BY <1>1, <1>4, NoRequestFacts
<1>6. uplink_events' \subseteq uplink_events
  BY <1>3
<1>7. HistoryTypeOK' /\ TableInv'
  <2>1. IsFiniteSet(uplink_events')
    BY <1>6, FS_Subset DEF Inv, TableInv
  <2> QED BY <1>3, <1>6, <2>1 DEF Inv, TypeOK, HistoryTypeOK, TableInv
<1>8. TypeOK'
  <2>1. \A t \in Slots : Len(req'[t].rows) <= PageSize
    BY <1>4 DEF Inv, TypeOK
  <2> QED BY <1>1, <1>4, <1>7, <2>1 DEF Inv, TypeOK
<1>9. ShapeInv'
  <2>1. \A t \in Slots :
          /\ req'[t].kind = "none" => req'[t] = NoRequest
          /\ req'[t].kind = "load" => req'[t].since = None
          /\ req'[t].kind = "poll" => req'[t].since \in Nat
          /\ ~req'[t].served \/ req'[t].kind = "clear" => req'[t].rows = <<>>
    <3> TAKE t \in Slots
    <3>1. CASE t = s
      BY <3>1, <1>4
    <3>2. CASE t # s
      BY <3>2, <1>4 DEF Inv, ShapeInv
    <3> QED BY <3>1, <3>2
  <2> QED BY <2>1 DEF ShapeInv, NoRequest
<1>10. SingleInv'
  <2>1. \A t \in Slots : req'[t] # NoRequest => req[t] # NoRequest
    BY <1>4, <1>5
  <2> QED BY <1>1, <2>1 DEF Inv, SingleInv, NoRequest
<1>11. Calm' = Calm
  BY <1>1 DEF Calm
<1>12. Calm => \A t \in Slots : t # s => req'[t].kind = "none"
  BY <1>4, <1>5, OnlyRequest, NoRequestFacts DEF Calm
<1>13. LoadInv' /\ PollInv'
  BY <1>4, <1>11, <1>12 DEF LoadInv, PollInv
<1>14. PageInv'
  <2> SUFFICES ASSUME Calm PROVE PageInv'
    BY <1>11 DEF PageInv
  <2>1. KnownRows(Listed(allEvents))
    BY DEF Inv, PageInv
  <2>2. \A t \in Slots : req[t].kind = "clear" /\ req[t].served => req'[t] = req[t]
    BY <1>1, <1>4
  <2>3. Listed(allEvents)' = Listed(allEvents)
    BY <1>1 DEF Listed
  <2>4. \A r \in Listed(allEvents) : r \in uplink_events => r \in uplink_events' \/ r.dev = d
    BY <1>3
  <2>5. \A r \in Listed(allEvents) :
          \/ r \in uplink_events'
          \/ r.id \in goneElsewhere
          \/ \E t \in Slots : req'[t].kind = "clear" /\ req'[t].served /\ req'[t].dev = r.dev
    <3> SUFFICES ASSUME NEW r \in Listed(allEvents), r \notin uplink_events',
                        r.id \notin goneElsewhere
                 PROVE  \E t \in Slots :
                          req'[t].kind = "clear" /\ req'[t].served /\ req'[t].dev = r.dev
      OBVIOUS
    <3>1. CASE r \in uplink_events
      BY <3>1, <2>4, <1>4
    <3>2. CASE r \notin uplink_events
      BY <3>2, <2>1, <2>2 DEF KnownRows
    <3> QED BY <3>1, <3>2
  <2>6. KnownRows(Listed(allEvents))'
    BY <1>1, <1>3, <1>6, <2>1, <2>3, <2>5 DEF KnownRows
  <2> QED BY <1>1, <1>3, <1>6, <1>11, <2>6 DEF Inv, PageInv, Listed, Decreasing
<1>15. ClearInv'
  <2> SUFFICES ASSUME Calm', NEW t \in Slots, (req[t].kind = "clear")',
                      NEW r \in uplink_events', r.dev = req'[t].dev
               PROVE  FALSE
    BY DEF ClearInv
  <2>1. t = s
    BY <1>11, <1>12
  <2> QED BY <1>3, <1>4, <2>1
<1> QED BY <1>7, <1>8, <1>9, <1>10, <1>13, <1>14, <1>15 DEF Inv

-----------------------------------------------------------------------------
(* Requests are answered.                                                  *)
LEMMA AnsweredTypes ==
  ASSUME Inv, NEW s \in Slots, req[s] # NoRequest, req' = [req EXCEPT ![s] = NoRequest],
         UNCHANGED <<historyVars, pastVars>>,
         allEvents' \in Seq(Rows), Len(allEvents') <= PageSize, latestEventId' \in Nat
  PROVE  /\ TypeOK' /\ TableInv' /\ SingleInv' /\ ShapeInv'
         /\ LoadInv' /\ PollInv' /\ ClearInv' /\ Calm' = Calm
<1>1. UNCHANGED <<spawned, saving, fcnt_base, uplink_events, sequence,
                  opens, deletes, overlapped, wiped, goneElsewhere>>
  BY DEF historyVars, pastVars
<1>2. /\ req' \in [Slots -> Requests] /\ \A t \in Slots : Len(req'[t].rows) <= PageSize
      /\ SingleInv' /\ ShapeInv' /\ LoadInv' /\ PollInv' /\ ClearInv'
  BY <1>1, EndedRequest
<1>3. HistoryTypeOK' /\ TableInv'
  BY <1>1 DEF Inv, TypeOK, HistoryTypeOK, TableInv
<1>4. TypeOK'
  BY <1>1, <1>2, <1>3 DEF Inv, TypeOK
<1>5. Calm' = Calm
  BY <1>1 DEF Calm
<1> QED BY <1>2, <1>3, <1>4, <1>5

(* What the page comes to show is still known when no clear is under way.  *)
LEMMA KnownWithoutRequest ==
  ASSUME NEW S, KnownRows(S), UNCHANGED <<historyVars, goneElsewhere>>,
         \A r \in S, t \in Slots :
             ~(req[t].kind = "clear" /\ req[t].served /\ req[t].dev = r.dev)
  PROVE  KnownRows(S)'
BY DEF KnownRows, historyVars

LEMMA LoadAnsweredKeepsInv ==
  ASSUME Inv, NEW s \in Slots, LoadAnswered(s)
  PROVE  Inv'
<1>1. PICK q : q = req[s].rows
  OBVIOUS
<1>2. /\ req[s].kind = "load" /\ req[s].served /\ allEvents' = q
      /\ latestEventId' = Largest(0, q) /\ req' = [req EXCEPT ![s] = NoRequest]
      /\ UNCHANGED <<historyVars, pastVars>>
  BY <1>1 DEF LoadAnswered
<1>3. q \in Seq(Rows) /\ Len(q) <= PageSize
  BY <1>1 DEF Inv, TypeOK, Requests
<1>4. req[s] # NoRequest
  BY <1>2, NoRequestFacts
<1>5. /\ Largest(0, q) \in Nat /\ \A r \in Listed(q) : r.id <= Largest(0, q)
      /\ Largest(0, q) = 0 \/ \E r \in Listed(q) : r.id = Largest(0, q)
  BY <1>3, LargestFacts
<1>6. /\ TypeOK' /\ TableInv' /\ SingleInv' /\ ShapeInv'
      /\ LoadInv' /\ PollInv' /\ ClearInv' /\ Calm' = Calm
  BY <1>2, <1>3, <1>4, <1>5, AnsweredTypes
<1>7. PageInv'
  <2> SUFFICES ASSUME Calm PROVE PageInv'
    BY <1>6 DEF PageInv
  <2>1. /\ Decreasing(q) /\ KnownRows(Listed(q))
        /\ \A r \in uplink_events, t, u \in Listed(q) :
               t.id < r.id /\ r.id <= u.id => r \in Listed(q)
    BY <1>1, <1>2 DEF Inv, LoadInv
  <2>2. \A t \in Slots : req[t].kind # "clear"
    BY <1>2, <1>4, OnlyRequest, NoRequestFacts DEF Calm
  <2>3. KnownRows(Listed(q))'
    BY <1>2, <2>1, <2>2, KnownWithoutRequest DEF pastVars
  <2>4. KnownRows(Listed(allEvents))'
    BY <1>2, <2>3 DEF KnownRows, Listed
  <2>5. sequence \in Nat /\ sequence' = sequence /\ uplink_events' = uplink_events
    BY <1>2 DEF historyVars, Inv, TypeOK, HistoryTypeOK
  <2>6. Largest(0, q) <= sequence
    BY <1>5, <2>1, <2>5 DEF KnownRows
  <2>7. ASSUME NEW r \in uplink_events, NEW t \in Listed(q), r.id <= Largest(0, q), t.id < r.id
        PROVE  r \in Listed(q)
    <3>1. t.id \in Nat /\ r.id \in Nat
      BY <1>3, SequenceFacts, RowId DEF Inv, TypeOK, HistoryTypeOK
    <3> QED BY <1>5, <2>1, <2>7, <3>1
  <2>8. Listed(allEvents)' = Listed(q) /\ Decreasing(allEvents)'
    BY <1>2, <2>1 DEF Listed, Decreasing
  <2> QED BY <1>2, <1>5, <2>4, <2>5, <2>6, <2>7, <2>8 DEF PageInv
<1> QED BY <1>6, <1>7 DEF Inv

LEMMA PollAnsweredKeepsInv ==
  ASSUME Inv, NEW s \in Slots, PollAnswered(s)
  PROVE  Inv'
<1>1. PICK q : q = req[s].rows
  OBVIOUS
<1>2. PICK w : w = Reverse(q) \o allEvents
  OBVIOUS
<1>3. PICK m : m = Largest(latestEventId, q)
  OBVIOUS
<1>4. /\ req[s].kind = "poll" /\ req[s].served /\ allEvents' = First(w)
      /\ latestEventId' = m /\ req' = [req EXCEPT ![s] = NoRequest]
      /\ UNCHANGED <<historyVars, pastVars>>
  BY <1>1, <1>2, <1>3 DEF PollAnswered, Merged
<1>5. q \in Seq(Rows) /\ allEvents \in Seq(Rows) /\ latestEventId \in Nat
  BY <1>1 DEF Inv, TypeOK, Requests
<1>6. req[s] # NoRequest
  BY <1>4, NoRequestFacts
<1>7. /\ Reverse(q) \in Seq(Rows) /\ Listed(Reverse(q)) = Listed(q)
      /\ Increasing(q) => Decreasing(Reverse(q))
  BY <1>5, ReverseFacts
<1>8. /\ w \in Seq(Rows) /\ Listed(w) = Listed(q) \cup Listed(allEvents)
      /\ /\ Decreasing(Reverse(q)) /\ Decreasing(allEvents)
         /\ \A r \in Listed(q), t \in Listed(allEvents) : r.id > t.id
         => Decreasing(w)
  BY <1>2, <1>5, <1>7, Concatenated
<1>9. First(w) \in Seq(Rows) /\ Len(First(w)) <= PageSize /\ Listed(First(w)) \subseteq Listed(w)
  BY <1>8, FirstFacts
<1>10. /\ m \in Nat /\ m >= latestEventId /\ \A r \in Listed(q) : r.id <= m
       /\ m = latestEventId \/ \E r \in Listed(q) : r.id = m
  BY <1>3, <1>5, LargestFacts
<1>11. /\ TypeOK' /\ TableInv' /\ SingleInv' /\ ShapeInv'
       /\ LoadInv' /\ PollInv' /\ ClearInv' /\ Calm' = Calm
  BY <1>4, <1>6, <1>9, <1>10, AnsweredTypes
<1>12. PageInv'
  <2> SUFFICES ASSUME Calm PROVE PageInv'
    BY <1>11 DEF PageInv
  <2>1. /\ Increasing(q) /\ KnownRows(Listed(q))
        /\ \A t \in Listed(q) : t.id > latestEventId
        /\ \A r \in uplink_events, u \in Listed(q) :
               latestEventId < r.id /\ r.id <= u.id => r \in Listed(q)
    BY <1>1, <1>4 DEF Inv, PollInv
  <2>2. /\ Decreasing(allEvents) /\ KnownRows(Listed(allEvents))
        /\ latestEventId <= sequence
        /\ \A r \in Listed(allEvents) : r.id <= latestEventId
        /\ \A r \in uplink_events :
               r.id <= latestEventId /\ (\E t \in Listed(allEvents) : t.id < r.id)
                   => r \in Listed(allEvents)
    BY DEF Inv, PageInv
  <2>3. \A t \in Slots : req[t].kind # "clear"
    BY <1>4, <1>6, OnlyRequest, NoRequestFacts DEF Calm
  <2>4. /\ sequence \in Nat /\ sequence' = sequence /\ uplink_events' = uplink_events
        /\ \A r \in uplink_events : r.id \in Nat
    BY <1>4, RowId DEF historyVars, Inv, TypeOK, HistoryTypeOK
  <2>5. \A r \in Listed(w) : r.id \in Nat
    BY <1>8, SequenceFacts, RowId
  <2>6. Decreasing(w)
    BY <1>5, <1>7, <1>8, <2>1, <2>2, <2>5
  <2>7. /\ Decreasing(First(w))
        /\ \A r \in Listed(w), t \in Listed(First(w)) : t.id <= r.id => r \in Listed(First(w))
    BY <1>8, <2>6, FirstDecreasing
  <2>8. KnownRows(Listed(First(w)))
    BY <1>8, <1>9, <2>1, <2>2 DEF KnownRows
  <2>9. KnownRows(Listed(allEvents))'
    <3>1. KnownRows(Listed(First(w)))'
      BY <1>4, <2>3, <2>8, KnownWithoutRequest DEF pastVars
    <3> QED BY <1>4, <3>1 DEF KnownRows, Listed
  <2>10. m <= sequence
    BY <1>10, <2>1, <2>2, <2>4 DEF KnownRows
  <2>11. \A r \in Listed(First(w)) : r.id <= m
    <3>1. \A r \in Listed(q) \cup Listed(allEvents) : r.id <= m
      BY <1>5, <1>8, <1>10, <2>2, <2>5
    <3> QED BY <1>8, <1>9, <3>1
  <2>12. ASSUME NEW r \in uplink_events, NEW t \in Listed(First(w)), r.id <= m, t.id < r.id
         PROVE  r \in Listed(First(w))
    <3>1. t \in Listed(w) /\ t.id \in Nat /\ r.id \in Nat
      BY <1>9, <2>4, <2>5
    <3>2. r \in Listed(w)
      <4>1. CASE latestEventId < r.id
        <5>1. \E u \in Listed(q) : u.id = m
          BY <4>1, <1>5, <1>10, <2>12, <3>1
        <5> QED BY <4>1, <5>1, <1>8, <2>1, <2>12
      <4>2. CASE r.id <= latestEventId
        <5>1. t \notin Listed(q)
          BY <4>2, <1>5, <2>1, <2>12, <3>1
        <5> QED BY <4>2, <5>1, <1>8, <2>2, <2>12, <3>1
      <4> QED BY <4>1, <4>2, <1>5, <3>1
    <3> QED BY <2>7, <2>12, <3>1, <3>2
  <2>13. Listed(allEvents)' = Listed(First(w)) /\ Decreasing(allEvents)'
    BY <1>4, <2>7 DEF Listed, Decreasing
  <2> QED BY <1>4, <2>4, <2>9, <2>10, <2>11, <2>12, <2>13 DEF PageInv
<1> QED BY <1>11, <1>12 DEF Inv

LEMMA ClearAnsweredKeepsInv ==
  ASSUME Inv, NEW s \in Slots, ClearAnswered(s)
  PROVE  Inv'
<1>1. PICK d : d = req[s].dev
  OBVIOUS
<1>2. PICK w \in WithoutNode(d) : allEvents' = w
  BY <1>1 DEF ClearAnswered
<1>3. /\ req[s].kind = "clear" /\ req[s].served
      /\ latestEventId' = latestEventId /\ req' = [req EXCEPT ![s] = NoRequest]
      /\ UNCHANGED <<historyVars, pastVars>>
  BY DEF ClearAnswered
<1>4. allEvents \in Seq(Rows) /\ Len(allEvents) <= PageSize /\ latestEventId \in Nat
  BY DEF Inv, TypeOK
<1>5. req[s] # NoRequest
  BY <1>3, NoRequestFacts
<1>6. /\ w \in Seq(Rows) /\ Len(w) <= Len(allEvents)
      /\ Listed(w) = {r \in Listed(allEvents) : r.dev # d}
      /\ Decreasing(allEvents) => Decreasing(w)
  BY <1>4, WithoutNodeFacts
<1>7. /\ TypeOK' /\ TableInv' /\ SingleInv' /\ ShapeInv'
      /\ LoadInv' /\ PollInv' /\ ClearInv' /\ Calm' = Calm
  <2>1. Len(w) <= PageSize
    BY <1>4, <1>6, FeedAssumption, SequenceFacts
  <2> QED BY <1>2, <1>3, <1>4, <1>5, <1>6, <2>1, AnsweredTypes
<1>8. PageInv'
  <2> SUFFICES ASSUME Calm PROVE PageInv'
    BY <1>7 DEF PageInv
  <2>1. /\ Decreasing(allEvents) /\ KnownRows(Listed(allEvents))
        /\ latestEventId <= sequence
        /\ \A r \in Listed(allEvents) : r.id <= latestEventId
        /\ \A r \in uplink_events :
               r.id <= latestEventId /\ (\E t \in Listed(allEvents) : t.id < r.id)
                   => r \in Listed(allEvents)
    BY DEF Inv, PageInv
  <2>2. \A t \in Slots : req[t].kind = "clear" => t = s
    BY <1>3, <1>5, OnlyRequest, NoRequestFacts DEF Calm
  <2>3. KnownRows(Listed(w))
    BY <1>6, <2>1 DEF KnownRows
  <2>4. KnownRows(Listed(allEvents))'
    <3>1. KnownRows(Listed(w))'
      BY <1>1, <1>3, <1>6, <2>2, <2>3, KnownWithoutRequest DEF pastVars
    <3> QED BY <1>2, <3>1 DEF KnownRows, Listed
  <2>5. \A r \in uplink_events : r.dev = d => r.id > latestEventId
    BY <1>1, <1>3 DEF Inv, ClearInv
  <2>6. \A r \in uplink_events : r.id \in Nat
    BY RowId DEF Inv, TypeOK, HistoryTypeOK
  <2>7. \A r \in uplink_events : r.id <= latestEventId => r.dev # d
    BY <1>4, <2>5, <2>6
  <2>8. sequence' = sequence /\ uplink_events' = uplink_events
    BY <1>3 DEF historyVars
  <2>9. Listed(allEvents)' = Listed(w) /\ Decreasing(allEvents)'
    BY <1>2, <1>6, <2>1 DEF Listed, Decreasing
  <2> QED BY <1>3, <1>6, <2>1, <2>4, <2>7, <2>8, <2>9 DEF PageInv
<1> QED BY <1>7, <1>8 DEF Inv

LEMMA RequestFailsKeepsInv ==
  ASSUME Inv, NEW s \in Slots, RequestFails(s)
  PROVE  Inv'
<1>1. /\ req[s] # NoRequest /\ req' = [req EXCEPT ![s] = NoRequest]
      /\ goneElsewhere' = goneElsewhere \cup
             {allEvents[i].id : i \in {j \in DOMAIN allEvents :
                  req[s].served /\ allEvents[j].dev = req[s].dev}}
      /\ UNCHANGED <<spawned, saving, fcnt_base, uplink_events, sequence,
                     allEvents, latestEventId, opens, deletes, overlapped, wiped>>
  BY DEF RequestFails, historyVars, pageVars
<1>2. /\ DOMAIN allEvents = 1 .. Len(allEvents) /\ Listed(allEvents) \subseteq Rows
      /\ \A i \in 1 .. Len(allEvents) : allEvents[i].id \in Nat
  BY SequenceFacts, RowId DEF Inv, TypeOK
<1>3. /\ goneElsewhere \subseteq goneElsewhere' /\ goneElsewhere' \subseteq Nat
      /\ \A r \in Listed(allEvents) :
             req[s].served /\ r.dev = req[s].dev => r.id \in goneElsewhere'
  BY <1>1, <1>2 DEF Listed, Inv, TypeOK
<1>4. /\ req' \in [Slots -> Requests] /\ \A t \in Slots : Len(req'[t].rows) <= PageSize
      /\ SingleInv' /\ ShapeInv' /\ LoadInv' /\ PollInv' /\ ClearInv'
  BY <1>1, EndedRequest
<1>5. HistoryTypeOK' /\ TableInv'
  BY <1>1 DEF Inv, TypeOK, HistoryTypeOK, TableInv
<1>6. TypeOK'
  BY <1>1, <1>3, <1>4, <1>5 DEF Inv, TypeOK
<1>7. PageInv'
  <2> SUFFICES ASSUME Calm PROVE PageInv'
    BY <1>1 DEF PageInv, Calm
  <2>1. KnownRows(Listed(allEvents))
    BY DEF Inv, PageInv
  <2>2. \A t \in Slots : req[t].kind = "clear" => t = s
    BY <1>1, OnlyRequest, NoRequestFacts DEF Calm
  <2>3. \A r \in Listed(allEvents) : r \in uplink_events \/ r.id \in goneElsewhere'
    BY <1>3, <2>1, <2>2 DEF KnownRows
  <2>4. KnownRows(Listed(allEvents))'
    <3>1. Listed(allEvents)' = Listed(allEvents)
      BY <1>1 DEF Listed
    <3> QED BY <1>1, <2>1, <2>3, <3>1 DEF KnownRows
  <2> QED BY <1>1, <2>4 DEF Inv, PageInv, Calm, Listed, Decreasing
<1> QED BY <1>4, <1>5, <1>6, <1>7 DEF Inv

-----------------------------------------------------------------------------
LEMMA InitInv ==
  ASSUME Init
  PROVE  Inv
<1>1. /\ spawned = 0 /\ saving = {} /\ fcnt_base = [d \in Devs |-> None]
      /\ uplink_events = {} /\ sequence = 0
      /\ allEvents = <<>> /\ latestEventId = 0 /\ req = [s \in Slots |-> NoRequest]
      /\ opens = 0 /\ deletes = 0
      /\ overlapped = FALSE /\ wiped = FALSE /\ goneElsewhere = {}
  BY DEF Init, HistoryInit
<1>2. \A s \in Slots : req[s] = NoRequest
  BY <1>1
<1>3. TypeOK
  <2>1. HistoryTypeOK
    BY <1>1, HistoryAssumption DEF HistoryTypeOK, RawCounters
  <2>2. <<>> \in Seq(Rows) /\ Len(<<>>) <= PageSize
    BY FeedAssumption
  <2>3. req \in [Slots -> Requests] /\ \A s \in Slots : Len(req[s].rows) <= PageSize
    BY <1>1, NoRequestFacts
  <2>4. opens \in 0 .. MaxOpens /\ deletes \in 0 .. MaxDeletes
    BY <1>1, FeedAssumption
  <2>5. {overlapped, wiped} \subseteq BOOLEAN /\ latestEventId \in Nat
    BY <1>1
  <2> QED BY <1>1, <2>1, <2>2, <2>3, <2>4, <2>5 DEF TypeOK
<1>4. TableInv
  BY <1>1, FS_EmptySet DEF TableInv
<1>5. SingleInv
  BY <1>2 DEF SingleInv
<1>6. ShapeInv
  BY <1>2, NoRequestFacts DEF ShapeInv
<1>7. PageInv
  BY <1>1, EmptyFacts DEF PageInv, KnownRows
<1>8. LoadInv /\ PollInv /\ ClearInv
  BY <1>2, NoRequestFacts DEF LoadInv, PollInv, ClearInv
<1> QED BY <1>3, <1>4, <1>5, <1>6, <1>7, <1>8 DEF Inv

LEMMA StepInv ==
  ASSUME Inv, [Next]_vars
  PROVE  Inv'
<1>1. CASE Uplink
  BY <1>1, UplinkKeepsInv
<1>2. CASE DeleteElsewhere
  BY <1>2, DeleteElsewhereKeepsInv
<1>3. ASSUME NEW s \in Slots, OpenPage(s) PROVE Inv'
  BY <1>3, OpenPageKeepsInv
<1>4. ASSUME NEW s \in Slots, PollRecentEvents(s) PROVE Inv'
  BY <1>4, PollRecentEventsKeepsInv
<1>5. ASSUME NEW s \in Slots, NEW d \in Devs, ClearNodeEvents(s, d) PROVE Inv'
  BY <1>5, ClearNodeEventsKeepsInv
<1>6. ASSUME NEW s \in Slots, ServeEvents(s) PROVE Inv'
  BY <1>6, ServeEventsKeepsInv
<1>7. ASSUME NEW s \in Slots, ServeClear(s) PROVE Inv'
  BY <1>7, ServeClearKeepsInv
<1>8. ASSUME NEW s \in Slots, Answered(s) PROVE Inv'
  BY <1>8, LoadAnsweredKeepsInv, PollAnsweredKeepsInv, ClearAnsweredKeepsInv DEF Answered
<1>9. ASSUME NEW s \in Slots, RequestFails(s) PROVE Inv'
  BY <1>9, RequestFailsKeepsInv
<1>10. CASE UNCHANGED vars
  BY <1>10
  DEF vars, historyVars, pageVars, pastVars, Inv, TypeOK, HistoryTypeOK, TableInv, SingleInv,
      ShapeInv, PageInv, LoadInv, PollInv, ClearInv, Calm, KnownRows, Listed, Decreasing,
      Increasing, NoRequest
<1> QED BY <1>1, <1>2, <1>3, <1>4, <1>5, <1>6, <1>7, <1>8, <1>9, <1>10 DEF Next

THEOREM InvHolds == Spec => []Inv
<1>1. Init => Inv
  BY InitInv
<1>2. Inv /\ [Next]_vars => Inv'
  BY StepInv
<1> QED BY <1>1, <1>2, PTL DEF Spec

(* The page's state keeps its types: the page and an answer hold at most   *)
(* PageSize rows.                                                          *)
THEOREM TypeCorrect == Spec => []TypeOK
<1>1. Inv => TypeOK
  BY DEF Inv
<1> QED BY <1>1, InvHolds, PTL

(* While requests do not overlap and the ids go on, the page is in order   *)
(* and lacks no event between the oldest it shows and the last it has seen. *)
THEOREM NothingIsMissing == Spec => []NothingMissing
<1>1. Inv => NothingMissing
  <2> SUFFICES ASSUME Inv, Calm PROVE NothingMissing
    BY DEF NothingMissing, Calm
  <2>1. DOMAIN allEvents = 1 .. Len(allEvents)
    BY SequenceFacts DEF Inv, TypeOK
  <2>2. Shown = Listed(allEvents)
    BY <2>1 DEF Shown, Listed
  <2> QED BY <2>1, <2>2 DEF Inv, PageInv, Decreasing, NothingMissing
<1> QED BY <1>1, InvHolds, PTL

(* And what a page has cleared does not come back to it.                   *)
THEOREM ClearedNodesStayOff == Spec => []ClearedStaysOff
<1>1. Inv => ClearedStaysOff
  <2> SUFFICES ASSUME Inv, Calm PROVE ClearedStaysOff
    BY DEF ClearedStaysOff, Calm
  <2>1. DOMAIN allEvents = 1 .. Len(allEvents)
    BY SequenceFacts DEF Inv, TypeOK
  <2>2. Shown = Listed(allEvents)
    BY <2>1 DEF Shown, Listed
  <2> QED BY <2>2 DEF Inv, PageInv, KnownRows, ClearedStaysOff
<1> QED BY <1>1, InvHolds, PTL

=============================================================================
