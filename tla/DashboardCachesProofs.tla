------------------------ MODULE DashboardCachesProofs ------------------------
(***************************************************************************)
(* Theorems about DashboardCaches, for any number of threads, gateways and *)
(* clearings.                                                              *)
(*                                                                         *)
(* SummaryInv bounds the age of the cached answer by that of its time      *)
(* stamp, and by that of a request that has checked the stamp (ServeWait).  *)
(*  The stamp may be that of another thread: StampBound says how    *)
(* far the data can be behind the answer of a thread that is about to set  *)
(* it.  RegistryInv follows one round of the refresh.                      *)
(***************************************************************************)
EXTENDS DashboardCaches, FiniteSetTheorems, TLAPS

-----------------------------------------------------------------------------
ComputeBound == \A t \in Threads : pc[t] # "idle" => result[t].age <= MaxCompute

ServeWait ==
    data # None => \A t \in Threads :
        pc[t] = "serve" => data.age <= TTL + 2 * MaxCompute + result[t].age

StampBound ==
    data # None => \A t \in Threads :
        pc[t] = "stamp" => data.age <= result[t].age + MaxCompute

ServeBound == data # None /\ at < TTL => data.age <= at + 2 * MaxCompute

FreshResults ==
    ~raced => /\ data # None => data.gen >= emptied
              /\ \A t \in Threads : pc[t] \in {"read", "count", "store"} =>
                     result[t].gen >= emptied

SummaryInv == ComputeBound /\ ServeWait /\ StampBound /\ ServeBound /\ FreshResults

ReturnBound ==
    \A g \in Gateways \ registered :
        /\ returns[g] <= 1
        /\ rpc = "merge" /\ g \in new_cache => returns[g] = 0

RoundInv ==
    calm => /\ new_cache = registered
            /\ rpc = "drop" => /\ registered \subseteq chirpstack_gateways
                               /\ chirpstack_gateways \ registered \subseteq keys
                               /\ keys \subseteq chirpstack_gateways
            /\ rpc = "list" => chirpstack_gateways = registered

RegistryInv == ReturnBound /\ RoundInv

IInv == TypeOK /\ SummaryInv /\ RegistryInv

-----------------------------------------------------------------------------
(* What the actions rest on.                                               *)
LEMMA SizeBounded ==
  ASSUME TypeOK
  PROVE  Cardinality(chirpstack_gateways) \in 0 .. Cardinality(Gateways)
<1>1. chirpstack_gateways \in SUBSET Gateways /\ IsFiniteSet(Gateways)
  BY CachesAssumption DEF TypeOK
<1>2. /\ IsFiniteSet(chirpstack_gateways)
      /\ Cardinality(chirpstack_gateways) <= Cardinality(Gateways)
  BY <1>1, FS_Subset
<1> QED
  BY <1>1, <1>2, FS_CardinalityType

(* An answer grows older by one tick at most, and not beyond its type. *)
LEMMA OlderAnswer ==
  ASSUME NEW a \in Answers
  PROVE  /\ Older(a) \in Answers
         /\ Older(a).gen = a.gen
         /\ a.age <= Older(a).age /\ Older(a).age <= a.age + 1
         /\ a.age <= Oldest => Older(a).age = a.age + 1
<1>1. Oldest \in Nat
  BY CachesAssumption DEF Oldest
<1>2. a.age \in 0 .. Oldest + 1 /\ a.gen \in 0 .. MaxClears
  BY DEF Answers
<1>3. Older(a) = IF a.age > Oldest THEN a ELSE [a EXCEPT !.age = @ + 1]
  BY NoneAssumption DEF Older
<1>4. CASE a.age > Oldest
  BY <1>1, <1>2, <1>3, <1>4
<1>5. CASE ~(a.age > Oldest)
  <2>1. Older(a) = [age |-> a.age + 1, gen |-> a.gen]
    BY <1>3, <1>5 DEF Answers
  <2> QED
    BY <2>1, <1>1, <1>2, <1>5, CachesAssumption DEF Answers
<1> QED
  BY <1>4, <1>5

LEMMA InitInv == Init => IInv
<1> SUFFICES ASSUME Init PROVE IInv
  OBVIOUS
<1>1. NoAnswer \in Answers
  BY CachesAssumption DEF NoAnswer, Answers, Oldest
<1>2. Cardinality(Gateways) \in Nat
  BY CachesAssumption, FS_CardinalityType
<1>3. /\ 0 \in 0 .. MaxClears /\ 0 \in 0 .. MaxEdits /\ 0 \in 0 .. Cardinality(Gateways)
      /\ TTL \in 0 .. TTL /\ 0 \in 0 .. 0
  BY <1>2, CachesAssumption
<1>4. TypeOK
  BY <1>1, <1>3 DEF Init, TypeOK
<1>5. SummaryInv
  BY DEF Init, SummaryInv, ComputeBound, ServeWait, StampBound, ServeBound, FreshResults
<1>6. RegistryInv
  BY DEF Init, RegistryInv, ReturnBound, RoundInv
<1> QED
  BY <1>4, <1>5, <1>6 DEF IInv

-----------------------------------------------------------------------------
(* The summary: none of these actions touches the registry.                *)
LEMMA RegistryUntouched ==
  ASSUME RegistryInv, UNCHANGED registryVars
  PROVE  RegistryInv'
BY DEF RegistryInv, registryVars, ReturnBound, RoundInv

LEMMA CheckCacheInv ==
  ASSUME IInv, NEW t \in Threads, CheckCache(t)
  PROVE  IInv'
<1>0. NoAnswer \in Answers
  BY CachesAssumption DEF NoAnswer, Answers, Oldest
<1>1. TypeOK'
  BY <1>0 DEF IInv, TypeOK, CheckCache, clearVars, registryVars
<1>2. /\ MaxCompute \in Nat /\ TTL \in Nat /\ at \in Nat
      /\ data \in Answers /\ data.age \in Nat /\ data.age <= at + 2 * MaxCompute /\ at < TTL
  BY CachesAssumption DEF IInv, TypeOK, Answers, Oldest, CheckCache, Valid, SummaryInv,
      ServeBound
<1>3. data.age <= TTL + 2 * MaxCompute + NoAnswer.age /\ NoAnswer.age <= MaxCompute
  BY <1>2 DEF NoAnswer
<1>4. /\ pc[t] = "idle" /\ pc' = [pc EXCEPT ![t] = "serve"]
      /\ result' = [result EXCEPT ![t] = NoAnswer]
      /\ UNCHANGED <<data, at, emptied, raced>>
  BY DEF CheckCache, clearVars
<1>5. ComputeBound'
  BY <1>3, <1>4 DEF IInv, TypeOK, SummaryInv, ComputeBound
<1>6. ServeWait' /\ StampBound'
  BY <1>3, <1>4 DEF IInv, TypeOK, SummaryInv, ServeWait, StampBound
<1>7. ServeBound' /\ FreshResults'
  BY <1>4 DEF IInv, TypeOK, SummaryInv, ServeBound, FreshResults
<1> QED
  BY <1>1, <1>5, <1>6, <1>7, RegistryUntouched DEF IInv, SummaryInv, CheckCache

LEMMA ServeCacheInv ==
  ASSUME IInv, NEW t \in Threads, ServeCache(t)
  PROVE  IInv'
<1>1. NoAnswer \in Answers
  BY CachesAssumption DEF NoAnswer, Answers, Oldest
<1>2. TypeOK'
  BY <1>1 DEF IInv, TypeOK, ServeCache, clearVars, registryVars
<1>3. SummaryInv'
  BY DEF IInv, TypeOK, ServeCache, clearVars, SummaryInv, ComputeBound, ServeWait,
      StampBound, ServeBound, FreshResults
<1> QED
  BY <1>2, <1>3, RegistryUntouched DEF IInv, ServeCache

LEMMA ReadTableInv ==
  ASSUME IInv, NEW t \in Threads, ReadTable(t)
  PROVE  IInv'
<1>1. [age |-> 0, gen |-> erased] \in Answers
  BY CachesAssumption DEF IInv, TypeOK, Answers, Oldest
<1>2. TypeOK'
  BY <1>1 DEF IInv, TypeOK, ReadTable, clearVars, registryVars
<1>3. SummaryInv'
  BY CachesAssumption DEF IInv, TypeOK, ReadTable, clearVars, SummaryInv, ComputeBound,
      ServeWait, StampBound, ServeBound, FreshResults
<1> QED
  BY <1>2, <1>3, RegistryUntouched DEF IInv, ReadTable

LEMMA BeginCountInv ==
  ASSUME IInv, NEW t \in Threads, BeginCount(t)
  PROVE  IInv'
<1>1. TypeOK'
  BY SizeBounded DEF IInv, TypeOK, BeginCount, clearVars, registryVars
<1>2. SummaryInv'
  BY DEF IInv, TypeOK, BeginCount, clearVars, SummaryInv, ComputeBound, ServeWait, StampBound,
      ServeBound, FreshResults
<1> QED
  BY <1>1, <1>2, RegistryUntouched DEF IInv, BeginCount

LEMMA EndCountInv ==
  ASSUME IInv, NEW t \in Threads, EndCount(t)
  PROVE  IInv'
<1>1. NoAnswer \in Answers /\ Cardinality(Gateways) \in Nat
  BY CachesAssumption, FS_CardinalityType DEF NoAnswer, Answers, Oldest
<1>2. TypeOK'
  BY <1>1 DEF IInv, TypeOK, EndCount, clearVars, registryVars
<1>3. SummaryInv'
  BY DEF IInv, TypeOK, EndCount, clearVars, SummaryInv, ComputeBound, ServeWait, StampBound,
      ServeBound, FreshResults
<1> QED
  BY <1>2, <1>3, RegistryUntouched DEF IInv, EndCount

(* The data is as old as the answer it is copied from, and every thread    *)
(* about to set the time stamp holds an answer younger than MaxCompute.    *)
LEMMA StoreDataInv ==
  ASSUME IInv, NEW t \in Threads, StoreData(t)
  PROVE  IInv'
<1>1. TypeOK'
  BY DEF IInv, TypeOK, StoreData, clearVars, registryVars
<1>2. /\ \A u \in Threads : result[u].age \in Nat /\ result[u].gen \in Nat
      /\ MaxCompute \in Nat /\ at \in Nat /\ pc[t] = "store"
      /\ data' = result[t] /\ result[t].age <= MaxCompute
      /\ pc' = [pc EXCEPT ![t] = "stamp"]
      /\ UNCHANGED <<at, result, emptied, raced>>
  BY CachesAssumption DEF IInv, TypeOK, Answers, Oldest, StoreData, SummaryInv,
      ComputeBound, clearVars
<1>3. ComputeBound' /\ ServeBound' /\ FreshResults'
  BY <1>2 DEF IInv, TypeOK, SummaryInv, ComputeBound, ServeBound, FreshResults
<1>4. StampBound'
  BY <1>2 DEF IInv, TypeOK, StampBound
<1>5. ServeWait'
  <2>1. TTL \in Nat
    BY CachesAssumption
  <2> QED BY <1>2, <2>1 DEF IInv, TypeOK, ServeWait
<1> QED
  BY <1>1, <1>3, <1>4, <1>5, RegistryUntouched DEF IInv, SummaryInv, StoreData

LEMMA StoreTimeInv ==
  ASSUME IInv, NEW t \in Threads, StoreTime(t)
  PROVE  IInv'
<1>1. NoAnswer \in Answers /\ TTL \in Nat
  BY CachesAssumption DEF NoAnswer, Answers, Oldest
<1>2. TypeOK'
  BY <1>1 DEF IInv, TypeOK, StoreTime, clearVars, registryVars
<1>3. /\ result[t].age \in Nat /\ result[t].age <= MaxCompute
      /\ data # None => data.age \in Nat /\ data.age <= result[t].age + MaxCompute
      /\ MaxCompute \in Nat
  BY CachesAssumption DEF IInv, TypeOK, Answers, Oldest, StoreTime, SummaryInv,
      ComputeBound, ServeWait, StampBound
<1>4. SummaryInv'
  BY <1>3 DEF IInv, TypeOK, StoreTime, clearVars, SummaryInv, ComputeBound, ServeWait, StampBound,
      ServeBound, FreshResults
<1> QED
  BY <1>2, <1>4, RegistryUntouched DEF IInv, StoreTime

LEMMA EraseRowsInv == IInv /\ EraseRows => IInv'
<1> SUFFICES ASSUME IInv, EraseRows PROVE IInv'
  OBVIOUS
<1>1. TypeOK'
  <2>1. /\ erased \in Nat /\ MaxClears \in Nat /\ erased < MaxClears /\ erased' = erased + 1
        /\ emptying \subseteq 1 .. erased /\ emptied \in 0 .. erased
        /\ emptying' \subseteq emptying \cup {erased + 1}
    BY CachesAssumption DEF IInv, TypeOK, EraseRows
  <2>2. erased' \in 0 .. MaxClears /\ emptied \in 0 .. erased'
    BY <2>1
  <2>3. emptying' \subseteq 1 .. erased'
    BY <2>1
  <2> QED
    BY <2>2, <2>3 DEF IInv, TypeOK, EraseRows, registryVars
<1>2. SummaryInv'
  BY DEF IInv, EraseRows, SummaryInv, ComputeBound, ServeWait, StampBound,
      ServeBound, FreshResults
<1> QED
  BY <1>1, <1>2, RegistryUntouched DEF IInv, EraseRows

(* Unless an older answer is under way, none survives the deletion. *)
LEMMA EmptyCacheInv ==
  ASSUME IInv, NEW n \in 1 .. MaxClears, EmptyCache(n)
  PROVE  IInv'
<1>1. TypeOK'
  <2>1. /\ n \in emptying /\ emptying \subseteq 1 .. erased /\ emptied \in 0 .. erased
        /\ erased \in Nat /\ emptied' \in {n, emptied} /\ emptying' \subseteq emptying
    BY CachesAssumption DEF IInv, TypeOK, EmptyCache, MayEmpty
  <2>2. emptied' \in 0 .. erased
    BY <2>1
  <2>3. raced' \in BOOLEAN
    BY DEF IInv, TypeOK, EmptyCache
  <2> QED
    BY <2>1, <2>2, <2>3 DEF IInv, TypeOK, EmptyCache, Emptied, registryVars
<1>2. \A t \in Threads : result[t].gen \in Nat
  BY CachesAssumption DEF IInv, TypeOK, Answers
<1>3. FreshResults'
  <2> SUFFICES ASSUME ~raced', NEW t \in Threads, pc[t] \in {"read", "count", "store"}
               PROVE  result[t].gen >= emptied'
    BY Zenon DEF EmptyCache, Emptied, FreshResults
  <2>1. ~(result[t].gen < n) /\ ~raced
    BY Zenon DEF EmptyCache
  <2>2. result[t].gen >= emptied
    BY <2>1 DEF IInv, SummaryInv, FreshResults
  <2>3. emptied' = n \/ emptied' = emptied
    BY DEF EmptyCache
  <2> QED
    BY <2>1, <2>2, <2>3, <1>2
<1>4. SummaryInv'
  BY <1>3 DEF IInv, EmptyCache, Emptied, SummaryInv, ComputeBound, ServeWait, StampBound,
      ServeBound
<1> QED
  BY <1>1, <1>4, RegistryUntouched DEF IInv, EmptyCache

(* A tick ages data, answers and time stamp alike, and none is under way   *)
(* for longer than MaxCompute.                                             *)
LEMMA TickInv == IInv /\ Tick => IInv'
<1> SUFFICES ASSUME IInv, Tick PROVE IInv'
  OBVIOUS
<1>1. /\ TTL \in Nat /\ MaxCompute \in Nat /\ at \in 0 .. TTL
      /\ Oldest \in Nat /\ MaxCompute <= Oldest /\ TTL + 3 * MaxCompute <= Oldest
  BY CachesAssumption DEF IInv, TypeOK, Oldest
<1>2. \A a \in Answers : a.age \in Nat /\ a.gen \in Nat
  BY CachesAssumption DEF Answers, Oldest
<1>3. /\ data' = Older(data) /\ UNCHANGED <<pc, emptied, raced>>
      /\ at' = IF at < TTL THEN at + 1 ELSE at
      /\ \A t \in Threads : /\ result[t] \in Answers
                            /\ result'[t] = IF pc[t] = "idle" THEN result[t]
                                                             ELSE Older(result[t])
      /\ \A t \in Threads : pc[t] # "idle" => result[t].age < MaxCompute
  BY DEF IInv, TypeOK, Tick, clearVars
<1>4. \A t \in Threads : pc[t] # "idle" => /\ result'[t].age = result[t].age + 1
                                           /\ result'[t].gen = result[t].gen
  BY <1>1, <1>2, <1>3, OlderAnswer
<1>5. /\ data = None => data' = None
      /\ data # None => /\ data \in Answers /\ data' \in Answers
                        /\ data'.gen = data.gen /\ data'.age <= data.age + 1
  BY <1>3, OlderAnswer DEF IInv, TypeOK, Older
<1>6. TypeOK'
  <2>1. result' \in [Threads -> Answers]
    BY <1>3, OlderAnswer DEF IInv, TypeOK, Tick
  <2>2. at' \in 0 .. TTL
    BY <1>1, <1>3
  <2> QED
    BY <1>5, <2>1, <2>2 DEF IInv, TypeOK, Tick, clearVars, registryVars
<1>7. ComputeBound'
  BY <1>1, <1>2, <1>3, <1>4 DEF ComputeBound
<1>8. StampBound'
  BY <1>1, <1>2, <1>3, <1>4, <1>5 DEF IInv, SummaryInv, StampBound
<1>11. ServeWait'
  BY <1>1, <1>2, <1>3, <1>4, <1>5 DEF IInv, SummaryInv, ServeWait
<1>9. ServeBound'
  BY <1>1, <1>2, <1>3, <1>5 DEF IInv, SummaryInv, ServeBound
<1>10. FreshResults'
  BY <1>3, <1>4, <1>5 DEF IInv, SummaryInv, FreshResults
<1> QED
  BY <1>6, <1>7, <1>8, <1>9, <1>10, <1>11, RegistryUntouched DEF IInv, SummaryInv, Tick

-----------------------------------------------------------------------------
(* The registry: none of these actions touches the summary.                *)
LEMMA SummaryUntouched ==
  ASSUME SummaryInv, UNCHANGED summaryVars
  PROVE  SummaryInv'
BY DEF SummaryInv, summaryVars, clearVars, ComputeBound, ServeWait, StampBound, ServeBound, FreshResults

(* The list that is read now holds no deleted gateway. *)
LEMMA ReadListInv == IInv /\ ReadList => IInv'
<1> SUFFICES ASSUME IInv, ReadList PROVE IInv'
  OBVIOUS
<1>1. TypeOK'
  BY DEF IInv, TypeOK, ReadList, Listed, summaryVars, clearVars
<1>2. RegistryInv'
  BY DEF IInv, ReadList, Listed, RegistryInv, ReturnBound, RoundInv
<1> QED
  BY <1>1, <1>2, SummaryUntouched DEF IInv, ReadList

(* A deleted gateway that is put back was not put back before. *)
LEMMA MergeListInv == IInv /\ MergeList => IInv'
<1> SUFFICES ASSUME IInv, MergeList PROVE IInv'
  OBVIOUS
<1>1. TypeOK'
  BY DEF IInv, TypeOK, MergeList, summaryVars, clearVars
<1>2. ReturnBound'
  BY DEF IInv, TypeOK, MergeList, RegistryInv, ReturnBound
<1>3. RoundInv'
  BY DEF IInv, MergeList, RegistryInv, RoundInv
<1> QED
  BY <1>1, <1>2, <1>3, SummaryUntouched DEF IInv, MergeList, RegistryInv

LEMMA DropKeyInv ==
  ASSUME IInv, NEW g \in Gateways, DropKey(g)
  PROVE  IInv'
<1>1. TypeOK'
  BY DEF IInv, TypeOK, DropKey, Vanished, summaryVars, clearVars
<1>2. RegistryInv'
  BY DEF IInv, DropKey, Vanished, RegistryInv, ReturnBound, RoundInv
<1> QED
  BY <1>1, <1>2, SummaryUntouched DEF IInv, DropKey

LEMMA RoundEndsInv == IInv /\ RoundEnds => IInv'
<1> SUFFICES ASSUME IInv, RoundEnds PROVE IInv'
  OBVIOUS
<1>1. TypeOK'
  BY DEF IInv, TypeOK, RoundEnds, summaryVars, clearVars
<1>2. RegistryInv'
  BY DEF IInv, RoundEnds, RegistryInv, ReturnBound, RoundInv
<1> QED
  BY <1>1, <1>2, SummaryUntouched DEF IInv, RoundEnds

LEMMA EditedType ==
  ASSUME TypeOK, NEW g \in Gateways, Edited(g)
  PROVE  /\ edits' \in 0 .. MaxEdits /\ calm' \in BOOLEAN
         /\ returns' \in [Gateways -> Nat]
<1>1. edits \in 0 .. MaxEdits /\ edits < MaxEdits /\ edits' = edits + 1 /\ MaxEdits \in Nat
  BY CachesAssumption DEF TypeOK, Edited
<1>2. edits' \in 0 .. MaxEdits
  BY <1>1
<1> QED
  BY <1>2 DEF TypeOK, Edited

LEMMA RegisterGatewayInv ==
  ASSUME IInv, NEW g \in Gateways, RegisterGateway(g)
  PROVE  IInv'
<1>1. TypeOK'
  BY EditedType DEF IInv, TypeOK, RegisterGateway, summaryVars, clearVars
<1>2. RegistryInv'
  BY DEF IInv, TypeOK, RegisterGateway, Edited, RegistryInv, ReturnBound, RoundInv
<1> QED
  BY <1>1, <1>2, SummaryUntouched DEF IInv, RegisterGateway

LEMMA DeleteGatewayInv ==
  ASSUME IInv, NEW g \in Gateways, DeleteGateway(g)
  PROVE  IInv'
<1>1. TypeOK'
  BY EditedType DEF IInv, TypeOK, DeleteGateway, summaryVars, clearVars
<1>2. RegistryInv'
  BY DEF IInv, TypeOK, DeleteGateway, Edited, RegistryInv, ReturnBound, RoundInv
<1> QED
  BY <1>1, <1>2, SummaryUntouched DEF IInv, DeleteGateway

LEMMA PopGatewayInv == IInv /\ PopGateway => IInv'
<1> SUFFICES ASSUME IInv, PopGateway PROVE IInv'
  OBVIOUS
<1>1. TypeOK'
  BY DEF IInv, TypeOK, PopGateway, summaryVars, clearVars
<1>2. RegistryInv'
  BY DEF IInv, PopGateway, RegistryInv, ReturnBound, RoundInv
<1> QED
  BY <1>1, <1>2, SummaryUntouched DEF IInv, PopGateway

-----------------------------------------------------------------------------
LEMMA StepInv == IInv /\ [Next]_vars => IInv'
<1> SUFFICES ASSUME IInv, [Next]_vars PROVE IInv'
  OBVIOUS
<1>1. CASE UNCHANGED vars
  BY <1>1, RegistryUntouched, SummaryUntouched
     DEF IInv, vars, summaryVars, clearVars, registryVars, TypeOK
<1>2. CASE \E t \in Threads : \/ CheckCache(t) \/ ServeCache(t)
                              \/ ReadTable(t) \/ BeginCount(t) \/ EndCount(t)
                              \/ StoreData(t) \/ StoreTime(t)
  BY <1>2, CheckCacheInv, ServeCacheInv, ReadTableInv, BeginCountInv, EndCountInv, StoreDataInv, StoreTimeInv
<1>3. CASE EraseRows \/ (\E n \in 1 .. MaxClears : EmptyCache(n)) \/ Tick
  BY <1>3, EraseRowsInv, EmptyCacheInv, TickInv
<1>4. CASE ReadList \/ MergeList \/ (\E g \in Gateways : DropKey(g)) \/ RoundEnds
  BY <1>4, ReadListInv, MergeListInv, DropKeyInv, RoundEndsInv
<1>5. CASE \E g \in Gateways : RegisterGateway(g) \/ DeleteGateway(g)
  BY <1>5, RegisterGatewayInv, DeleteGatewayInv
<1>6. CASE PopGateway
  BY <1>6, PopGatewayInv
<1> QED
  BY <1>1, <1>2, <1>3, <1>4, <1>5, <1>6 DEF Next

(* The invariant IInv holds of every behaviour of the two caches. *)
THEOREM CachesInvariance == Spec => []IInv
<1> QED
  BY InitInv, StepInv, PTL DEF Spec

(* Every variable keeps its type, for any threads, gateways and bounds. *)
THEOREM CachesTypeCorrect == Spec => []TypeOK
<1>1. IInv => TypeOK
  BY DEF IInv
<1> QED
  BY <1>1, CachesInvariance, PTL

(* api_summary serves no answer older than the life time of the cache and  *)
(* three computations, whichever threads store data and time stamp.        *)
THEOREM AgeBounded == Spec => []ServedIsRecent
<1>1. IInv => ServedIsRecent
  <2> SUFFICES ASSUME IInv, data # None, NEW t \in Threads, pc[t] = "serve"
               PROVE  data.age <= Oldest
    BY DEF ServedIsRecent, Serving
  <2>1. /\ data \in Answers /\ result[t] \in Answers
        /\ data.age <= TTL + 2 * MaxCompute + result[t].age /\ result[t].age <= MaxCompute
    BY DEF IInv, TypeOK, SummaryInv, ServeWait, ComputeBound
  <2>2. /\ data.age \in Nat /\ result[t].age \in Nat /\ TTL \in Nat /\ MaxCompute \in Nat
        /\ Oldest = TTL + 3 * MaxCompute
    BY <2>1, CachesAssumption DEF Answers, Oldest
  <2> QED
    BY <2>1, <2>2
<1> QED
  BY <1>1, CachesInvariance, PTL

(* What was computed before a deletion is not served once its handler has  *)
(* emptied the cache, unless it was being computed when it did.            *)
THEOREM NothingOldServed == Spec => []ClearedNotServed
<1>1. IInv => ClearedNotServed
  BY DEF IInv, SummaryInv, FreshResults, ClearedNotServed, Serving
<1> QED
  BY <1>1, CachesInvariance, PTL

(* The refresh puts a deleted gateway back once at most. *)
THEOREM OneReturn == Spec => []ReturnsAtMostOnce
<1>1. IInv => ReturnsAtMostOnce
  BY DEF IInv, RegistryInv, ReturnBound, ReturnsAtMostOnce
<1> QED
  BY <1>1, CachesInvariance, PTL

(* An undisturbed round leaves the dashboard with ChirpStack's list. *)
THEOREM RoundSettles == Spec => []QuietRoundSettles
<1>1. IInv => QuietRoundSettles
  BY DEF IInv, RegistryInv, RoundInv, QuietRoundSettles
<1> QED
  BY <1>1, CachesInvariance, PTL
=============================================================================
