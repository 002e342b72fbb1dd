--------------------------- MODULE DashboardCaches ---------------------------
(***************************************************************************)
(* Two copies the dashboard keeps without a lock.  _summary_cache holds    *)
(* the last answer of api_summary for TTL ticks; two of the handlers that  *)
(* delete rows of the event table empty it.  chirpstack_gateways holds     *)
(* ChirpStack's list of gateways; a thread reads it anew every 30 s, and   *)
(* the handler that deletes a gateway takes it out at once.  api_summary   *)
(* counts the latter for the former.                                       *)
(*                                                                         *)
(* Time is kept as ages.  An answer takes at most MaxCompute ticks from    *)
(* its first SELECT to its last assignment, or from the check of the cache *)
(* to the answer from it: an assumption about the load.                    *)
(***************************************************************************)
EXTENDS Integers, FiniteSets

CONSTANTS
    Threads,        \* Flask threads in api_summary
    Gateways,
    None,           \* no data; no gateway being deleted
    TTL,            \* _SUMMARY_CACHE_TTL
    MaxCompute,
    MaxClears,      \* bound: deletions of rows
    MaxEdits        \* bound: gateways registered and deleted

ASSUME CachesAssumption ==
    /\ TTL \in Nat \ {0}
    /\ {MaxCompute, MaxClears, MaxEdits} \subseteq Nat
    /\ IsFiniteSet(Gateways)
    /\ None \notin Gateways

VARIABLES
    data, at,       \* _summary_cache: the answer, the age of its time stamp
    pc, result, size,   \* api_summary: the answer being computed; len(dict)
    erased,         \* deletions of rows committed
    emptying,       \* those whose handler has yet to empty the cache
    registered,     \* ChirpStack's gateways
    chirpstack_gateways,
    rpc, new_cache, keys,   \* fetch_chirpstack_gateways
    deleting,       \* api_delete_gateway between its two steps
    (* history *)
    emptied,        \* the last of those whose handler has emptied the cache
    raced,          \* was an older answer under way when it did?
    returns,        \* times a gateway was put back since it was deleted
    calm,           \* no gateway edited since the list was read?
    edits

clearVars    == <<erased, emptying, emptied, raced>>
summaryVars  == <<data, at, pc, result, size, clearVars>>
registryVars == <<registered, chirpstack_gateways, rpc, new_cache, keys, deleting,
                  returns, calm, edits>>
vars == <<summaryVars, registryVars>>

Oldest == TTL + 3 * MaxCompute

(* What an answer tells: how long ago the table was read, and after how    *)
(* many deletions.                                                         *)
Answers == [age : 0 .. Oldest + 1, gen : 0 .. MaxClears]

ASSUME NoneAssumption == None \notin Answers

TypeOK ==
    /\ data \in Answers \cup {None} /\ at \in 0 .. TTL
    /\ pc \in [Threads -> {"idle", "serve", "read", "count", "store", "stamp"}]
    /\ result \in [Threads -> Answers]
    /\ size \in [Threads -> 0 .. Cardinality(Gateways)]
    /\ erased \in 0 .. MaxClears /\ emptying \subseteq 1 .. erased /\ emptied \in 0 .. erased
    /\ {registered, chirpstack_gateways, new_cache, keys} \subseteq SUBSET Gateways
    /\ rpc \in {"list", "merge", "drop"}
    /\ deleting \in Gateways \cup {None}
    /\ returns \in [Gateways -> Nat]
    /\ raced \in BOOLEAN /\ calm \in BOOLEAN /\ edits \in 0 .. MaxEdits

NoAnswer == [age |-> 0, gen |-> 0]

Init ==
    /\ data = None /\ at = TTL
    /\ pc = [t \in Threads |-> "idle"]
    /\ result = [t \in Threads |-> NoAnswer]
    /\ size = [t \in Threads |-> 0]
    /\ erased = 0 /\ emptying = {} /\ emptied = 0 /\ raced = FALSE
    /\ registered \in SUBSET Gateways
    /\ chirpstack_gateways = {} /\ rpc = "list" /\ new_cache = {} /\ keys = {}
    /\ deleting = None
    /\ returns = [g \in Gateways |-> 0] /\ calm = FALSE /\ edits = 0

-----------------------------------------------------------------------------
(* api_summary.                                                            *)
AlwaysValid == data # None

Valid == data # None /\ at < TTL

CheckCache(t) ==
    /\ pc[t] = "idle" /\ Valid
    /\ pc' = [pc EXCEPT ![t] = "serve"]
    /\ result' = [result EXCEPT ![t] = NoAnswer]
    /\ UNCHANGED <<data, at, size, clearVars, registryVars>>

(* The dictionary is read again: the answer is null if it was emptied since. *)
ServeCache(t) ==
    /\ pc[t] = "serve"
    /\ pc' = [pc EXCEPT ![t] = "idle"]
    /\ result' = [result EXCEPT ![t] = NoAnswer]
    /\ UNCHANGED <<data, at, size, clearVars, registryVars>>

ReadTable(t) ==
    /\ pc[t] = "idle" /\ ~Valid
    /\ result' = [result EXCEPT ![t] = [age |-> 0, gen |-> erased]]
    /\ pc' = [pc EXCEPT ![t] = "read"]
    /\ UNCHANGED <<data, at, size, clearVars, registryVars>>

BeginCount(t) ==
    /\ pc[t] = "read"
    /\ size' = [size EXCEPT ![t] = Cardinality(chirpstack_gateways)]
    /\ pc' = [pc EXCEPT ![t] = "count"]
    /\ UNCHANGED <<data, at, result, clearVars, registryVars>>

(* Iterating over a dictionary whose size has changed raises RuntimeError. *)
EndCount(t) ==
    /\ pc[t] = "count"
    /\ IF size[t] = Cardinality(chirpstack_gateways)
       THEN pc' = [pc EXCEPT ![t] = "store"] /\ UNCHANGED result
       ELSE /\ pc' = [pc EXCEPT ![t] = "idle"]
            /\ result' = [result EXCEPT ![t] = NoAnswer]
    /\ size' = [size EXCEPT ![t] = 0]
    /\ UNCHANGED <<data, at, clearVars, registryVars>>

StoreData(t) ==
    /\ pc[t] = "store"
    /\ data' = result[t]
    /\ pc' = [pc EXCEPT ![t] = "stamp"]
    /\ UNCHANGED <<at, result, size, clearVars, registryVars>>

StoreTime(t) ==
    /\ pc[t] = "stamp"
    /\ at' = 0
    /\ pc' = [pc EXCEPT ![t] = "idle"]
    /\ result' = [result EXCEPT ![t] = NoAnswer]
    /\ UNCHANGED <<data, size, clearVars, registryVars>>

(* The handlers delete rows under _db_lock; clear-node-events and           *)
(* clear-all-events then empty the cache, without it.  reset-node-history   *)
(* does not, nor a handler that fails after its commit.                     *)
EraseRows ==
    /\ erased < MaxClears
    /\ erased' = erased + 1
    /\ emptying' \in {emptying, emptying \cup {erased + 1}}
    /\ UNCHANGED <<data, at, pc, result, size, emptied, raced, registryVars>>

EmptiesFirst(n) == n \in 1 .. erased + 1

MayEmpty(n) == n \in emptying

Kept == data

Emptied == None

EmptyCache(n) ==
    /\ MayEmpty(n)
    /\ data' = Emptied
    /\ emptying' = emptying \ {n}
    /\ emptied' = IF n > emptied THEN n ELSE emptied
    /\ raced' = (raced \/ \E t \in Threads : /\ pc[t] \in {"read", "count", "store"}
                                             /\ result[t].gen < n)
    /\ UNCHANGED <<at, pc, result, size, erased, registryVars>>

Older(a) == IF a = None \/ a.age > Oldest THEN a ELSE [a EXCEPT !.age = @ + 1]

Tick ==
    /\ \A t \in Threads : pc[t] # "idle" => result[t].age < MaxCompute
    /\ at' = IF at < TTL THEN at + 1 ELSE at
    /\ data' = Older(data)
    /\ result' = [t \in Threads |-> IF pc[t] = "idle" THEN result[t]
                                                      ELSE Older(result[t])]
    /\ UNCHANGED <<pc, size, clearVars, registryVars>>

-----------------------------------------------------------------------------
(* The list of gateways.                                                   *)
ListedToo == registered \cup new_cache

Listed == registered

ReadList ==
    /\ rpc = "list"
    /\ new_cache' = Listed
    /\ rpc' = "merge" /\ calm' = TRUE
    /\ UNCHANGED <<registered, chirpstack_gateways, keys, deleting, returns, edits,
                   summaryVars>>

MergeList ==
    /\ rpc = "merge"
    /\ chirpstack_gateways' = chirpstack_gateways \cup new_cache
    /\ keys' = chirpstack_gateways'
    /\ returns' = [g \in Gateways |->
           IF g \in new_cache \ (registered \cup chirpstack_gateways)
           THEN returns[g] + 1 ELSE returns[g]]
    /\ rpc' = "drop"
    /\ UNCHANGED <<registered, new_cache, deleting, calm, edits, summaryVars>>

NothingVanished(g) == {}

Vanished(g) == {g} \ new_cache

(* del raises KeyError for a key that the handler has taken out meanwhile: *)
(* the round ends, and the keys after it stay until the next.              *)
DropKey(g) ==
    /\ rpc = "drop" /\ g \in keys
    /\ keys' = IF g \in new_cache \cup chirpstack_gateways THEN keys \ {g} ELSE {}
    /\ chirpstack_gateways' = chirpstack_gateways \ Vanished(g)
    /\ UNCHANGED <<registered, rpc, new_cache, deleting, returns, calm, edits,
                   summaryVars>>

RoundEnds ==
    /\ rpc = "drop" /\ keys = {}
    /\ rpc' = "list"
    /\ UNCHANGED <<registered, chirpstack_gateways, new_cache, keys, deleting,
                   returns, calm, edits, summaryVars>>

Edited(g) ==
    /\ edits < MaxEdits /\ edits' = edits + 1
    /\ calm' = FALSE
    /\ returns' = [returns EXCEPT ![g] = 0]

(* api_register_gateway, or ChirpStack's own pages.                        *)
RegisterGateway(g) ==
    /\ g \notin registered /\ Edited(g)
    /\ registered' = registered \cup {g}
    /\ UNCHANGED <<chirpstack_gateways, rpc, new_cache, keys, deleting, summaryVars>>

DeleteGateway(g) ==
    /\ g \in registered /\ Edited(g)
    /\ registered' = registered \ {g}
    /\ deleting' \in {deleting} \cup (IF deleting = None THEN {g} ELSE {})
    /\ UNCHANGED <<chirpstack_gateways, rpc, new_cache, keys, summaryVars>>

PopGateway ==
    /\ deleting # None
    /\ chirpstack_gateways' = chirpstack_gateways \ {deleting}
    /\ deleting' = None /\ calm' = FALSE
    /\ UNCHANGED <<registered, rpc, new_cache, keys, returns, edits, summaryVars>>

Next ==
    \/ \E t \in Threads :
           \/ CheckCache(t) \/ ServeCache(t)
           \/ ReadTable(t) \/ BeginCount(t) \/ EndCount(t)
           \/ StoreData(t) \/ StoreTime(t)
    \/ EraseRows \/ (\E n \in 1 .. MaxClears : EmptyCache(n)) \/ Tick
    \/ ReadList \/ MergeList \/ (\E g \in Gateways : DropKey(g)) \/ RoundEnds
    \/ \E g \in Gateways : RegisterGateway(g) \/ DeleteGateway(g)
    \/ PopGateway

Spec == Init /\ [][Next]_vars

-----------------------------------------------------------------------------
(* An answer served from the cache was read from the table at most TTL     *)
(* and three computations ago.  One is not enough: the data of one thread  *)
(* may be followed by the time stamp of another, data and at are two       *)
(* assignments, and the cache is checked and read in two steps.            *)
Serving == data # None /\ \E t \in Threads : pc[t] = "serve"

ServedIsRecent == Serving => data.age <= Oldest

(* Once a handler has emptied the cache it serves no answer from before    *)
(* that handler's deletion, unless a request was computing one when the    *)
(* cache was emptied: what that request stores is served until it is Oldest.*)
(* A deletion whose handler does not empty the cache promises nothing.     *)
ClearedNotServed == Serving /\ ~raced => data.gen >= emptied

(* A deleted gateway comes back at most once, by a list that was read      *)
(* before it was deleted.                                                  *)
ReturnsAtMostOnce == \A g \in Gateways \ registered : returns[g] <= 1

(* A round during which nobody edits leaves the copy equal to ChirpStack's *)
(* list.                                                                   *)
QuietRoundSettles ==
    rpc = "list" /\ calm => chirpstack_gateways = registered
=============================================================================
