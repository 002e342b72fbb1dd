--------------------------- MODULE DashboardMemory ---------------------------
(***************************************************************************)
(* The dashboard process: on_message in the MQTT thread, the save threads  *)
(* and the Flask threads that serve clear-node-events, clear-all-events    *)
(* and reset-node-history.  They share the database of UplinkHistory,      *)
(* _db_lock and the dictionaries and deques kept in memory; on_message     *)
(* uses the latter without the lock.                                       *)
(*                                                                         *)
(* A statement that touches shared memory is an action.  A list            *)
(* comprehension over a deque takes two: it raises RuntimeError when the   *)
(* deque was changed before its end.  events, newest first, is kept as the *)
(* set of its frames: their numbers tell the order.                        *)
(***************************************************************************)
EXTENDS UplinkHistory, Sequences, FiniteSets, Listings

CONSTANTS
    Workers, NoOne,    \* Flask threads; the holder of a free lock
    MaxEvents,         \* events' maxlen (300)
    MapMax,            \* _FCNT_MAP_MAXSIZE (500)
    MaxUplinks,        \* bound: uplinks that arrive
    MaxCalls,          \* bound: calls of the three handlers
    MaxRestarts        \* bound: restarts of the dashboard

ASSUME MemoryAssumption ==
    /\ {MaxEvents, MapMax} \subseteq Nat \ {0}
    /\ {MaxUplinks, MaxCalls, MaxRestarts} \subseteq Nat
    /\ NoOne \notin Workers

VARIABLES
    (* shared memory *)
    lock,              \* _db_lock
    events, last_fcnt, missed_frames,
    fcnt_gateway_map,  \* its keys
    fcnt_gateway_map_keys,
    (* on_message *)
    mpc, dev, raw, prev, tally,
    (* the handlers: control, the call, what the comprehensions have read *)
    pc, op, copy, keyCopy,
    (* history *)
    unsaved,           \* frames whose save failed
    halfDone,          \* did a handler end between the database and memory?
    gaps,              \* frames of a node missed since its tally was cleared
    overtaken,         \* was it cleared between on_message's read and store?
    noSignal,          \* uplinks on_message gave up for want of an RSSI or SNR
    received, calls, restarts

memVars  == <<events, last_fcnt, missed_frames, fcnt_gateway_map,
              fcnt_gateway_map_keys>>
msgVars  == <<mpc, dev, raw, prev, tally>>
copyVars == <<copy, keyCopy>>
callVars == <<pc, op, copyVars>>
tallyPast == <<gaps, overtaken>>
pastVars == <<unsaved, halfDone, tallyPast, noSignal, received, calls, restarts>>
vars == <<historyVars, lock, memVars, msgVars, callVars, pastVars>>

(* clear-node-events and reset-node-history name a node. *)
Ops == [kind : {"node", "reset"}, devs : {{d} : d \in Devs}]
           \cup [kind : {"all", "keep"}, devs : {Devs}]

Keys == [dev : Devs, raw : FCnts]

MemoryTypeOK ==
    /\ events \subseteq Frames /\ Cardinality(events) <= MaxEvents
    /\ last_fcnt \in [Devs -> RawCounters]
    /\ missed_frames \in [Devs -> Nat]
    /\ fcnt_gateway_map \subseteq Keys
    /\ fcnt_gateway_map_keys \in Seq(Keys)
    /\ Len(fcnt_gateway_map_keys) <= MapMax

MessageTypeOK ==
    /\ mpc \in {"idle", "gap", "tally", "last", "key", "evict", "insert",
                "append", "use", "number", "push", "spawn"}
    /\ dev \in Devs \cup {None} /\ raw \in RawCounters /\ prev \in RawCounters
    /\ tally \in Nat

HandlerTypeOK ==
    /\ lock \in Workers \cup {NoOne}
    /\ pc \in [Workers -> {"idle", "erase", "relock", "vacuum", "copyEvents",
                           "filterEvents", "storeEvents", "last", "missed", "pop",
                           "copyKeys", "filterKeys", "storeKeys"}]
    /\ op \in [Workers -> Ops]
    /\ copy \in [Workers -> SUBSET Frames]
    /\ keyCopy \in [Workers -> Seq(Keys)]

PastTypeOK ==
    /\ unsaved \subseteq 1 .. MaxFrames
    /\ halfDone \in BOOLEAN
    /\ gaps \in [Devs -> Nat] /\ overtaken \in [Devs -> BOOLEAN]
    /\ noSignal \in Nat
    /\ received \in 0 .. MaxUplinks
    /\ calls \in 0 .. MaxCalls /\ restarts \in 0 .. MaxRestarts

TypeOK == HistoryTypeOK /\ MemoryTypeOK /\ MessageTypeOK /\ HandlerTypeOK /\ PastTypeOK

NoCall == [kind |-> "all", devs |-> Devs]

Init ==
    /\ HistoryInit
    /\ lock = NoOne /\ events = {}
    /\ last_fcnt = [d \in Devs |-> None]
    /\ missed_frames = [d \in Devs |-> 0]
    /\ fcnt_gateway_map = {} /\ fcnt_gateway_map_keys = <<>>
    /\ mpc = "idle" /\ dev = None /\ raw = None /\ prev = None /\ tally = 0
    /\ pc = [w \in Workers |-> "idle"]
    /\ op = [w \in Workers |-> NoCall]
    /\ copy = [w \in Workers |-> {}]
    /\ keyCopy = [w \in Workers |-> <<>>]
    /\ unsaved = {} /\ halfDone = FALSE
    /\ gaps = [d \in Devs |-> 0] /\ overtaken = [d \in Devs |-> FALSE]
    /\ noSignal = 0
    /\ received = 0 /\ calls = 0 /\ restarts = 0

-----------------------------------------------------------------------------
(* on_message *)

(* Back to the loop, or out of it by an exception and back by start_mqtt. *)
ToLoop ==
    mpc' = "idle" /\ dev' = None /\ raw' = None /\ prev' = None /\ tally' = 0

Goto(label) == mpc' = label /\ UNCHANGED <<dev, raw, prev, tally>>

(* An uplink arrives; a frame without a counter skips the two checks. *)
ReceiveUplink(d, c) ==
    /\ mpc = "idle"
    /\ received < MaxUplinks /\ spawned < MaxFrames
    /\ received' = received + 1
    /\ dev' = d /\ raw' = c
    /\ prev' = IF c = None THEN None ELSE last_fcnt[d]
    /\ mpc' = IF c = None THEN "push" ELSE "gap"
    /\ UNCHANGED <<historyVars, lock, memVars, tally, callVars, unsaved, halfDone,
                   tallyPast, noSignal, calls, restarts>>

Gap == IF prev # None /\ raw > prev + 1 THEN raw - prev - 1 ELSE 0

(* missed_frames[dev_eui] += gap, which a handler may clear in between. *)
ReadTally ==
    /\ mpc = "gap"
    /\ IF Gap > 0
       THEN mpc' = "tally" /\ tally' = missed_frames[dev] + Gap
       ELSE mpc' = "last"  /\ tally' = 0
    /\ prev' = None
    /\ gaps' = [gaps EXCEPT ![dev] = gaps[dev] + Gap]
    /\ UNCHANGED <<historyVars, lock, memVars, dev, raw, callVars, unsaved, halfDone,
                   overtaken, noSignal, received, calls, restarts>>

StoreTally ==
    /\ mpc = "tally"
    /\ missed_frames' = [missed_frames EXCEPT ![dev] = tally]
    /\ mpc' = "last" /\ tally' = 0
    /\ UNCHANGED <<historyVars, lock, events, last_fcnt, fcnt_gateway_map,
                   fcnt_gateway_map_keys, dev, raw, prev, callVars, pastVars>>

SetLast ==
    /\ mpc = "last"
    /\ last_fcnt' = [last_fcnt EXCEPT ![dev] = raw]
    /\ Goto("key")
    /\ UNCHANGED <<historyVars, lock, events, missed_frames, fcnt_gateway_map,
                   fcnt_gateway_map_keys, callVars, pastVars>>

Key == [dev |-> dev, raw |-> raw]

LookUpKey ==
    /\ mpc = "key"
    /\ Goto(IF Key \in fcnt_gateway_map THEN "use"
            ELSE IF Len(fcnt_gateway_map_keys) = MapMax THEN "evict" ELSE "insert")
    /\ UNCHANGED <<historyVars, lock, memVars, callVars, pastVars>>

NothingEvicted(k) == fcnt_gateway_map

Evicted(k) == fcnt_gateway_map \ {k}

(* The deque may have been replaced by an empty one: IndexError. *)
EvictKey ==
    /\ mpc = "evict"
    /\ IF fcnt_gateway_map_keys = <<>>
       THEN ToLoop /\ UNCHANGED fcnt_gateway_map
       ELSE /\ fcnt_gateway_map' = Evicted(Head(fcnt_gateway_map_keys))
            /\ Goto("insert")
    /\ UNCHANGED <<historyVars, lock, events, last_fcnt, missed_frames,
                   fcnt_gateway_map_keys, callVars, pastVars>>

InsertKey ==
    /\ mpc = "insert"
    /\ fcnt_gateway_map' = fcnt_gateway_map \cup {Key}
    /\ Goto("append")
    /\ UNCHANGED <<historyVars, lock, events, last_fcnt, missed_frames,
                   fcnt_gateway_map_keys, callVars, pastVars>>

AppendKey ==
    /\ mpc = "append"
    /\ fcnt_gateway_map_keys' =
           LET ks == Append(fcnt_gateway_map_keys, Key)
           IN  IF Len(ks) > MapMax THEN Tail(ks) ELSE ks
    /\ Goto("use")
    /\ UNCHANGED <<historyVars, lock, events, last_fcnt, missed_frames,
                   fcnt_gateway_map, callVars, pastVars>>

(* The key may be gone again: KeyError.  An uplink with a gateway but no    *)
(* RSSI or SNR has an empty list at [0]: IndexError, and its key stays.     *)
(* Either way the frame is dropped.                                         *)
UseKey ==
    /\ mpc = "use"
    /\ \/ /\ Key \in fcnt_gateway_map /\ Goto("number")
          /\ UNCHANGED noSignal
       \/ /\ Key \in fcnt_gateway_map /\ ToLoop
          /\ noSignal' = noSignal + 1
       \/ /\ Key \notin fcnt_gateway_map /\ ToLoop
          /\ UNCHANGED noSignal
    /\ UNCHANGED <<historyVars, lock, memVars, callVars, unsaved, halfDone, tallyPast,
                   received, calls, restarts>>

(* The number to be printed is read under the lock. *)
ReadNumber ==
    /\ mpc = "number"
    /\ lock = NoOne
    /\ Goto("push") \/ ToLoop
    /\ UNCHANGED <<historyVars, lock, memVars, callVars, pastVars>>

Unlimited(evs) == evs

Newest(evs) ==
    {e \in evs : Cardinality({f \in evs : f.no > e.no}) < MaxEvents}

PushEvent ==
    /\ mpc = "push"
    /\ events' = Newest(events \cup {FrameOf(dev, raw)})
    /\ Goto("spawn")
    /\ UNCHANGED <<historyVars, lock, last_fcnt, missed_frames, fcnt_gateway_map,
                   fcnt_gateway_map_keys, callVars, pastVars>>

StartSave ==
    /\ mpc = "spawn"
    /\ Spawn(dev, raw)
    /\ ToLoop
    /\ UNCHANGED <<lock, memVars, callVars, pastVars>>

OnMessage ==
    \/ ReadTally \/ StoreTally \/ SetLast
    \/ LookUpKey \/ EvictKey \/ InsertKey \/ AppendKey \/ UseKey
    \/ ReadNumber \/ PushEvent \/ StartSave

-----------------------------------------------------------------------------
(* save_event_db *)

SaveThread(f) ==
    /\ lock = NoOne
    /\ \/ Save(f) /\ UNCHANGED unsaved
       \/ SaveFails(f) /\ unsaved' = unsaved \cup {f.no}
    /\ UNCHANGED <<lock, memVars, msgVars, callVars, halfDone, tallyPast, noSignal,
                   received, calls, restarts>>

-----------------------------------------------------------------------------
(* The handlers *)

Step(w, label) == pc' = [pc EXCEPT ![w] = label] /\ UNCHANGED op

Return(w) ==
    /\ pc' = [pc EXCEPT ![w] = "idle"]
    /\ op' = [op EXCEPT ![w] = NoCall]
    /\ copy' = [copy EXCEPT ![w] = {}]
    /\ keyCopy' = [keyCopy EXCEPT ![w] = <<>>]

(* An exception in the locked section: the lock is released, the answer is *)
(* an error, and what is still in memory stays there.                       *)
GiveUp(w) == Return(w) /\ lock' = NoOne /\ halfDone' = TRUE

Call(w, o) ==
    /\ pc[w] = "idle"
    /\ calls < MaxCalls
    /\ calls' = calls + 1
    /\ pc' = [pc EXCEPT ![w] = "erase"]
    /\ op' = [op EXCEPT ![w] = o]
    /\ UNCHANGED <<historyVars, lock, memVars, msgVars, copyVars, unsaved, halfDone,
                   tallyPast, noSignal, received, restarts>>

Erase(o) ==
    \/ o.kind = "node"  /\ \E d \in o.devs : DeleteNode(d)
    \/ o.kind = "reset" /\ \E d \in o.devs : ResetNode(d)
    \/ o.kind \in {"all", "keep"} /\ DeleteAll(o.kind = "keep")

KeepsLock(w) == w

(* _set_node_history_reset has a locked section of its own. *)
LockAfterErase(w) == IF op[w].kind = "reset" THEN NoOne ELSE w

EraseRows(w) ==
    /\ pc[w] = "erase"
    /\ lock = NoOne
    /\ Erase(op[w])
    /\ lock' = LockAfterErase(w)
    /\ Step(w, CASE op[w].kind = "node" -> "copyEvents"
                 [] op[w].kind = "reset" -> "relock"
                 [] OTHER -> "vacuum")
    /\ UNCHANGED <<memVars, msgVars, copyVars, pastVars>>

EraseRowsFails(w) ==
    /\ pc[w] = "erase"
    /\ lock = NoOne
    /\ Return(w)
    /\ UNCHANGED <<historyVars, lock, memVars, msgVars, pastVars>>

Relock(w) ==
    /\ pc[w] = "relock"
    /\ lock = NoOne
    /\ lock' = w
    /\ Step(w, "copyEvents")
    /\ UNCHANGED <<historyVars, memVars, msgVars, copyVars, pastVars>>

(* events is replaced by an empty deque right after VACUUM. *)
Vacuum(w) ==
    /\ pc[w] = "vacuum"
    /\ events' = {}
    /\ Step(w, "last")
    /\ UNCHANGED <<historyVars, lock, last_fcnt, missed_frames, fcnt_gateway_map,
                   fcnt_gateway_map_keys, msgVars, copyVars, pastVars>>

(* The rows are gone: they were committed before VACUUM. *)
VacuumFails(w) ==
    /\ pc[w] = "vacuum"
    /\ GiveUp(w)
    /\ UNCHANGED <<historyVars, memVars, msgVars, unsaved, tallyPast, noSignal,
                   received, calls, restarts>>

CopyEvents(w) ==
    /\ pc[w] = "copyEvents"
    /\ copy' = [copy EXCEPT ![w] = events]
    /\ Step(w, "filterEvents")
    /\ UNCHANGED <<historyVars, lock, memVars, msgVars, keyCopy, pastVars>>

AllOf(entries, devs) == entries

Without(entries, devs) == {e \in entries : e.dev \notin devs}

FilterEvents(w) ==
    /\ pc[w] = "filterEvents"
    /\ \/ /\ copy[w] = events
          /\ copy' = [copy EXCEPT ![w] = Without(events, op[w].devs)]
          /\ Step(w, "storeEvents")
          /\ UNCHANGED <<lock, keyCopy, halfDone>>
       \/ copy[w] # events /\ GiveUp(w)
    /\ UNCHANGED <<historyVars, memVars, msgVars, unsaved, tallyPast, noSignal,
                   received, calls, restarts>>

StoreEvents(w) ==
    /\ pc[w] = "storeEvents"
    /\ events' = copy[w]
    /\ copy' = [copy EXCEPT ![w] = {}]
    /\ Step(w, IF op[w].kind = "reset" THEN "last" ELSE "pop")
    /\ UNCHANGED <<historyVars, lock, last_fcnt, missed_frames, fcnt_gateway_map,
                   fcnt_gateway_map_keys, msgVars, keyCopy, pastVars>>

ClearLast(w) ==
    /\ pc[w] = "last"
    /\ last_fcnt' = [d \in Devs |-> IF d \in op[w].devs THEN None ELSE last_fcnt[d]]
    /\ Step(w, "missed")
    /\ UNCHANGED <<historyVars, lock, events, missed_frames, fcnt_gateway_map,
                   fcnt_gateway_map_keys, msgVars, copyVars, pastVars>>

TallyKept(devs) == missed_frames

Zeroed(devs) == [d \in Devs |-> IF d \in devs THEN 0 ELSE missed_frames[d]]

ClearMissed(w) ==
    /\ pc[w] = "missed"
    /\ missed_frames' = Zeroed(op[w].devs)
    /\ gaps' = [d \in Devs |-> IF d \in op[w].devs THEN 0 ELSE gaps[d]]
    /\ overtaken' = [d \in Devs |-> IF d \in op[w].devs THEN mpc = "tally" /\ dev = d
                                    ELSE overtaken[d]]
    /\ Step(w, "pop")
    /\ UNCHANGED <<historyVars, lock, events, last_fcnt, fcnt_gateway_map,
                   fcnt_gateway_map_keys, msgVars, copyVars, unsaved, halfDone, noSignal,
                   received, calls, restarts>>

PopKeys(w) ==
    /\ pc[w] = "pop"
    /\ fcnt_gateway_map' = {k \in fcnt_gateway_map : k.dev \notin op[w].devs}
    /\ Step(w, IF op[w].kind \in {"all", "keep"} THEN "storeKeys" ELSE "copyKeys")
    /\ UNCHANGED <<historyVars, lock, events, last_fcnt, missed_frames,
                   fcnt_gateway_map_keys, msgVars, copyVars, pastVars>>

CopyKeys(w) ==
    /\ pc[w] = "copyKeys"
    /\ keyCopy' = [keyCopy EXCEPT ![w] = fcnt_gateway_map_keys]
    /\ Step(w, "filterKeys")
    /\ UNCHANGED <<historyVars, lock, memVars, msgVars, copy, pastVars>>

KeysWithout(keys, devs) == Filtered(keys, LAMBDA k : k.dev \notin devs)

FilterKeys(w) ==
    /\ pc[w] = "filterKeys"
    /\ \/ /\ keyCopy[w] = fcnt_gateway_map_keys
          /\ \E ks \in KeysWithout(keyCopy[w], op[w].devs) :
                 keyCopy' = [keyCopy EXCEPT ![w] = ks]
          /\ Step(w, "storeKeys")
          /\ UNCHANGED <<lock, copy, halfDone>>
       \/ keyCopy[w] # fcnt_gateway_map_keys /\ GiveUp(w)
    /\ UNCHANGED <<historyVars, memVars, msgVars, unsaved, tallyPast, noSignal,
                   received, calls, restarts>>

StoreKeys(w) ==
    /\ pc[w] = "storeKeys"
    /\ fcnt_gateway_map_keys' = keyCopy[w]
    /\ Return(w)
    /\ lock' = NoOne
    /\ UNCHANGED <<historyVars, events, last_fcnt, missed_frames, fcnt_gateway_map,
                   msgVars, pastVars>>

Handler(w) ==
    \/ EraseRows(w) \/ EraseRowsFails(w) \/ Relock(w) \/ Vacuum(w) \/ VacuumFails(w)
    \/ CopyEvents(w) \/ FilterEvents(w) \/ StoreEvents(w)
    \/ ClearLast(w) \/ ClearMissed(w) \/ PopKeys(w)
    \/ CopyKeys(w) \/ FilterKeys(w) \/ StoreKeys(w)

-----------------------------------------------------------------------------
(* Only the database is left. *)
Restart ==
    /\ restarts < MaxRestarts
    /\ restarts' = restarts + 1
    /\ EndThreads
    /\ lock' = NoOne /\ events' = {}
    /\ last_fcnt' = [d \in Devs |-> None]
    /\ missed_frames' = [d \in Devs |-> 0]
    /\ fcnt_gateway_map' = {} /\ fcnt_gateway_map_keys' = <<>>
    /\ ToLoop
    /\ pc' = [w \in Workers |-> "idle"]
    /\ op' = [w \in Workers |-> NoCall]
    /\ copy' = [w \in Workers |-> {}]
    /\ keyCopy' = [w \in Workers |-> <<>>]
    /\ halfDone' = FALSE
    /\ gaps' = [d \in Devs |-> 0] /\ overtaken' = [d \in Devs |-> FALSE]
    /\ UNCHANGED <<unsaved, noSignal, received, calls>>

Next ==
    \/ \E d \in Devs, c \in RawCounters : ReceiveUplink(d, c)
    \/ OnMessage
    \/ \E f \in saving : SaveThread(f)
    \/ \E w \in Workers : Handler(w) \/ \E o \in Ops : Call(w, o)
    \/ Restart

Spec == Init /\ [][Next]_vars

-----------------------------------------------------------------------------
(* Properties *)

(* Docstring of api_clear_all_events: memory must not go on showing packets *)
(* whose rows were deleted.  When no handler is at work and none has given  *)
(* up half-way, every event in memory is in the table, is being saved or    *)
(* about to be, or could not be saved.                                      *)
MemoryAgrees ==
    (\A w \in Workers : pc[w] = "idle") /\ ~halfDone =>
        \A e \in events :
            \/ e.no \in {r.no : r \in uplink_events} \cup unsaved
            \/ e \in saving
            \/ mpc = "spawn" /\ e = FrameOf(dev, raw)

(* missed_frames counts the frames that gaps have shown missing since a     *)
(* handler cleared the node's tally or the dashboard started; so does the   *)
(* value on_message is about to store.  It does not when the tally was      *)
(* cleared between that read and its store, which brings it back; then the  *)
(* count is wrong until the tally is cleared again.                         *)
TallyCounts ==
    \A d \in Devs : ~overtaken[d] =>
        gaps[d] = IF mpc = "tally" /\ dev = d THEN tally ELSE missed_frames[d]

Listed == ToSet(fcnt_gateway_map_keys)
              \cup (IF mpc = "append" THEN {Key} ELSE {})

(* Keys of fcnt_gateway_map that its deque does not list are never evicted. *)
(* Each call of a handler strands at most one: it has the lock when it      *)
(* replaces the deque, and on_message needs the lock before its next key,   *)
(* unless it gives the uplink up before: each of those is one key more.     *)
StrandedKeysBounded == Cardinality(fcnt_gateway_map \ Listed) <= calls + noSignal

(* The lock belongs to the handler inside a locked section and to nobody    *)
(* else: two handlers are never inside, and none waits for a lock it has    *)
(* (threading.Lock is not reentrant).                                       *)
LockHeldInside ==
    \A w \in Workers : lock = w <=> pc[w] \notin {"idle", "erase", "relock"}

(* The comment at fcnt_gateway_map: "only the latest 500 keys are kept". *)
MapBounded == Cardinality(fcnt_gateway_map) <= MapMax
=============================================================================
