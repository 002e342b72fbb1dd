------------------------ MODULE DashboardMemoryProofs ------------------------
(***************************************************************************)
(* Proofs about UplinkHistory and DashboardMemory, for any sets of nodes,  *)
(* counters and Flask threads and any bounds: what the table shows under   *)
(* every order of saves and deletions, that the dashboard's threads use    *)
(* the database as UplinkHistory says, the lock discipline, that a tally   *)
(* counts the frames missed since it was cleared unless the clearing was   *)
(* overtaken, that memory agrees with the table, and that a call, or an    *)
(* uplink given up half-way, leaves at most one key behind in the gateway  *)
(* map without its entry in the deque.                                     *)
(***************************************************************************)
EXTENDS DashboardMemory, FiniteSetTheorems, WellFoundedInduction, TLAPS

(* The base of a node lies at or below the counter from which each of its   *)
(* rows was counted: it has only moved down since.                          *)
BaseBelowRows ==
    \A r \in uplink_events : r.raw # None =>
        /\ r.shown \in Int
        /\ fcnt_base[r.dev] # None
        /\ fcnt_base[r.dev] <= r.raw - r.shown

HistoryInv ==
    /\ HistoryTypeOK
    /\ BaseBelowRows
    /\ ShownNotNegative
    /\ CountersKeepStep

LEMMA HistoryInitInv == HistoryInit => HistoryInv
BY HistoryAssumption DEF HistoryInit, HistoryInv, HistoryTypeOK, BaseBelowRows,
    ShownNotNegative, CountersKeepStep, RawCounters

LEMMA SpawnInv ==
  ASSUME HistoryInv, NEW d \in Devs, NEW c \in RawCounters, Spawn(d, c)
  PROVE  HistoryInv'
<1>1. FrameOf(d, c) \in Frames
  BY HistoryAssumption DEF HistoryInv, HistoryTypeOK, FrameOf, Frames
<1>2. HistoryTypeOK'
  BY <1>1, HistoryAssumption DEF HistoryInv, HistoryTypeOK, Spawn
<1> QED
  BY <1>2 DEF HistoryInv, Spawn, BaseBelowRows, ShownNotNegative,
      CountersKeepStep

(* The new row has the greatest id, and its base is the old one or lower. *)
LEMMA SaveInv ==
  ASSUME HistoryInv, NEW f \in saving, Save(f)
  PROVE  HistoryInv'
<1> DEFINE base == IF BaseMoves(fcnt_base[f.dev], f.raw) THEN f.raw
                                                         ELSE fcnt_base[f.dev]
           new  == [id |-> sequence + 1, no |-> f.no, dev |-> f.dev,
                    raw |-> f.raw,
                    shown |-> IF f.raw = None THEN None ELSE f.raw - base]
<1>1. /\ f \in Frames
      /\ fcnt_base' = [fcnt_base EXCEPT ![f.dev] = base]
      /\ uplink_events' = uplink_events \cup {new}
      /\ sequence' = sequence + 1
      /\ saving' \subseteq saving /\ spawned' = spawned
  BY DEF HistoryInv, HistoryTypeOK, Save
<1>2. /\ f.dev \in Devs /\ f.no \in Nat /\ f.raw \in RawCounters
      /\ fcnt_base[f.dev] \in RawCounters
      /\ FCnts \subseteq Nat /\ None \notin Nat /\ sequence \in Nat
  BY <1>1, HistoryAssumption DEF HistoryInv, HistoryTypeOK, Frames
<1>3. /\ base \in RawCounters
      /\ f.raw # None => base \in Nat /\ base <= f.raw
      /\ fcnt_base[f.dev] # None => base # None /\ base <= fcnt_base[f.dev]
  <2> DEFINE old == fcnt_base[f.dev]
  <2>0. old \in RawCounters /\ (old # None => old \in Nat)
    BY <1>2 DEF RawCounters
  <2>1. CASE f.raw = None
    <3>1. base = old
      BY <2>1 DEF BaseMoves
    <3> HIDE DEF base, old
    <3> QED BY <2>0, <2>1, <3>1 DEF old
  <2>2. CASE f.raw # None /\ fcnt_base[f.dev] = None
    <3>1. base = f.raw /\ f.raw \in Nat
      BY <1>2, <2>2 DEF BaseMoves, RawCounters
    <3> HIDE DEF base
    <3> QED BY <1>2, <2>2, <3>1
  <2>3. CASE f.raw # None /\ fcnt_base[f.dev] # None
    <3>1. f.raw \in Nat /\ fcnt_base[f.dev] \in Nat
      BY <1>2, <2>3 DEF RawCounters
    <3> QED BY <1>2, <2>3, <3>1 DEF RawCounters, BaseMoves
  <2> QED BY <2>1, <2>2, <2>3
<1> HIDE DEF base
<1>4. /\ new \in Rows /\ new.id = sequence + 1
      /\ new.dev = f.dev /\ new.raw = f.raw
      /\ f.raw = None => new.shown = None
      /\ f.raw # None => /\ f.raw \in Nat
                         /\ new.shown = f.raw - base
                         /\ new.shown \in Int /\ new.shown >= 0
  <2>1. CASE f.raw = None
    BY <1>2, <2>1 DEF Rows
  <2>2. CASE f.raw # None
    <3>1. f.raw \in Nat /\ base \in Nat /\ base <= f.raw
      BY <1>2, <1>3, <2>2 DEF RawCounters
    <3> QED BY <1>2, <2>2, <3>1 DEF Rows
  <2> QED BY <2>1, <2>2
<1> HIDE DEF new
<1>5. HistoryTypeOK'
  <2>1. uplink_events' \subseteq Rows
    BY <1>1, <1>4 DEF HistoryInv, HistoryTypeOK
  <2>2. \A r \in uplink_events' : r.id <= sequence'
    BY <1>1, <1>2, <1>4 DEF HistoryInv, HistoryTypeOK, Rows
  <2>3. fcnt_base' \in [Devs -> RawCounters]
    BY <1>1, <1>2, <1>3 DEF HistoryInv, HistoryTypeOK
  <2> QED
    BY <1>1, <1>2, <2>1, <2>2, <2>3 DEF HistoryInv, HistoryTypeOK
<1>6. /\ \A d \in Devs : d # f.dev => fcnt_base'[d] = fcnt_base[d]
      /\ fcnt_base'[f.dev] = base
  BY <1>1, <1>2 DEF HistoryInv, HistoryTypeOK
<1>7. \A r \in uplink_events :
          r.dev \in Devs /\ r.id \in Nat /\ r.raw \in RawCounters
  BY DEF HistoryInv, HistoryTypeOK, Rows
<1>8. BaseBelowRows'
  <2> SUFFICES ASSUME NEW r \in uplink_events', r.raw # None
               PROVE  /\ r.shown \in Int
                      /\ fcnt_base'[r.dev] # None
                      /\ fcnt_base'[r.dev] <= r.raw - r.shown
    BY DEF BaseBelowRows
  <2>1. CASE r \in uplink_events
    <3>1. /\ r.shown \in Int /\ r.raw \in Nat
          /\ fcnt_base[r.dev] # None
          /\ fcnt_base[r.dev] <= r.raw - r.shown
      BY <1>2, <1>7, <2>1 DEF HistoryInv, BaseBelowRows, RawCounters
    <3>2. fcnt_base[r.dev] \in Nat
      BY <1>2, <1>7, <2>1, <3>1 DEF HistoryInv, HistoryTypeOK, RawCounters
    <3>3. CASE r.dev # f.dev
      BY <1>6, <1>7, <2>1, <3>1, <3>3
    <3>4. CASE r.dev = f.dev
      <4>1. base # None /\ base <= fcnt_base[r.dev]
        BY <1>3, <3>1, <3>4
      <4>2. base \in Nat
        BY <1>2, <1>3, <4>1 DEF RawCounters
      <4> QED BY <1>6, <3>1, <3>2, <3>4, <4>1, <4>2
    <3> QED BY <3>3, <3>4
  <2>2. CASE r = new
    <3>1. base \in Nat /\ f.raw \in Nat /\ base = f.raw - r.shown
      BY <1>3, <1>4, <2>2
    <3> QED BY <1>2, <1>4, <1>6, <2>2, <3>1
  <2> QED BY <1>1, <2>1, <2>2
<1>9. ShownNotNegative'
  <2>1. new.shown # None => new.shown >= 0
    BY <1>4
  <2> QED BY <1>1, <2>1 DEF HistoryInv, ShownNotNegative
<1>10. CountersKeepStep'
  <2> SUFFICES ASSUME NEW r \in uplink_events', NEW s \in uplink_events',
                      r.dev = s.dev, r.id < s.id, r.raw # None, s.raw # None
               PROVE  s.shown - r.shown >= s.raw - r.raw
    BY DEF CountersKeepStep
  <2>1. r \in uplink_events
    <3>1. s.id <= sequence + 1 /\ s.id \in Nat
      BY <1>1, <1>5 DEF HistoryTypeOK, Rows
    <3> QED BY <1>1, <1>2, <1>4, <3>1
  <2>2. CASE s \in uplink_events
    BY <2>1, <2>2 DEF HistoryInv, CountersKeepStep
  <2>3. CASE s = new
    <3>1. /\ r.shown \in Int /\ r.raw \in Nat
          /\ fcnt_base[r.dev] # None
          /\ fcnt_base[r.dev] <= r.raw - r.shown
      BY <1>2, <1>7, <2>1 DEF HistoryInv, BaseBelowRows, RawCounters
    <3>2. fcnt_base[r.dev] \in Nat
      BY <1>2, <1>7, <2>1, <3>1 DEF HistoryInv, HistoryTypeOK, RawCounters
    <3>3. s.raw = f.raw /\ s.shown = f.raw - base /\ r.dev = f.dev
      BY <1>4, <2>3
    <3>4. base \in Nat /\ base <= fcnt_base[r.dev] /\ f.raw \in Nat
      BY <1>2, <1>3, <1>4, <2>3, <3>1, <3>3 DEF RawCounters
    <3> QED BY <3>1, <3>2, <3>3, <3>4
  <2> QED BY <1>1, <2>2, <2>3
<1> QED BY <1>5, <1>8, <1>9, <1>10 DEF HistoryInv

LEMMA SaveFailsInv ==
  ASSUME HistoryInv, NEW f \in saving, SaveFails(f)
  PROVE  HistoryInv'
BY DEF HistoryInv, HistoryTypeOK, SaveFails, BaseBelowRows, ShownNotNegative,
    CountersKeepStep

LEMMA DeleteNodeInv ==
  ASSUME HistoryInv, NEW d \in Devs, DeleteNode(d)
  PROVE  HistoryInv'
BY DEF HistoryInv, HistoryTypeOK, DeleteNode, RowsOf, BaseBelowRows,
    ShownNotNegative, CountersKeepStep

(* The base is forgotten together with the rows it stood under. *)
LEMMA ResetNodeInv ==
  ASSUME HistoryInv, NEW d \in Devs, ResetNode(d)
  PROVE  HistoryInv'
<1>1. HistoryTypeOK'
  BY DEF HistoryInv, HistoryTypeOK, ResetNode, RowsOf, RawCounters
<1>2. \A r \in uplink_events' :
          r \in uplink_events /\ fcnt_base'[r.dev] = fcnt_base[r.dev]
  BY DEF HistoryInv, HistoryTypeOK, ResetNode, RowsOf, Rows
<1> QED
  BY <1>1, <1>2 DEF HistoryInv, BaseBelowRows, ShownNotNegative,
      CountersKeepStep

LEMMA DeleteAllInv ==
  ASSUME HistoryInv, NEW keep \in BOOLEAN, DeleteAll(keep)
  PROVE  HistoryInv'
BY HistoryAssumption DEF HistoryInv, HistoryTypeOK, DeleteAll, BaseBelowRows,
    ShownNotNegative, CountersKeepStep, RawCounters

LEMMA EndThreadsInv ==
  ASSUME HistoryInv, EndThreads
  PROVE  HistoryInv'
BY DEF HistoryInv, HistoryTypeOK, EndThreads, BaseBelowRows, ShownNotNegative,
    CountersKeepStep

LEMMA HistoryNextInv == HistoryInv /\ [HistoryNext]_historyVars => HistoryInv'
<1> SUFFICES ASSUME HistoryInv, [HistoryNext]_historyVars PROVE HistoryInv'
  OBVIOUS
<1>1. ASSUME NEW d \in Devs, NEW c \in RawCounters, Spawn(d, c)
      PROVE  HistoryInv'
  BY <1>1, SpawnInv
<1>2. ASSUME NEW f \in saving, Save(f) \/ SaveFails(f)
      PROVE  HistoryInv'
  BY <1>2, SaveInv, SaveFailsInv
<1>3. ASSUME NEW d \in Devs, DeleteNode(d) \/ ResetNode(d)
      PROVE  HistoryInv'
  BY <1>3, DeleteNodeInv, ResetNodeInv
<1>4. ASSUME NEW keep \in BOOLEAN, DeleteAll(keep)
      PROVE  HistoryInv'
  BY <1>4, DeleteAllInv
<1>5. CASE EndThreads
  BY <1>5, EndThreadsInv
<1>6. CASE UNCHANGED historyVars
  BY <1>6 DEF historyVars, HistoryInv, HistoryTypeOK, BaseBelowRows,
      ShownNotNegative, CountersKeepStep
<1> QED BY <1>1, <1>2, <1>3, <1>4, <1>5, <1>6 DEF HistoryNext

(* The history keeps its type, and its rows show what they should, whatever *)
(* the order of saves, deletions and restarts.                              *)
THEOREM HistoryInvariance == HistorySpec => []HistoryInv
<1>1. HistoryInit => HistoryInv
  BY HistoryInitInv
<1>2. HistoryInv /\ [HistoryNext]_historyVars => HistoryInv'
  BY HistoryNextInv
<1> QED BY <1>1, <1>2, PTL DEF HistorySpec

-----------------------------------------------------------------------------
(* The threads of the dashboard. *)

Outside == {"idle", "erase", "relock"}

(* What on_message and the handlers work on. *)
ThreadTypeOK ==
    /\ op \in [Workers -> Ops]
    /\ DOMAIN pc = Workers
    /\ lock \in Workers \cup {NoOne}
    /\ mpc # "idle" => dev \in Devs /\ raw \in RawCounters
    /\ mpc \in {"gap", "tally", "last", "key", "evict", "insert", "append", "use", "number"} =>
           raw # None
    /\ missed_frames \in [Devs -> Nat] /\ tally \in Nat
    /\ gaps \in [Devs -> Nat] /\ overtaken \in [Devs -> BOOLEAN]
    /\ prev \in RawCounters /\ last_fcnt \in [Devs -> RawCounters]

ThreadInv ==
    /\ ThreadTypeOK
    /\ LockHeldInside
    /\ TallyCounts

LEMMA InitThreadInv == Init => ThreadInv
<1> SUFFICES ASSUME Init PROVE ThreadInv
  OBVIOUS
<1>1. NoCall \in Ops
  BY DEF NoCall, Ops
<1>2. ThreadTypeOK
  BY <1>1 DEF Init, ThreadTypeOK, RawCounters
<1>3. LockHeldInside
  BY MemoryAssumption DEF Init, LockHeldInside
<1>4. TallyCounts
  BY DEF Init, TallyCounts
<1> QED BY <1>2, <1>3, <1>4 DEF ThreadInv

(* Of on_message's statements only those that read or write the tally or    *)
(* the last counter matter.                                                 *)
LEMMA ReceiveInv ==
  ASSUME ThreadInv, NEW d \in Devs, NEW c \in RawCounters, ReceiveUplink(d, c)
  PROVE  ThreadInv'
<1>1. prev' \in RawCounters
  BY DEF ThreadInv, ThreadTypeOK, ReceiveUplink, RawCounters
<1>2. ThreadTypeOK'
  BY <1>1 DEF ThreadInv, ThreadTypeOK, ReceiveUplink, memVars, callVars, tallyPast
<1>3. LockHeldInside' /\ TallyCounts'
  BY DEF ThreadInv, ThreadTypeOK, LockHeldInside, TallyCounts,
      ReceiveUplink, memVars, callVars, tallyPast
<1> QED BY <1>2, <1>3 DEF ThreadInv

(* The gap is counted when the tally is read, and stored or overtaken.      *)
LEMMA ReadTallyInv ==
  ASSUME ThreadInv, ReadTally
  PROVE  ThreadTypeOK' /\ TallyCounts'
<1>1. PICK g : g = Gap
  OBVIOUS
<1>2. /\ mpc = "gap" /\ dev \in Devs /\ raw \in Nat /\ (prev = None \/ prev \in Nat)
      /\ missed_frames[dev] \in Nat /\ gaps[dev] \in Nat
  BY HistoryAssumption DEF ReadTally, ThreadInv, ThreadTypeOK, RawCounters
<1>3. g \in Nat
  BY <1>1, <1>2 DEF Gap
<1>4. /\ gaps' = [gaps EXCEPT ![dev] = gaps[dev] + g]
      /\ IF g > 0 THEN mpc' = "tally" /\ tally' = missed_frames[dev] + g
                  ELSE mpc' = "last" /\ tally' = 0
      /\ prev' = None
      /\ UNCHANGED <<lock, last_fcnt, missed_frames, dev, raw, pc, op, overtaken>>
  BY <1>1 DEF ReadTally, memVars, callVars
<1>5. ThreadTypeOK'
  <2>1. gaps' \in [Devs -> Nat] /\ tally' \in Nat /\ mpc' \in {"tally", "last"}
    BY <1>2, <1>3, <1>4 DEF ThreadInv, ThreadTypeOK
  <2> QED BY <1>2, <1>4, <2>1 DEF ThreadInv, ThreadTypeOK, RawCounters
<1>6. TallyCounts'
  <2> SUFFICES ASSUME NEW d \in Devs, ~overtaken[d]
               PROVE  gaps'[d] = IF mpc' = "tally" /\ dev = d THEN tally'
                                                              ELSE missed_frames[d]
    BY <1>4 DEF TallyCounts
  <2>1. gaps[d] = missed_frames[d]
    BY <1>2 DEF ThreadInv, TallyCounts
  <2>2. CASE d = dev
    <3>1. gaps'[d] = missed_frames[d] + g
      BY <1>4, <2>1, <2>2 DEF ThreadInv, ThreadTypeOK
    <3>2. CASE g > 0
      BY <1>4, <2>2, <3>1, <3>2
    <3>3. CASE ~(g > 0)
      BY <1>2, <1>3, <1>4, <2>2, <3>1, <3>3
    <3> QED BY <3>2, <3>3
  <2>3. CASE d # dev
    BY <1>4, <2>1, <2>3 DEF ThreadInv, ThreadTypeOK
  <2> QED BY <2>2, <2>3
<1> QED BY <1>5, <1>6

LEMMA OnMessageInv ==
  ASSUME ThreadInv, OnMessage
  PROVE  ThreadInv'
<1>1. LockHeldInside'
  BY DEF ThreadInv, LockHeldInside, OnMessage, ReadTally, StoreTally, SetLast, LookUpKey,
      EvictKey, InsertKey, AppendKey, UseKey, ReadNumber, PushEvent, StartSave,
      callVars
<1>2. CASE ReadTally
  BY <1>1, <1>2, ReadTallyInv DEF ThreadInv
<1>3. CASE StoreTally
  <2>1. /\ mpc = "tally" /\ mpc' = "last" /\ tally' = 0
        /\ missed_frames' = [missed_frames EXCEPT ![dev] = tally]
        /\ UNCHANGED <<lock, last_fcnt, dev, raw, prev, pc, op, gaps, overtaken>>
    BY <1>3 DEF StoreTally, callVars, pastVars, tallyPast
  <2>2. ThreadTypeOK'
    BY <2>1 DEF ThreadInv, ThreadTypeOK
  <2>3. /\ dev \in Devs /\ missed_frames'[dev] = tally
        /\ \A d \in Devs : d # dev => missed_frames'[d] = missed_frames[d]
    BY <2>1 DEF ThreadInv, ThreadTypeOK
  <2>4. TallyCounts'
    BY <2>1, <2>3 DEF ThreadInv, TallyCounts
  <2> QED BY <1>1, <2>2, <2>4 DEF ThreadInv
<1>4. CASE SetLast
  <2>1. ThreadTypeOK'
    BY <1>4 DEF ThreadInv, ThreadTypeOK, SetLast, Goto, callVars, pastVars, tallyPast
  <2>2. TallyCounts'
    BY <1>4 DEF ThreadInv, TallyCounts, SetLast, Goto, callVars, pastVars, tallyPast
  <2> QED BY <1>1, <2>1, <2>2 DEF ThreadInv
<1>5. CASE LookUpKey \/ EvictKey \/ InsertKey \/ AppendKey \/ UseKey
             \/ ReadNumber \/ PushEvent \/ StartSave
  <2>1. /\ mpc \notin {"idle", "gap", "tally", "last"} /\ mpc' \notin {"gap", "tally", "last"}
        /\ (mpc' = "idle" /\ prev' = None /\ tally' = 0) \/ UNCHANGED <<dev, raw, prev, tally>>
        /\ mpc \in {"push", "spawn"} => mpc' \in {"idle", "spawn"}
        /\ mpc \notin {"push", "spawn"} =>
             mpc \in {"gap", "tally", "last", "key", "evict", "insert", "append", "use", "number"}
        /\ UNCHANGED <<last_fcnt, missed_frames, lock, pc, op, gaps, overtaken>>
    BY <1>5 DEF LookUpKey, EvictKey, InsertKey, AppendKey, UseKey, ReadNumber,
        PushEvent, StartSave, ToLoop, Goto, memVars, callVars, pastVars, tallyPast
  <2>2. prev' \in RawCounters /\ tally' \in Nat
    BY <2>1 DEF ThreadInv, ThreadTypeOK, RawCounters
  <2>3. ThreadTypeOK'
    BY <2>1, <2>2 DEF ThreadInv, ThreadTypeOK
  <2>4. TallyCounts'
    BY <2>1 DEF ThreadInv, TallyCounts
  <2> QED BY <1>1, <2>3, <2>4 DEF ThreadInv
<1> QED BY <1>2, <1>3, <1>4, <1>5 DEF OnMessage

LEMMA SaveThreadInv ==
  ASSUME ThreadInv, NEW f \in saving, SaveThread(f)
  PROVE  ThreadInv'
BY DEF ThreadInv, ThreadTypeOK, LockHeldInside, TallyCounts, SaveThread,
    memVars, msgVars, callVars, tallyPast

LEMMA CallInv ==
  ASSUME ThreadInv, NEW w \in Workers, NEW o \in Ops, Call(w, o)
  PROVE  ThreadInv'
<1>1. ThreadTypeOK'
  BY DEF ThreadInv, ThreadTypeOK, Call, memVars, msgVars, tallyPast
<1>2. LockHeldInside'
  BY DEF ThreadInv, ThreadTypeOK, LockHeldInside, Call
<1>3. TallyCounts'
  BY DEF ThreadInv, TallyCounts, Call, memVars, msgVars, tallyPast
<1> QED BY <1>1, <1>2, <1>3 DEF ThreadInv

(* A handler's step from one label to another, with the lock or without.    *)
LEMMA HandlerLock ==
  ASSUME ThreadInv, NEW w \in Workers, Handler(w)
  PROVE  ThreadTypeOK' /\ LockHeldInside'
<1>1. NoCall \in Ops
  BY DEF NoCall, Ops
<1>2. /\ UNCHANGED <<mpc, dev, raw, prev, tally>>
      /\ last_fcnt' \in [Devs -> RawCounters] /\ missed_frames' \in [Devs -> Nat]
      /\ gaps' \in [Devs -> Nat] /\ overtaken' \in [Devs -> BOOLEAN]
  <2>1. CASE ClearLast(w)
    BY <2>1 DEF ThreadInv, ThreadTypeOK, ClearLast, RawCounters, msgVars, pastVars, tallyPast
  <2>2. CASE ClearMissed(w)
    <3>1. missed_frames' \in [Devs -> Nat] /\ gaps' \in [Devs -> Nat]
      BY <2>2 DEF ThreadInv, ThreadTypeOK, ClearMissed, Zeroed
    <3>2. overtaken' \in [Devs -> BOOLEAN]
      BY <2>2, Zenon DEF ThreadInv, ThreadTypeOK, ClearMissed
    <3> QED BY <2>2, <3>1, <3>2 DEF ThreadInv, ThreadTypeOK, ClearMissed, msgVars
  <2>3. CASE ~ClearLast(w) /\ ~ClearMissed(w)
    <3>1. UNCHANGED <<mpc, dev, raw, prev, tally, last_fcnt, missed_frames, gaps, overtaken>>
      BY <2>3 DEF Handler, EraseRows, EraseRowsFails, Relock, Vacuum, VacuumFails, CopyEvents,
          FilterEvents, StoreEvents, PopKeys, CopyKeys, FilterKeys, StoreKeys, memVars,
          msgVars, pastVars, tallyPast
    <3> QED BY <3>1 DEF ThreadInv, ThreadTypeOK
  <2> QED BY <2>1, <2>2, <2>3
<1>3. CASE EraseRows(w)
  BY <1>2, <1>3, MemoryAssumption DEF ThreadInv, ThreadTypeOK, LockHeldInside,
      EraseRows, LockAfterErase, Step
<1>4. CASE EraseRowsFails(w)
  BY <1>1, <1>2, <1>4 DEF ThreadInv, ThreadTypeOK, LockHeldInside,
      EraseRowsFails, Return
<1>5. CASE Relock(w)
  BY <1>2, <1>5, MemoryAssumption DEF ThreadInv, ThreadTypeOK, LockHeldInside,
      Relock, Step
<1>6. CASE VacuumFails(w) \/ StoreKeys(w)
             \/ (FilterEvents(w) /\ GiveUp(w)) \/ (FilterKeys(w) /\ GiveUp(w))
  BY <1>1, <1>2, <1>6, MemoryAssumption DEF ThreadInv, ThreadTypeOK,
      LockHeldInside, VacuumFails, StoreKeys, FilterEvents, FilterKeys, GiveUp,
      Return
<1>7. CASE \/ Vacuum(w) \/ CopyEvents(w) \/ StoreEvents(w) \/ ClearLast(w)
           \/ ClearMissed(w) \/ PopKeys(w) \/ CopyKeys(w)
           \/ (FilterEvents(w) /\ ~GiveUp(w)) \/ (FilterKeys(w) /\ ~GiveUp(w))
  <2>1. /\ pc[w] \notin Outside /\ UNCHANGED <<lock, op>>
        /\ DOMAIN pc' = Workers /\ pc'[w] \notin Outside
        /\ \A v \in Workers : v # w => pc'[v] = pc[v]
    BY <1>7 DEF ThreadInv, ThreadTypeOK, Vacuum, CopyEvents, StoreEvents, ClearLast, ClearMissed,
        PopKeys, CopyKeys, FilterEvents, FilterKeys, Step, Outside
  <2> QED
    BY <1>2, <2>1 DEF ThreadInv, ThreadTypeOK, LockHeldInside, Outside
<1> QED BY <1>3, <1>4, <1>5, <1>6, <1>7 DEF Handler

(* The handler clears tally and count in one step; on_message may be about *)
(* to store a tally it read before.                                        *)
LEMMA HandlerTally ==
  ASSUME ThreadInv, NEW w \in Workers, Handler(w)
  PROVE  TallyCounts'
<1>1. CASE ClearMissed(w)
  <2> DEFINE cleared == op[w].devs
  <2>1. /\ \A d \in Devs : missed_frames'[d] = IF d \in cleared THEN 0 ELSE missed_frames[d]
        /\ \A d \in Devs : gaps'[d] = IF d \in cleared THEN 0 ELSE gaps[d]
        /\ \A d \in Devs \ cleared : overtaken'[d] = overtaken[d]
        /\ UNCHANGED <<mpc, dev, tally>>
    BY <1>1 DEF ClearMissed, Zeroed, msgVars
  <2>2. \A d \in Devs \cap cleared : overtaken'[d] = (mpc = "tally" /\ dev = d)
    BY <1>1, Zenon DEF ClearMissed
  <2> HIDE DEF cleared
  <2> SUFFICES ASSUME NEW d \in Devs, ~overtaken'[d]
               PROVE  gaps'[d] = IF mpc = "tally" /\ dev = d THEN tally
                                                             ELSE missed_frames'[d]
    BY <2>1 DEF TallyCounts
  <2>3. CASE d \in cleared
    BY <2>1, <2>2, <2>3
  <2>4. CASE d \notin cleared
    BY <2>1, <2>4 DEF ThreadInv, TallyCounts
  <2> QED BY <2>3, <2>4
<1>2. CASE ~ClearMissed(w)
  <2>1. UNCHANGED <<missed_frames, mpc, dev, tally, gaps, overtaken>>
    BY <1>2 DEF Handler, EraseRows, EraseRowsFails, Relock, Vacuum, VacuumFails, CopyEvents,
        FilterEvents, StoreEvents, ClearLast, PopKeys, CopyKeys, FilterKeys, StoreKeys,
        memVars, msgVars, pastVars, tallyPast
  <2> QED BY <2>1 DEF ThreadInv, TallyCounts
<1> QED BY <1>1, <1>2

LEMMA RestartInv ==
  ASSUME ThreadInv, Restart
  PROVE  ThreadInv'
<1>1. NoCall \in Ops
  BY DEF NoCall, Ops
<1>2. ThreadTypeOK'
  BY <1>1 DEF Restart, ToLoop, ThreadTypeOK, RawCounters
<1>3. LockHeldInside'
  BY MemoryAssumption DEF Restart, LockHeldInside
<1>4. TallyCounts'
  BY DEF Restart, ToLoop, TallyCounts
<1> QED BY <1>2, <1>3, <1>4 DEF ThreadInv

LEMMA NextThreadInv == ThreadInv /\ [Next]_vars => ThreadInv'
<1> SUFFICES ASSUME ThreadInv, [Next]_vars PROVE ThreadInv'
  OBVIOUS
<1>1. ASSUME NEW d \in Devs, NEW c \in RawCounters, ReceiveUplink(d, c)
      PROVE  ThreadInv'
  BY <1>1, ReceiveInv
<1>2. CASE OnMessage
  BY <1>2, OnMessageInv
<1>3. ASSUME NEW f \in saving, SaveThread(f)
      PROVE  ThreadInv'
  BY <1>3, SaveThreadInv
<1>4. ASSUME NEW w \in Workers, Handler(w)
      PROVE  ThreadInv'
  BY <1>4, HandlerLock, HandlerTally DEF ThreadInv
<1>5. ASSUME NEW w \in Workers, NEW o \in Ops, Call(w, o)
      PROVE  ThreadInv'
  BY <1>5, CallInv
<1>6. CASE Restart
  BY <1>6, RestartInv
<1>7. CASE UNCHANGED vars
  BY <1>7 DEF vars, memVars, msgVars, callVars, pastVars, tallyPast, ThreadInv,
      ThreadTypeOK, LockHeldInside, TallyCounts
<1> QED BY <1>1, <1>2, <1>3, <1>4, <1>5, <1>6, <1>7 DEF Next

(* The lock discipline and the tally hold in every behaviour. *)
THEOREM ThreadInvariance == Spec => []ThreadInv
<1>1. Init => ThreadInv
  BY InitThreadInv
<1>2. ThreadInv /\ [Next]_vars => ThreadInv'
  BY NextThreadInv
<1> QED BY <1>1, <1>2, PTL DEF Spec

(* No two handlers are in a locked section, and none waits for its own lock. *)
THEOREM LockDiscipline == Spec => []LockHeldInside
<1>1. ThreadInv => LockHeldInside
  BY DEF ThreadInv
<1> QED BY <1>1, ThreadInvariance, PTL

(* A tally counts the frames missed since it was cleared, whatever the      *)
(* handlers and on_message interleave, unless the clearing fell between     *)
(* on_message's read of the tally and its store.                            *)
THEOREM TallyCounted == Spec => []TallyCounts
<1>1. ThreadInv => TallyCounts
  BY DEF ThreadInv
<1> QED BY <1>1, ThreadInvariance, PTL

-----------------------------------------------------------------------------
(* Every step of the dashboard is a step of UplinkHistory or leaves the     *)
(* database alone.                                                          *)
LEMMA HistoryStep ==
  ASSUME ThreadInv, [Next]_vars
  PROVE  [HistoryNext]_historyVars
<1>1. ASSUME NEW d \in Devs, NEW c \in RawCounters, ReceiveUplink(d, c)
      PROVE  UNCHANGED historyVars
  BY <1>1 DEF ReceiveUplink
<1>2. CASE OnMessage
  <2>1. CASE StartSave
    <3>1. dev \in Devs /\ raw \in RawCounters /\ Spawn(dev, raw)
      BY <2>1 DEF ThreadInv, ThreadTypeOK, StartSave
    <3> QED BY <3>1 DEF HistoryNext
  <2>2. CASE ~StartSave
    BY <1>2, <2>2 DEF OnMessage, ReadTally, StoreTally, SetLast, LookUpKey, EvictKey,
        InsertKey, AppendKey, UseKey, ReadNumber, PushEvent
  <2> QED BY <2>1, <2>2
<1>3. ASSUME NEW f \in saving, SaveThread(f)
      PROVE  HistoryNext
  BY <1>3 DEF SaveThread, HistoryNext
<1>4. ASSUME NEW w \in Workers, Handler(w)
      PROVE  [HistoryNext]_historyVars
  <2>1. CASE EraseRows(w)
    <3>1. op[w] \in Ops /\ Erase(op[w])
      BY <2>1 DEF ThreadInv, ThreadTypeOK, EraseRows
    <3>2. op[w].devs \subseteq Devs
      BY <3>1 DEF Ops
    <3>3. CASE \E d \in op[w].devs : DeleteNode(d) \/ ResetNode(d)
      BY <3>2, <3>3 DEF HistoryNext
    <3>4. CASE DeleteAll(op[w].kind = "keep")
      BY <3>4 DEF HistoryNext
    <3> QED BY <3>1, <3>3, <3>4 DEF Erase
  <2>2. CASE ~EraseRows(w)
    BY <1>4, <2>2 DEF Handler, EraseRowsFails, Relock, Vacuum, VacuumFails,
        CopyEvents, FilterEvents, StoreEvents, ClearLast, ClearMissed, PopKeys,
        CopyKeys, FilterKeys, StoreKeys
  <2> QED BY <2>1, <2>2
<1>5. ASSUME NEW w \in Workers, NEW o \in Ops, Call(w, o)
      PROVE  UNCHANGED historyVars
  BY <1>5 DEF Call
<1>6. CASE Restart
  BY <1>6 DEF Restart, HistoryNext
<1>7. CASE UNCHANGED vars
  BY <1>7 DEF vars
<1> QED BY <1>1, <1>2, <1>3, <1>4, <1>5, <1>6, <1>7 DEF Next

(* The dashboard's threads implement UplinkHistory. *)
THEOREM DashboardImplements == Spec => HistorySpec
<1>1. Init => HistoryInit
  BY DEF Init
<1>2. ThreadInv /\ [Next]_vars => [HistoryNext]_historyVars
  BY HistoryStep
<1> QED BY <1>1, <1>2, ThreadInvariance, PTL DEF Spec, HistorySpec

(* The dashboard never shows a negative counter. *)
THEOREM NeverNegative == Spec => []ShownNotNegative
<1>1. HistoryInv => ShownNotNegative
  BY DEF HistoryInv
<1> QED BY <1>1, DashboardImplements, HistoryInvariance, PTL

(* The shown counters of a node keep step with the node's own. *)
THEOREM KeepStep == Spec => []CountersKeepStep
<1>1. HistoryInv => CountersKeepStep
  BY DEF HistoryInv
<1> QED BY <1>1, DashboardImplements, HistoryInvariance, PTL

-----------------------------------------------------------------------------
(* The dashboard's memory shows no event whose row has been deleted, once  *)
(* the handlers have finished and none has given up half-way.              *)

(* From the commit of the deletion to the replacement of events. *)
Clearing == {"relock", "vacuum", "copyEvents", "filterEvents", "storeEvents"}

(* A number belongs to one frame: what is saved or stored under the number  *)
(* of an event is of the same node.                                         *)
Numbered(e) ==
    /\ e.no <= spawned \/ (mpc = "spawn" /\ e = FrameOf(dev, raw))
    /\ \A x \in saving \cup uplink_events : x.no = e.no => x.dev = e.dev

Settled(e) ==
    \/ e.no \in {r.no : r \in uplink_events} \cup unsaved
    \/ e \in saving
    \/ mpc = "spawn" /\ e = FrameOf(dev, raw)

(* A handler has deleted the row and is about to take the event out. *)
Excused(e) == \E w \in Workers : pc[w] \in Clearing /\ e.dev \in op[w].devs

Known(e) == Numbered(e) /\ (halfDone \/ Settled(e) \/ Excused(e))

NumbersInv == \A x \in saving \cup uplink_events : x.no \in 1 .. spawned

EventTypeOK == events \subseteq Frames /\ copy \in [Workers -> SUBSET Frames]

(* What a handler is about to store is as good as what is there, and holds  *)
(* nothing that it has been asked to delete.                                *)
AgreeInv ==
    /\ EventTypeOK
    /\ NumbersInv
    /\ \A e \in events : Known(e)
    /\ \A w \in Workers : pc[w] = "storeEvents" =>
           \A e \in copy[w] : Known(e) /\ e.dev \notin op[w].devs

LEMMA AgreeInit == Init => AgreeInv
BY DEF Init, HistoryInit, AgreeInv, EventTypeOK, NumbersInv

(* A step that neither writes the database nor starts a save, and after     *)
(* which every handler that was clearing still is: what is known stays so.  *)
LEMMA KnownKept ==
  ASSUME UNCHANGED <<historyVars, unsaved>>,
         mpc # "spawn" \/ UNCHANGED <<mpc, dev, raw>>,
         halfDone => halfDone',
         NEW e, Known(e),
         \/ halfDone'
         \/ \A v \in Workers : pc[v] \in Clearing /\ e.dev \in op[v].devs =>
                               pc'[v] \in Clearing /\ op'[v] = op[v]
  PROVE  Known(e)'
BY DEF Known, Numbered, Settled, Excused, historyVars, FrameOf

-----------------------------------------------------------------------------
(* on_message and the save threads *)

LEMMA NumberedFrame ==
  ASSUME HistoryInv, ThreadInv, mpc # "idle"
  PROVE  /\ FrameOf(dev, raw) \in Frames
         /\ FrameOf(dev, raw).no = spawned + 1 /\ FrameOf(dev, raw).dev = dev
         /\ spawned \in Nat
BY HistoryAssumption DEF HistoryInv, HistoryTypeOK, ThreadInv, ThreadTypeOK,
    FrameOf, Frames

LEMMA QuietMessageAgrees ==
  ASSUME AgreeInv, mpc # "spawn",
         UNCHANGED <<historyVars, unsaved, halfDone, pc, op, copy, events>>
  PROVE  AgreeInv'
<1>1. \A e : Known(e) => Known(e)'
  BY KnownKept
<1> QED BY <1>1 DEF AgreeInv, EventTypeOK, NumbersInv, historyVars

LEMMA PushAgrees ==
  ASSUME AgreeInv, HistoryInv, ThreadInv, PushEvent
  PROVE  AgreeInv'
<1> DEFINE new == FrameOf(dev, raw)
<1>1. /\ mpc = "push" /\ mpc' = "spawn"
      /\ UNCHANGED <<historyVars, unsaved, halfDone, pc, op, copy, dev, raw>>
      /\ events' \subseteq events \cup {new}
  BY DEF PushEvent, Goto, Newest, callVars, copyVars, pastVars
<1>2. new \in Frames /\ new.no = spawned + 1 /\ spawned \in Nat
  BY <1>1, NumberedFrame
<1>3. \A e : Known(e) => Known(e)'
  BY <1>1, KnownKept
<1>4. Known(new)'
  <2>1. new' = new
    BY <1>1 DEF FrameOf, historyVars
  <2>2. \A x \in saving \cup uplink_events : x.no \in Nat /\ x.no <= spawned
    BY DEF AgreeInv, NumbersInv, HistoryInv, HistoryTypeOK, Frames, Rows
  <2>3. \A x \in saving' \cup uplink_events' : x.no # new.no
    BY <1>1, <1>2, <2>2 DEF historyVars
  <2> QED BY <1>1, <2>1, <2>3 DEF Known, Numbered, Settled
<1>5. Known(new)' => \A e \in {new} : Known(e)'
  <2>1. new' = new
    BY <1>1 DEF FrameOf, historyVars
  <2> QED BY <2>1 DEF Known, Numbered, Settled, Excused
<1> HIDE DEF new
<1> QED BY <1>1, <1>2, <1>3, <1>4, <1>5 DEF AgreeInv, EventTypeOK, NumbersInv, historyVars

(* The frame goes from on_message to its thread. *)
LEMMA StartSaveAgrees ==
  ASSUME AgreeInv, HistoryInv, ThreadInv, StartSave
  PROVE  AgreeInv'
<1> DEFINE new == FrameOf(dev, raw)
<1>1. /\ mpc = "spawn" /\ mpc' = "idle"
      /\ spawned' = spawned + 1 /\ saving' = saving \cup {new}
      /\ UNCHANGED <<uplink_events, unsaved, halfDone, pc, op, copy, events>>
  BY DEF StartSave, Spawn, ToLoop, memVars, callVars, copyVars, pastVars
<1>2. new \in Frames /\ new.no = spawned + 1 /\ new.dev = dev /\ spawned \in Nat
  BY <1>1, NumberedFrame
<1>3. \A x \in saving \cup uplink_events : x.no \in Nat /\ x.no <= spawned
  BY DEF AgreeInv, NumbersInv, HistoryInv, HistoryTypeOK, Frames, Rows
<1>4. NumbersInv'
  <2>1. \A x \in saving \cup uplink_events : x.no \in 1 .. spawned + 1
    BY <1>2 DEF AgreeInv, NumbersInv
  <2>2. new.no \in 1 .. spawned + 1
    BY <1>2
  <2> HIDE DEF new
  <2> QED BY <1>1, <2>1, <2>2 DEF NumbersInv
<1>5. ASSUME NEW e \in Frames, Known(e)
      PROVE  Known(e)'
  <2>1. e.no \in Nat
    BY DEF Frames
  <2>2. e.no <= spawned \/ e = new
    BY <1>5, <1>1 DEF Known, Numbered
  <2> HIDE DEF new
  <2>3. Numbered(e)'
    BY <1>1, <1>2, <1>5, <2>1, <2>2 DEF Known, Numbered
  <2>4. Settled(e) => Settled(e)'
    BY <1>1 DEF Settled, new
  <2>5. Excused(e) => Excused(e)'
    BY <1>1 DEF Excused
  <2> QED BY <1>1, <1>5, <2>3, <2>4, <2>5 DEF Known
<1> QED BY <1>1, <1>4, <1>5 DEF AgreeInv, EventTypeOK

LEMMA MessageAgrees ==
  ASSUME AgreeInv, HistoryInv, ThreadInv, OnMessage
  PROVE  AgreeInv'
<1>1. CASE PushEvent
  BY <1>1, PushAgrees
<1>2. CASE StartSave
  BY <1>2, StartSaveAgrees
<1>3. CASE \/ ReadTally \/ StoreTally \/ SetLast \/ LookUpKey \/ EvictKey
           \/ InsertKey \/ AppendKey \/ UseKey \/ ReadNumber
  <2>1. /\ mpc # "spawn"
        /\ UNCHANGED <<historyVars, unsaved, halfDone, pc, op, copy, events>>
    BY <1>3 DEF ReadTally, StoreTally, SetLast, LookUpKey, EvictKey, InsertKey,
        AppendKey, UseKey, ReadNumber, memVars, callVars, copyVars, pastVars
  <2> QED BY <2>1, QuietMessageAgrees
<1> QED BY <1>1, <1>2, <1>3 DEF OnMessage

(* The frame becomes a row, or is lost and counted so. *)
LEMMA SaveThreadAgrees ==
  ASSUME AgreeInv, HistoryInv, NEW f \in saving, SaveThread(f)
  PROVE  AgreeInv'
<1>1. /\ saving' = saving \ {f} /\ spawned' = spawned
      /\ UNCHANGED <<halfDone, mpc, dev, raw, pc, op, copy, events>>
  BY DEF SaveThread, Save, SaveFails, memVars, msgVars, callVars, copyVars
<1>2. /\ uplink_events \subseteq uplink_events' /\ unsaved \subseteq unsaved'
      /\ \A x \in uplink_events' :
             x \in uplink_events \/ (x.no = f.no /\ x.dev = f.dev)
      /\ f.no \in {r.no : r \in uplink_events'} \cup unsaved'
  <2>1. CASE Save(f) /\ UNCHANGED unsaved
    <3> DEFINE base == IF BaseMoves(fcnt_base[f.dev], f.raw) THEN f.raw
                                                             ELSE fcnt_base[f.dev]
               new  == [id |-> sequence + 1, no |-> f.no, dev |-> f.dev,
                        raw |-> f.raw,
                        shown |-> IF f.raw = None THEN None ELSE f.raw - base]
    <3>1. uplink_events' = uplink_events \cup {new}
      BY <2>1 DEF Save
    <3>2. new.no = f.no /\ new.dev = f.dev
      OBVIOUS
    <3> HIDE DEF new
    <3> QED BY <2>1, <3>1, <3>2
  <2>2. CASE SaveFails(f) /\ unsaved' = unsaved \cup {f.no}
    BY <2>2 DEF SaveFails
  <2> QED BY <2>1, <2>2 DEF SaveThread
<1>3. NumbersInv'
  BY <1>1, <1>2 DEF AgreeInv, NumbersInv
<1>4. ASSUME NEW e, Known(e)
      PROVE  Known(e)'
  <2>1. Numbered(e)'
    BY <1>1, <1>2, <1>4 DEF Known, Numbered, FrameOf
  <2>2. Settled(e) => Settled(e)'
    BY <1>1, <1>2 DEF Settled, FrameOf
  <2>3. Excused(e) => Excused(e)'
    BY <1>1 DEF Excused
  <2> QED BY <1>1, <1>4, <2>1, <2>2, <2>3 DEF Known
<1> QED BY <1>1, <1>3, <1>4 DEF AgreeInv, EventTypeOK

-----------------------------------------------------------------------------
(* The handlers *)

(* A row that goes is of a node the handler has been asked to clear, and    *)
(* from now on the handler is clearing it.                                  *)
LEMMA EraseAgrees ==
  ASSUME AgreeInv, HistoryInv, ThreadInv, NEW w \in Workers, EraseRows(w)
  PROVE  AgreeInv'
<1>1. /\ pc[w] = "erase" /\ Erase(op[w]) /\ op' = op /\ op[w] \in Ops
      /\ UNCHANGED <<unsaved, halfDone, mpc, dev, raw, copy, events>>
      /\ \A v \in Workers : v # w => pc'[v] = pc[v]
  BY DEF EraseRows, Step, ThreadInv, ThreadTypeOK, memVars, msgVars, copyVars,
      pastVars
<1>2. pc'[w] \in {"copyEvents", "relock", "vacuum"}
  BY DEF EraseRows, Step, ThreadInv, ThreadTypeOK
<1>3. /\ spawned' = spawned /\ saving' = saving
      /\ uplink_events' \subseteq uplink_events
      /\ \A r \in uplink_events \ uplink_events' : r.dev \in op[w].devs
  BY <1>1 DEF Erase, DeleteNode, ResetNode, DeleteAll, RowsOf, Ops, HistoryInv,
      HistoryTypeOK, Rows
<1>4. ASSUME NEW e, Known(e)
      PROVE  Known(e)'
  <2>1. Numbered(e)'
    BY <1>1, <1>3, <1>4 DEF Known, Numbered, FrameOf
  <2>2. Excused(e) => Excused(e)'
    BY <1>1 DEF Excused, Clearing
  <2>3. Settled(e) => Settled(e)' \/ e.dev \in op[w].devs
    BY <1>1, <1>3, <1>4 DEF Settled, Known, Numbered, FrameOf
  <2>4. e.dev \in op[w].devs => Excused(e)'
    BY <1>1, <1>2 DEF Excused, Clearing
  <2> QED BY <1>1, <1>4, <2>1, <2>2, <2>3, <2>4 DEF Known
<1> QED BY <1>1, <1>2, <1>3, <1>4 DEF AgreeInv, EventTypeOK, NumbersInv

(* A handler that is still clearing afterwards, or was not before. *)
LEMMA QuietHandlerAgrees ==
  ASSUME AgreeInv, NEW w \in Workers,
         UNCHANGED <<historyVars, unsaved, mpc, dev, raw, events>>,
         copy' = [copy EXCEPT ![w] = {}] \/ copy' = copy,
         halfDone => halfDone',
         \A v \in Workers : v # w => pc'[v] = pc[v] /\ op'[v] = op[v],
         pc'[w] # "storeEvents",
         \/ halfDone'
         \/ pc[w] \notin Clearing
         \/ pc'[w] \in Clearing /\ op'[w] = op[w]
  PROVE  AgreeInv'
<1>1. \A e : Known(e) => Known(e)'
  BY KnownKept
<1>2. copy' \in [Workers -> SUBSET Frames] /\ \A v \in Workers : copy'[v] \subseteq copy[v]
  BY DEF AgreeInv, EventTypeOK
<1> QED BY <1>1, <1>2 DEF AgreeInv, EventTypeOK, NumbersInv, historyVars

LEMMA CopyAgrees ==
  ASSUME AgreeInv, ThreadInv, NEW w \in Workers, CopyEvents(w)
  PROVE  AgreeInv'
<1>1. /\ UNCHANGED <<historyVars, unsaved, halfDone, mpc, dev, raw, events, op>>
      /\ copy' = [copy EXCEPT ![w] = events]
      /\ pc'[w] = "filterEvents" /\ \A v \in Workers : v # w => pc'[v] = pc[v]
  BY DEF CopyEvents, Step, ThreadInv, ThreadTypeOK, memVars, msgVars, pastVars
<1>2. \A e : Known(e) => Known(e)'
  BY <1>1, KnownKept DEF Clearing
<1>3. copy' \in [Workers -> SUBSET Frames] /\ \A v \in Workers : v # w => copy'[v] = copy[v]
  BY <1>1 DEF AgreeInv, EventTypeOK
<1> QED BY <1>1, <1>2, <1>3 DEF AgreeInv, EventTypeOK, NumbersInv, historyVars

LEMMA FilterAgrees ==
  ASSUME AgreeInv, ThreadInv, NEW w \in Workers, FilterEvents(w), ~GiveUp(w)
  PROVE  AgreeInv'
<1> DEFINE kept == Without(events, op[w].devs)
<1>1. /\ UNCHANGED <<historyVars, unsaved, halfDone, mpc, dev, raw, events, op>>
      /\ copy' = [copy EXCEPT ![w] = kept]
      /\ pc'[w] = "storeEvents" /\ \A v \in Workers : v # w => pc'[v] = pc[v]
  BY DEF FilterEvents, Step, ThreadInv, ThreadTypeOK, memVars, msgVars
<1>2. \A e : Known(e) => Known(e)'
  BY <1>1, KnownKept DEF Clearing
<1>3. kept \subseteq events /\ \A e \in kept : e.dev \notin op[w].devs
  BY DEF Without
<1> HIDE DEF kept
<1>4. /\ copy' \in [Workers -> SUBSET Frames] /\ copy'[w] = kept
      /\ \A v \in Workers : v # w => copy'[v] = copy[v]
  BY <1>1, <1>3 DEF AgreeInv, EventTypeOK
<1> QED BY <1>1, <1>2, <1>3, <1>4 DEF AgreeInv, EventTypeOK, NumbersInv, historyVars

(* The handler has the lock: no other is about to store. *)
LEMMA StoreAgrees ==
  ASSUME AgreeInv, ThreadInv, NEW w \in Workers, StoreEvents(w) \/ Vacuum(w)
  PROVE  AgreeInv'
<1> DEFINE kept == IF pc[w] = "storeEvents" THEN copy[w] ELSE {}
<1>1. /\ UNCHANGED <<historyVars, unsaved, halfDone, mpc, dev, raw, op>>
      /\ events' = kept
      /\ copy' = [copy EXCEPT ![w] = {}] \/ copy' = copy
      /\ pc[w] \in {"storeEvents", "vacuum"} /\ pc'[w] \in {"last", "pop"}
      /\ \A v \in Workers : v # w => pc'[v] = pc[v]
  BY DEF StoreEvents, Vacuum, Step, ThreadInv, ThreadTypeOK, msgVars, copyVars,
      pastVars
<1>2. \A v \in Workers : v # w => pc'[v] # "storeEvents"
  BY <1>1 DEF ThreadInv, LockHeldInside
<1>3. \A e \in kept : Known(e) /\ e.dev \notin op[w].devs
  BY DEF AgreeInv
<1>4. \A e \in kept : Known(e)'
  BY <1>1, <1>3, KnownKept
<1>5. kept \subseteq Frames /\ copy' \in [Workers -> SUBSET Frames]
  BY <1>1 DEF AgreeInv, EventTypeOK
<1> HIDE DEF kept
<1> QED BY <1>1, <1>2, <1>4, <1>5 DEF AgreeInv, EventTypeOK, NumbersInv, historyVars

LEMMA HandlerAgrees ==
  ASSUME AgreeInv, HistoryInv, ThreadInv, NEW w \in Workers, Handler(w)
  PROVE  AgreeInv'
<1>1. CASE EraseRows(w)
  BY <1>1, EraseAgrees
<1>2. CASE CopyEvents(w)
  BY <1>2, CopyAgrees
<1>3. CASE FilterEvents(w) /\ ~GiveUp(w)
  BY <1>3, FilterAgrees
<1>4. CASE StoreEvents(w) \/ Vacuum(w)
  BY <1>4, StoreAgrees
<1>5. CASE \/ VacuumFails(w) \/ (FilterEvents(w) /\ GiveUp(w))
           \/ (FilterKeys(w) /\ GiveUp(w))
  <2>1. /\ UNCHANGED <<historyVars, unsaved, mpc, dev, raw, events>>
        /\ copy' = [copy EXCEPT ![w] = {}] /\ halfDone'
        /\ pc'[w] = "idle"
        /\ \A v \in Workers : v # w => pc'[v] = pc[v] /\ op'[v] = op[v]
    BY <1>5 DEF VacuumFails, FilterEvents, FilterKeys, GiveUp, Return, ThreadInv,
        ThreadTypeOK, memVars, msgVars
  <2> QED BY <2>1, QuietHandlerAgrees
<1>6. CASE EraseRowsFails(w) \/ StoreKeys(w)
  <2>1. /\ UNCHANGED <<historyVars, unsaved, halfDone, mpc, dev, raw, events>>
        /\ copy' = [copy EXCEPT ![w] = {}]
        /\ pc[w] \in {"erase", "storeKeys"} /\ pc'[w] = "idle"
        /\ \A v \in Workers : v # w => pc'[v] = pc[v] /\ op'[v] = op[v]
    BY <1>6 DEF EraseRowsFails, StoreKeys, Return, ThreadInv, ThreadTypeOK,
        memVars, msgVars, pastVars
  <2> QED BY <2>1, QuietHandlerAgrees DEF Clearing
<1>7. CASE \/ Relock(w) \/ ClearLast(w) \/ ClearMissed(w) \/ PopKeys(w)
           \/ CopyKeys(w) \/ (FilterKeys(w) /\ ~GiveUp(w))
  <2>1. /\ UNCHANGED <<historyVars, unsaved, halfDone, mpc, dev, raw, events>>
        /\ copy' = copy /\ op' = op
        /\ \/ pc[w] = "relock" /\ pc'[w] = "copyEvents"
           \/ /\ pc[w] \in {"last", "missed", "pop", "copyKeys", "filterKeys"}
              /\ pc'[w] # "storeEvents"
        /\ \A v \in Workers : v # w => pc'[v] = pc[v]
    BY <1>7 DEF Relock, ClearLast, ClearMissed, PopKeys, CopyKeys, FilterKeys,
        Step, ThreadInv, ThreadTypeOK, memVars, msgVars, copyVars, pastVars
  <2> QED BY <2>1, QuietHandlerAgrees DEF Clearing
<1> QED BY <1>1, <1>2, <1>3, <1>4, <1>5, <1>6, <1>7 DEF Handler

-----------------------------------------------------------------------------
LEMMA AgreeNext ==
  ASSUME AgreeInv, HistoryInv, ThreadInv, [Next]_vars
  PROVE  AgreeInv'
<1>1. ASSUME NEW d \in Devs, NEW c \in RawCounters, ReceiveUplink(d, c)
      PROVE  AgreeInv'
  <2>1. /\ mpc # "spawn"
        /\ UNCHANGED <<historyVars, unsaved, halfDone, pc, op, copy, events>>
    BY <1>1 DEF ReceiveUplink, memVars, callVars, copyVars
  <2> QED BY <2>1, QuietMessageAgrees
<1>2. CASE OnMessage
  BY <1>2, MessageAgrees
<1>3. ASSUME NEW f \in saving, SaveThread(f)
      PROVE  AgreeInv'
  BY <1>3, SaveThreadAgrees
<1>4. ASSUME NEW w \in Workers, Handler(w)
      PROVE  AgreeInv'
  BY <1>4, HandlerAgrees
<1>5. ASSUME NEW w \in Workers, NEW o \in Ops, Call(w, o)
      PROVE  AgreeInv'
  <2>1. /\ UNCHANGED <<historyVars, unsaved, halfDone, mpc, dev, raw, events>>
        /\ copy' = copy /\ pc[w] = "idle" /\ pc'[w] = "erase"
        /\ \A v \in Workers : v # w => pc'[v] = pc[v] /\ op'[v] = op[v]
    BY <1>5 DEF Call, ThreadInv, ThreadTypeOK, memVars, msgVars, copyVars
  <2> QED BY <2>1, QuietHandlerAgrees DEF Clearing
<1>6. CASE Restart
  <2>1. /\ events' = {} /\ copy' = [w \in Workers |-> {}] /\ saving' = {}
        /\ uplink_events' = uplink_events /\ spawned' = spawned
        /\ pc' = [w \in Workers |-> "idle"]
    BY <1>6 DEF Restart, EndThreads
  <2> QED BY <2>1 DEF AgreeInv, EventTypeOK, NumbersInv
<1>7. CASE UNCHANGED vars
  <2>1. UNCHANGED <<historyVars, unsaved, halfDone, mpc, dev, raw, pc, op, copy,
                    events>>
    BY <1>7 DEF vars, memVars, msgVars, callVars, copyVars, pastVars
  <2>2. \A e : Known(e) => Known(e)'
    BY <2>1, KnownKept
  <2> QED BY <2>1, <2>2 DEF AgreeInv, EventTypeOK, NumbersInv, historyVars
<1> QED BY <1>1, <1>2, <1>3, <1>4, <1>5, <1>6, <1>7 DEF Next

(* Whatever the order of uplinks, saves, deletions and restarts, an event   *)
(* without a row is one that a handler is about to take out.                *)
THEOREM AgreeInvariance == Spec => []AgreeInv
<1>1. Init => AgreeInv
  BY AgreeInit
<1>2. AgreeInv /\ HistoryInv /\ ThreadInv /\ [Next]_vars => AgreeInv'
  BY AgreeNext
<1> QED
  BY <1>1, <1>2, DashboardImplements, HistoryInvariance, ThreadInvariance, PTL
  DEF Spec

(* Memory shows no event whose row was deleted, once the handlers are done  *)
(* and none of them has given up half-way.                                  *)
THEOREM MemoryFollowsTable == Spec => []MemoryAgrees
<1>1. AgreeInv => MemoryAgrees
  BY DEF AgreeInv, MemoryAgrees, Known, Settled, Excused, Clearing
<1> QED BY <1>1, AgreeInvariance, PTL

-----------------------------------------------------------------------------
(* The length of events. *)

(* A set of events with one frame to a number, no longer than the deque. *)
Fits(evs) ==
    /\ IsFiniteSet(evs) /\ Cardinality(evs) <= MaxEvents
    /\ \A e, f \in evs : e.no = f.no => e = f

EventsInv == Fits(events) /\ \A w \in Workers : Fits(copy[w])

LEMMA FewerFit ==
  ASSUME NEW S, Fits(S), NEW T \in SUBSET S
  PROVE  Fits(T)
<1>1. IsFiniteSet(T) /\ Cardinality(T) <= Cardinality(S)
  BY FS_Subset DEF Fits
<1>2. Cardinality(T) \in Nat /\ Cardinality(S) \in Nat /\ MaxEvents \in Nat
  BY <1>1, FS_CardinalityType, MemoryAssumption DEF Fits
<1> QED BY <1>1, <1>2 DEF Fits

LEMMA NothingFits == Fits({})
BY FS_EmptySet, MemoryAssumption DEF Fits

(* A set of naturals has a least element. *)
LEMMA LeastNatural ==
  ASSUME NEW T \in SUBSET Nat, T # {}
  PROVE  \E m \in T : \A n \in T : m <= n
<1>1. PICK m \in T : \A n \in T : <<n, m>> \notin OpToRel(<, Nat)
  BY WFMin, NatLessThanWellFounded, Zenon
<1>2. \A n \in T : ~(n < m)
  BY <1>1, Zenon DEF OpToRel
<1> QED BY <1>2

(* The oldest event kept has all the others before it. *)
LEMMA NewestFits ==
  ASSUME NEW S \in SUBSET Frames, IsFiniteSet(S), \A e, f \in S : e.no = f.no => e = f
  PROVE  Newest(S) \subseteq S /\ Fits(Newest(S))
<1> DEFINE kept == Newest(S)
<1>1. kept \subseteq S /\ MaxEvents \in Nat \ {0}
  BY MemoryAssumption DEF Newest
<1>2. IsFiniteSet(kept) /\ Cardinality(kept) \in Nat
  <2> HIDE DEF kept
  <2> QED BY <1>1, FS_Subset, FS_CardinalityType
<1>3. \A e \in S : e.no \in Nat
  BY DEF Frames
<1>4. Cardinality(kept) <= MaxEvents
  <2>1. CASE kept = {}
    BY <1>1, <2>1, FS_EmptySet
  <2>2. CASE kept # {}
    <3> DEFINE numbers == {e.no : e \in kept}
    <3>1. numbers \in SUBSET Nat /\ numbers # {}
      BY <1>1, <1>3, <2>2
    <3>2. PICK m \in numbers : \A n \in numbers : m <= n
      <4> HIDE DEF numbers
      <4> QED BY <3>1, LeastNatural
    <3>3. PICK e \in kept : e.no = m
      BY <3>2
    <3> DEFINE newer == {f \in S : f.no > e.no}
    <3>4. Cardinality(newer) < MaxEvents
      BY <3>3 DEF Newest
    <3>5. kept \ {e} \subseteq newer
      <4> SUFFICES ASSUME NEW f \in kept, f # e PROVE f \in newer
        OBVIOUS
      <4>1. f \in S /\ e \in S /\ f.no \in Nat /\ e.no \in Nat /\ f.no # e.no
        BY <1>1, <1>3, <3>3
      <4>2. m <= f.no
        BY <3>2
      <4> QED BY <3>3, <4>1, <4>2
    <3>6. IsFiniteSet(newer) /\ Cardinality(newer) \in Nat
      <4>1. newer \subseteq S
        OBVIOUS
      <4> HIDE DEF newer
      <4> QED BY <4>1, FS_Subset, FS_CardinalityType
    <3> HIDE DEF newer, kept
    <3>7. Cardinality(kept \ {e}) <= Cardinality(newer)
      BY <3>5, <3>6, FS_Subset
    <3>8. Cardinality(kept \ {e}) = Cardinality(kept) - 1
      BY <1>2, <3>3, FS_RemoveElement
    <3> QED BY <1>1, <1>2, <3>4, <3>6, <3>7, <3>8
  <2> QED BY <2>1, <2>2
<1> QED BY <1>1, <1>2, <1>4 DEF Fits

LEMMA EventsNext ==
  ASSUME TypeOK, HistoryInv, ThreadInv, AgreeInv, EventsInv, [Next]_vars
  PROVE  EventsInv'
<1> DEFINE new == FrameOf(dev, raw)
<1>1. ASSUME UNCHANGED <<events, copy>>
      PROVE  EventsInv'
  BY <1>1 DEF EventsInv, Fits
<1>2. ASSUME NEW w \in Workers, events' = events,
             \/ copy' = copy
             \/ \E S \in SUBSET events : copy' = [copy EXCEPT ![w] = S]
      PROVE  EventsInv'
  <2>1. \A S \in SUBSET events : Fits(S)
    BY FewerFit DEF EventsInv
  <2>2. copy \in [Workers -> SUBSET Frames]
    BY DEF TypeOK, HandlerTypeOK
  <2>3. \A v \in Workers : Fits(copy'[v])
    BY <1>2, <2>1, <2>2 DEF EventsInv
  <2> QED BY <1>2, <2>3 DEF EventsInv, Fits
<1>3. ASSUME PushEvent PROVE EventsInv'
  <2>1. mpc = "push" /\ copy' = copy /\ events' = Newest(events \cup {new})
    BY <1>3 DEF PushEvent, callVars, copyVars
  <2>2. new \in Frames /\ new.no = spawned + 1 /\ spawned \in Nat
    BY <2>1, NumberedFrame
  <2>3. \A e \in events : e.no \in Nat /\ e.no <= spawned
    BY <2>1 DEF AgreeInv, EventTypeOK, Known, Numbered, Frames
  <2>4. \A e, f \in events \cup {new} : e.no = f.no => e = f
    BY <2>2, <2>3 DEF EventsInv, Fits
  <2>5. events \cup {new} \in SUBSET Frames /\ IsFiniteSet(events \cup {new})
    BY <2>2, FS_AddElement DEF EventsInv, Fits, AgreeInv, EventTypeOK
  <2> HIDE DEF new
  <2>6. Fits(events')
    BY <2>1, <2>4, <2>5, NewestFits
  <2> QED BY <2>1, <2>6 DEF EventsInv, Fits
<1>4. ASSUME NEW w \in Workers, events' = {} \/ events' = copy[w],
             copy' = [copy EXCEPT ![w] = {}] \/ copy' = copy
      PROVE  EventsInv'
  <2>1. copy \in [Workers -> SUBSET Frames]
    BY DEF TypeOK, HandlerTypeOK
  <2>2. Fits(events')
    BY <1>4, NothingFits DEF EventsInv
  <2>3. \A v \in Workers : Fits(copy'[v])
    BY <1>4, <2>1, NothingFits DEF EventsInv
  <2> QED BY <2>2, <2>3 DEF EventsInv, Fits
<1>5. ASSUME NEW w \in Workers, Handler(w) PROVE EventsInv'
  <2>1. CASE EraseRows(w) \/ Relock(w) \/ ClearLast(w) \/ ClearMissed(w) \/ PopKeys(w)
             \/ CopyKeys(w)
    BY <1>1, <2>1 DEF EraseRows, Relock, ClearLast, ClearMissed, PopKeys, CopyKeys, memVars,
        copyVars
  <2>2. CASE CopyEvents(w) \/ FilterEvents(w) \/ EraseRowsFails(w) \/ VacuumFails(w)
             \/ FilterKeys(w)
    <3>1. \/ copy' = copy
          \/ \E S \in SUBSET events : copy' = [copy EXCEPT ![w] = S]
      BY <2>2 DEF CopyEvents, FilterEvents, EraseRowsFails, VacuumFails, FilterKeys, GiveUp,
          Return, Without
    <3>2. events' = events
      BY <2>2 DEF CopyEvents, FilterEvents, EraseRowsFails, VacuumFails, FilterKeys, memVars
    <3> QED BY <1>2, <3>1, <3>2
  <2>3. CASE Vacuum(w) \/ StoreEvents(w)
    BY <1>4, <2>3 DEF Vacuum, StoreEvents, copyVars
  <2>4. CASE StoreKeys(w)
    <3>1. events' = events /\ copy' = [copy EXCEPT ![w] = {}]
      BY <2>4 DEF StoreKeys, Return
    <3> QED BY <1>2, <3>1
  <2> QED BY <1>5, <2>1, <2>2, <2>3, <2>4 DEF Handler
<1>6. CASE OnMessage
  <2>1. ASSUME ~PushEvent PROVE UNCHANGED <<events, copy>>
    BY <1>6, <2>1 DEF OnMessage, ReadTally, StoreTally, SetLast, LookUpKey, EvictKey, InsertKey,
        AppendKey, UseKey, ReadNumber, StartSave, memVars, callVars, copyVars
  <2> QED BY <1>1, <1>3, <2>1
<1>7. ASSUME \/ \E d \in Devs, c \in RawCounters : ReceiveUplink(d, c)
             \/ \E f \in saving : SaveThread(f)
             \/ \E w \in Workers, o \in Ops : Call(w, o)
             \/ UNCHANGED vars
      PROVE  EventsInv'
  <2>1. UNCHANGED <<events, copy>>
    BY <1>7 DEF ReceiveUplink, SaveThread, Call, vars, memVars, callVars, copyVars
  <2> QED BY <1>1, <2>1
<1>8. CASE Restart
  BY <1>8, NothingFits DEF Restart, EventsInv, Fits
<1> QED BY <1>5, <1>6, <1>7, <1>8 DEF Next

-----------------------------------------------------------------------------
(* The keys of fcnt_gateway_map and the deque that lists them. *)

(* on_message has put its key into the map and not yet saved the frame. *)
Using == {"append", "use", "number"}

(* A handler has taken its nodes' keys out of the map and not yet replaced *)
(* the deque.                                                              *)
Replacing == {"copyKeys", "filterKeys", "storeKeys"}

Working == {w \in Workers : pc[w] # "idle"}

Stranded == fcnt_gateway_map \ Listed

(* Keys that are listed now and will not be when the handler has replaced  *)
(* the deque: those of its nodes, and what its copy does not have.         *)
LeftOut(w) ==
    {k \in fcnt_gateway_map \cap ToSet(fcnt_gateway_map_keys) :
         \/ k.dev \in op[w].devs
         \/ pc[w] = "storeKeys" /\ k \notin ToSet(keyCopy[w])}

(* The oldest key of a full copy that is still in the map and no longer the *)
(* oldest of the deque: once the copy has replaced it, the next append      *)
(* drops the key without its having been evicted.                           *)
CopyAtRisk(w) ==
    {k \in fcnt_gateway_map :
         /\ pc[w] = "storeKeys" /\ Len(keyCopy[w]) = MapMax
         /\ k = Head(keyCopy[w]) /\ k # Head(fcnt_gateway_map_keys)}

(* The same once the deque has been replaced. *)
AtRisk ==
    {k \in fcnt_gateway_map \ {Key} :
         /\ mpc \in {"insert", "append"} /\ Len(fcnt_gateway_map_keys) = MapMax
         /\ k = Head(fcnt_gateway_map_keys)}

(* Keys stranded or bound to be, but for the one on_message is working on. *)
Strays ==
    Stranded \cup AtRisk
        \cup {k \in fcnt_gateway_map :
                  /\ \E w \in Workers : pc[w] \in Replacing /\ k \in LeftOut(w) \cup CopyAtRisk(w)
                  /\ ~(mpc \in Using /\ k = Key)}

(* A handler at work may add one, that of on_message; so does on_message    *)
(* when it gives up an uplink whose key is in the map.                      *)
CountInv ==
    /\ IsFiniteSet(fcnt_gateway_map) /\ IsFiniteSet(Working)
    /\ Cardinality(Strays) + Cardinality(Working) <= calls + noSignal

(* A copy is never longer than the deque. *)
CopyInv ==
    \A w \in Workers :
        /\ pc[w] \notin {"filterKeys", "storeKeys"} => keyCopy[w] = <<>>
        /\ pc[w] = "storeKeys" => Len(keyCopy[w]) <= Len(fcnt_gateway_map_keys)

KeysInv == CountInv /\ CopyInv

LEMMA SequenceFacts ==
  ASSUME NEW R, NEW q \in Seq(R)
  PROVE  /\ Len(q) \in Nat /\ DOMAIN q = 1 .. Len(q)
         /\ \A i \in 1 .. Len(q) : q[i] \in R
         /\ q # <<>> => Len(q) > 0 /\ Head(q) = q[1]
         /\ Len(q) > 0 => q # <<>> /\ Head(q) = q[1]
OBVIOUS

LEMMA FunctionIsSequence ==
  ASSUME NEW R, NEW n \in Nat, NEW f \in [1 .. n -> R]
  PROVE  f \in Seq(R) /\ Len(f) = n
OBVIOUS

LEMMA TailFacts ==
  ASSUME NEW R, NEW q \in Seq(R), Len(q) > 0
  PROVE  /\ Tail(q) \in Seq(R) /\ Len(Tail(q)) = Len(q) - 1
         /\ \A i \in 1 .. Len(q) - 1 : Tail(q)[i] = q[i + 1]
OBVIOUS

LEMMA IntervalFacts ==
  ASSUME NEW n \in Nat
  PROVE  IsFiniteSet(1 .. n) /\ Cardinality(1 .. n) = n
BY FS_Interval

(* A listing of a finite set has each of its members once. *)
LEMMA ListingFacts ==
  ASSUME NEW S, IsFiniteSet(S), NEW q \in SetToSeqs(S)
  PROVE  q \in Seq(S) /\ Len(q) = Cardinality(S) /\ ToSet(q) = S
<1> DEFINE n == Cardinality(S)
<1>1. n \in Nat
  BY FS_CardinalityType
<1>2. q \in [1 .. n -> S] /\ \A i, j \in 1 .. n : i # j => q[i] # q[j]
  BY DEF SetToSeqs
<1> HIDE DEF n
<1>3. IsFiniteSet(1 .. n) /\ Cardinality(1 .. n) = n
  BY <1>1, FS_Interval
<1>4. q \in Injection(1 .. n, S)
  BY <1>2 DEF Injection, IsInjective
<1>5. q \in Surjection(1 .. n, S)
  BY <1>3, <1>4, FS_Injection DEF n
<1>6. \A r \in S : \E i \in 1 .. n : q[i] = r
  BY <1>5 DEF Surjection
<1>7. q \in Seq(S) /\ Len(q) = n
  BY <1>1, <1>2
<1> QED BY <1>2, <1>6, <1>7 DEF n, ToSet

(* What the comprehension over the deque leaves. *)
LEMMA KeysWithoutFacts ==
  ASSUME NEW keys \in Seq(Keys), NEW devs, NEW q \in KeysWithout(keys, devs)
  PROVE  /\ q \in Seq(Keys) /\ Len(q) <= Len(keys)
         /\ ToSet(q) = {k \in ToSet(keys) : k.dev \notin devs}
         /\ Len(q) = Len(keys) /\ keys # <<>> => Head(q) = Head(keys)
<1> DEFINE kept == {i \in DOMAIN keys : keys[i].dev \notin devs}
<1>0. PICK n : n = Len(keys)
  OBVIOUS
<1>1. PICK at \in SetToSeqs(kept) :
         /\ q = [k \in DOMAIN at |-> keys[at[k]]]
         /\ \A i, j \in DOMAIN at : i < j => at[i] < at[j]
  BY DEF KeysWithout, Filtered, InOrder
<1>2. n \in Nat /\ DOMAIN keys = 1 .. n /\ \A i \in 1 .. n : keys[i] \in Keys
  BY <1>0, SequenceFacts
<1>3. IsFiniteSet(1 .. n) /\ Cardinality(1 .. n) = n /\ kept \subseteq 1 .. n
  <2>1. IsFiniteSet(1 .. n) /\ Cardinality(1 .. n) = n
    BY <1>2, IntervalFacts
  <2> QED BY <1>2, <2>1
<1>4. /\ IsFiniteSet(kept) /\ Cardinality(kept) <= n
      /\ Cardinality(kept) = n => kept = 1 .. n
  <2> HIDE DEF kept
  <2> QED BY <1>3, FS_Subset
<1>5. at \in SetToSeqs(kept) /\ \A i, j \in DOMAIN at : i < j => at[i] < at[j]
  BY <1>1
<1>6. at \in Seq(kept) /\ Len(at) = Cardinality(kept) /\ ToSet(at) = kept
  <2> HIDE DEF kept
  <2> QED BY <1>4, <1>5, ListingFacts
<1>7. Len(at) \in Nat /\ DOMAIN at = 1 .. Len(at) /\ \A k \in 1 .. Len(at) : at[k] \in kept
  <2> HIDE DEF kept
  <2> QED BY <1>6, SequenceFacts
<1>8. /\ q = [k \in 1 .. Len(at) |-> keys[at[k]]]
      /\ \A k \in 1 .. Len(at) : at[k] \in 1 .. n /\ keys[at[k]].dev \notin devs
  BY <1>1, <1>3, <1>7
<1>9. q \in Seq(Keys) /\ Len(q) = Len(at) /\ \A k \in 1 .. Len(at) : q[k] = keys[at[k]]
  <2>1. \A k \in 1 .. Len(at) : q[k] = keys[at[k]] /\ q[k] \in Keys
    BY <1>2, <1>8
  <2>2. q \in [1 .. Len(at) -> Keys]
    BY <1>8, <2>1
  <2>3. q \in Seq(Keys) /\ Len(q) = Len(at)
    BY <1>7, <2>2, FunctionIsSequence
  <2> QED BY <2>1, <2>3
<1>10. \A i \in kept : \E k \in 1 .. Len(at) : at[k] = i
  <2> HIDE DEF kept
  <2> QED BY <1>6, <1>7 DEF ToSet
<1>11. DOMAIN q = 1 .. Len(at)
  BY <1>8
<1>12. ToSet(q) = {k \in ToSet(keys) : k.dev \notin devs}
  <2>1. ToSet(q) \subseteq {k \in ToSet(keys) : k.dev \notin devs}
    BY <1>2, <1>8, <1>9, <1>11 DEF ToSet
  <2>2. ASSUME NEW i \in 1 .. n, keys[i].dev \notin devs
        PROVE  keys[i] \in ToSet(q)
    BY <1>2, <1>9, <1>10, <1>11, <2>2 DEF ToSet
  <2> QED BY <1>2, <2>1, <2>2 DEF ToSet
<1>13. ASSUME Len(q) = n, keys # <<>>
       PROVE  Head(q) = Head(keys)
  <2> HIDE DEF kept
  <2>1. n > 0 /\ Head(keys) = keys[1]
    BY <1>0, <1>13, SequenceFacts
  <2>2. kept = 1 .. n /\ Len(at) = n
    BY <1>4, <1>6, <1>9, <1>13
  <2>3. 1 \in kept /\ 1 \in 1 .. Len(at)
    <3>1. 1 \in 1 .. n
      BY <1>2, <2>1
    <3> QED BY <2>2, <3>1
  <2>4. PICK k \in 1 .. Len(at) : at[k] = 1
    BY <1>10, <2>3
  <2>5. at[1] \in 1 .. n
    BY <1>8, <2>3
  <2>6. k = 1
    <3>1. 1 < k => at[1] < at[k]
      BY <1>5, <1>7, <2>3
    <3> QED BY <1>2, <1>7, <2>3, <2>4, <2>5, <3>1
  <2>7. q[1] = keys[1]
    BY <1>9, <2>3, <2>4, <2>6
  <2>8. Head(q) = q[1]
    BY <1>9, <1>13, <2>1, SequenceFacts
  <2> QED BY <2>1, <2>7, <2>8
<1> QED BY <1>0, <1>4, <1>6, <1>9, <1>12, <1>13

(* What appending a key to the bounded deque does. *)
LEMMA AppendKeyFacts ==
  ASSUME NEW keys \in Seq(Keys), Len(keys) <= MapMax, NEW k \in Keys, NEW q,
         q = IF Len(Append(keys, k)) > MapMax THEN Tail(Append(keys, k)) ELSE Append(keys, k)
  PROVE  /\ q \in Seq(Keys) /\ Len(q) <= MapMax /\ Len(keys) <= Len(q)
         /\ k \in ToSet(q) /\ ToSet(q) \subseteq ToSet(keys) \cup {k}
         /\ \A x \in ToSet(keys) : x \in ToSet(q) \/ (Len(keys) = MapMax /\ x = Head(keys))
<1> DEFINE u == Append(keys, k)
<1>0. PICK n : n = Len(keys)
  OBVIOUS
<1>1. n \in Nat /\ MapMax \in Nat \ {0} /\ DOMAIN keys = 1 .. n /\ n <= MapMax
  BY <1>0, SequenceFacts, MemoryAssumption
<1>2. /\ u \in Seq(Keys) /\ Len(u) = n + 1 /\ u[n + 1] = k
      /\ \A i \in 1 .. n : u[i] = keys[i]
  BY <1>0
<1>3. /\ Tail(u) \in Seq(Keys) /\ Len(Tail(u)) = n
      /\ \A i \in 1 .. n : Tail(u)[i] = u[i + 1]
  <2> HIDE DEF u
  <2>1. Len(u) > 0 /\ Len(u) - 1 = n
    BY <1>1, <1>2
  <2> QED BY <1>2, <2>1, TailFacts
<1> HIDE DEF u
<1>4. CASE n < MapMax
  <2>1. q = u /\ DOMAIN u = 1 .. n + 1
    BY <1>1, <1>2, <1>4 DEF u
  <2>2. \A i \in 1 .. n + 1 : i \in 1 .. n \/ i = n + 1
    BY <1>1
  <2>3. n + 1 \in 1 .. n + 1 /\ \A i \in 1 .. n : i \in 1 .. n + 1
    BY <1>1
  <2>4. k \in ToSet(q) /\ ToSet(q) \subseteq ToSet(keys) \cup {k}
    BY <1>1, <1>2, <2>1, <2>2, <2>3 DEF ToSet
  <2>5. \A x \in ToSet(keys) : x \in ToSet(q)
    BY <1>1, <1>2, <2>1, <2>3 DEF ToSet
  <2> QED BY <1>0, <1>1, <1>2, <1>4, <2>1, <2>4, <2>5
<1>5. CASE n = MapMax
  <2>1. q = Tail(u) /\ DOMAIN q = 1 .. n /\ n > 0 /\ Head(keys) = keys[1]
    BY <1>0, <1>1, <1>2, <1>3, <1>5, SequenceFacts DEF u
  <2>2. \A i \in 1 .. n : i + 1 \in 2 .. n \/ i = n
    BY <1>1
  <2>3. /\ \A i \in 1 .. n - 1 : q[i] = keys[i + 1] /\ i + 1 \in 1 .. n
        /\ q[n] = k
    BY <1>1, <1>2, <1>3, <2>1
  <2>4. \A i \in 1 .. n : i = n \/ i \in 1 .. n - 1
    BY <1>1
  <2>5. k \in ToSet(q) /\ ToSet(q) \subseteq ToSet(keys) \cup {k}
    BY <1>1, <2>1, <2>3, <2>4 DEF ToSet
  <2>6. ASSUME NEW i \in 1 .. n, i # 1 PROVE keys[i] \in ToSet(q)
    <3>1. i - 1 \in 1 .. n - 1 /\ i - 1 \in 1 .. n /\ (i - 1) + 1 = i
      BY <1>1, <2>6
    <3>2. q[i - 1] = keys[i]
      BY <2>3, <3>1
    <3> QED BY <2>1, <3>1, <3>2 DEF ToSet
  <2>7. \A x \in ToSet(keys) : x \in ToSet(q) \/ x = Head(keys)
    BY <1>1, <2>1, <2>6 DEF ToSet
  <2> QED BY <1>0, <1>1, <1>3, <1>5, <2>1, <2>5, <2>7
<1> QED BY <1>1, <1>4, <1>5

LEMMA FewerCounted ==
  ASSUME NEW S, IsFiniteSet(S), NEW W, IsFiniteSet(W), NEW n \in Nat,
         Cardinality(S) + Cardinality(W) <= n, NEW T \in SUBSET S, NEW V \in SUBSET W
  PROVE  Cardinality(T) + Cardinality(V) <= n
<1>1. Cardinality(T) <= Cardinality(S) /\ Cardinality(V) <= Cardinality(W)
  BY FS_Subset
<1>2. IsFiniteSet(T) /\ IsFiniteSet(V)
  BY FS_Subset
<1>3. /\ Cardinality(S) \in Nat /\ Cardinality(W) \in Nat
      /\ Cardinality(T) \in Nat /\ Cardinality(V) \in Nat
  BY <1>2, FS_CardinalityType
<1> QED BY <1>1, <1>3

(* One more key is stranded. *)
LEMMA OneMore ==
  ASSUME NEW S, IsFiniteSet(S), NEW W, IsFiniteSet(W), NEW n \in Nat,
         Cardinality(S) + Cardinality(W) <= n, NEW x, NEW T \in SUBSET (S \cup {x})
  PROVE  Cardinality(T) + Cardinality(W) <= n + 1
<1>1. /\ IsFiniteSet(S \cup {x})
      /\ Cardinality(S \cup {x}) = IF x \in S THEN Cardinality(S) ELSE Cardinality(S) + 1
  BY FS_AddElement
<1>2. IsFiniteSet(T) /\ Cardinality(T) <= Cardinality(S \cup {x})
  BY <1>1, FS_Subset
<1>3. /\ Cardinality(S) \in Nat /\ Cardinality(W) \in Nat /\ Cardinality(T) \in Nat
      /\ Cardinality(S \cup {x}) \in Nat
  BY <1>1, <1>2, FS_CardinalityType
<1> QED BY <1>1, <1>2, <1>3

(* One more key is stranded and one handler less is at work. *)
LEMMA OneStranded ==
  ASSUME NEW S, IsFiniteSet(S), NEW W, IsFiniteSet(W), NEW n \in Nat,
         Cardinality(S) + Cardinality(W) <= n, NEW x, NEW T \in SUBSET (S \cup {x}),
         NEW w \in W
  PROVE  Cardinality(T) + Cardinality(W \ {w}) <= n
<1>1. Cardinality(T) + Cardinality(W) <= n + 1
  BY OneMore
<1>2. IsFiniteSet(W \ {w}) /\ Cardinality(W \ {w}) = Cardinality(W) - 1
  BY FS_RemoveElement
<1>3. IsFiniteSet(T)
  <2>1. IsFiniteSet(S \cup {x})
    BY FS_AddElement
  <2> QED BY <2>1, FS_Subset
<1>4. Cardinality(W) \in Nat /\ Cardinality(T) \in Nat
  BY <1>3, FS_CardinalityType
<1> QED BY <1>1, <1>2, <1>4

(* What KeysInv speaks of, and its types. *)
LEMMA KeyTypes ==
  ASSUME TypeOK
  PROVE  /\ fcnt_gateway_map \subseteq Keys /\ fcnt_gateway_map_keys \in Seq(Keys)
         /\ Len(fcnt_gateway_map_keys) \in Nat /\ Len(fcnt_gateway_map_keys) <= MapMax
         /\ keyCopy \in [Workers -> Seq(Keys)]
         /\ DOMAIN pc = Workers /\ DOMAIN op = Workers /\ calls \in Nat /\ noSignal \in Nat
         /\ MapMax \in Nat \ {0} /\ ToSet(<<>>) = {} /\ Len(<<>>) = 0
BY MemoryAssumption DEF TypeOK, MemoryTypeOK, HandlerTypeOK, PastTypeOK, ToSet

LEMMA StraysInMap == Strays \subseteq fcnt_gateway_map
BY DEF Strays, Stranded, AtRisk

(* No step but a handler's return and the restart changes who is at work.  *)
LEMMA CountKept ==
  ASSUME TypeOK, CountInv, calls' = calls, noSignal' = noSignal,
         IsFiniteSet(fcnt_gateway_map'), Strays' \subseteq Strays, Working' \subseteq Working
  PROVE  CountInv'
<1>1. IsFiniteSet(Strays)
  BY StraysInMap, FS_Subset DEF CountInv
<1>2. IsFiniteSet(Working')
  BY FS_Subset DEF CountInv
<1>3. calls + noSignal \in Nat
  BY KeyTypes
<1>4. Cardinality(Strays') + Cardinality(Working') <= calls + noSignal
  BY <1>1, <1>3, FewerCounted DEF CountInv
<1> QED BY <1>2, <1>4 DEF CountInv

(* A statement of on_message, or of nobody's, that puts no key into the    *)
(* map or the deque.                                                       *)
LEMMA QuietMessageKeys ==
  ASSUME TypeOK, KeysInv,
         UNCHANGED <<fcnt_gateway_map_keys, pc, op, keyCopy, calls, noSignal>>,
         fcnt_gateway_map' \subseteq fcnt_gateway_map,
         mpc = "append" => mpc' = "append" /\ Key' = Key,
         \/ mpc \notin Using
         \/ mpc' \in Using /\ Key' = Key
         \/ Key \notin fcnt_gateway_map
         \/ \A w \in Workers : pc[w] \notin Replacing,
         mpc' \in {"insert", "append"} /\ Len(fcnt_gateway_map_keys) = MapMax =>
             Head(fcnt_gateway_map_keys) \notin fcnt_gateway_map' \ {Key'}
  PROVE  KeysInv'
<1>1. CopyInv'
  BY DEF KeysInv, CopyInv
<1>2. CountInv'
  <2>1. IsFiniteSet(fcnt_gateway_map')
    BY FS_Subset DEF KeysInv, CountInv
  <2>2. Working' = Working
    BY DEF Working
  <2>3. Stranded' \subseteq Stranded
    BY DEF Stranded, Listed
  <2>4. AtRisk' = {}
    BY DEF AtRisk
  <2>5. \A w \in Workers : /\ pc'[w] = pc[w]
                           /\ LeftOut(w)' \subseteq LeftOut(w)
                           /\ CopyAtRisk(w)' \subseteq CopyAtRisk(w)
    BY DEF LeftOut, CopyAtRisk
  <2>6. \A w \in Workers : LeftOut(w)' \cup CopyAtRisk(w)' \subseteq fcnt_gateway_map
    BY DEF LeftOut, CopyAtRisk
  <2>7. Strays' \subseteq Strays
    BY <2>3, <2>4, <2>5, <2>6 DEF Strays
  <2> QED BY <2>1, <2>2, <2>7, CountKept DEF KeysInv
<1> QED BY <1>1, <1>2 DEF KeysInv

LEMMA InsertKeyKeys ==
  ASSUME TypeOK, KeysInv, InsertKey
  PROVE  KeysInv'
<1>1. /\ mpc = "insert" /\ mpc' = "append" /\ UNCHANGED <<dev, raw>>
      /\ fcnt_gateway_map' = fcnt_gateway_map \cup {Key}
      /\ UNCHANGED <<fcnt_gateway_map_keys, pc, op, keyCopy, calls, noSignal>>
  BY DEF InsertKey, Goto, callVars, copyVars, pastVars
<1>2. Key' = Key
  BY <1>1 DEF Key
<1>3. CopyInv'
  BY <1>1 DEF KeysInv, CopyInv
<1>4. CountInv'
  <2>1. IsFiniteSet(fcnt_gateway_map')
    BY <1>1, FS_AddElement DEF KeysInv, CountInv
  <2>2. Working' = Working
    BY <1>1 DEF Working
  <2>3. Stranded' \subseteq Stranded
    BY <1>1, <1>2 DEF Stranded, Listed
  <2>4. AtRisk' \subseteq AtRisk
    BY <1>1, <1>2 DEF AtRisk
  <2>5. \A w \in Workers : /\ LeftOut(w)' \subseteq LeftOut(w) \cup {Key}
                           /\ CopyAtRisk(w)' \subseteq CopyAtRisk(w) \cup {Key}
    BY <1>1 DEF LeftOut, CopyAtRisk
  <2>6. Strays' \subseteq Strays
    BY <1>1, <1>2, <2>3, <2>4, <2>5 DEF Strays, Using
  <2> QED BY <1>1, <2>1, <2>2, <2>6, CountKept DEF KeysInv
<1> QED BY <1>3, <1>4 DEF KeysInv

LEMMA KeyIsKey ==
  ASSUME ThreadInv, mpc \in {"insert", "append"}
  PROVE  Key \in Keys
BY DEF ThreadInv, ThreadTypeOK, Key, Keys, RawCounters

(* The deque drops at most its oldest key: it has been evicted, or counts. *)
LEMMA AppendKeyKeys ==
  ASSUME TypeOK, ThreadInv, KeysInv, AppendKey
  PROVE  KeysInv'
<1>1. /\ mpc = "append" /\ mpc' = "use" /\ UNCHANGED <<dev, raw>>
      /\ fcnt_gateway_map_keys' =
            IF Len(Append(fcnt_gateway_map_keys, Key)) > MapMax
            THEN Tail(Append(fcnt_gateway_map_keys, Key)) ELSE Append(fcnt_gateway_map_keys, Key)
      /\ UNCHANGED <<fcnt_gateway_map, pc, op, keyCopy, calls, noSignal>>
  BY DEF AppendKey, Goto, callVars, copyVars, pastVars
<1>2. Key' = Key
  BY <1>1 DEF Key
<1> HIDE DEF Key
<1>3. /\ Len(fcnt_gateway_map_keys) <= Len(fcnt_gateway_map_keys')
      /\ Len(fcnt_gateway_map_keys') <= MapMax /\ Len(fcnt_gateway_map_keys') \in Nat
      /\ ToSet(fcnt_gateway_map_keys') \subseteq ToSet(fcnt_gateway_map_keys) \cup {Key}
      /\ Key \in ToSet(fcnt_gateway_map_keys')
      /\ \A x \in ToSet(fcnt_gateway_map_keys) :
            \/ x \in ToSet(fcnt_gateway_map_keys')
            \/ Len(fcnt_gateway_map_keys) = MapMax /\ x = Head(fcnt_gateway_map_keys)
  <2>1. /\ Key \in Keys /\ fcnt_gateway_map_keys \in Seq(Keys)
        /\ Len(fcnt_gateway_map_keys) <= MapMax
    BY <1>1, KeyTypes, KeyIsKey
  <2>2. PICK q : q = fcnt_gateway_map_keys'
    OBVIOUS
  <2>3. /\ q \in Seq(Keys) /\ Len(q) <= MapMax /\ Len(fcnt_gateway_map_keys) <= Len(q)
        /\ Key \in ToSet(q) /\ ToSet(q) \subseteq ToSet(fcnt_gateway_map_keys) \cup {Key}
        /\ \A x \in ToSet(fcnt_gateway_map_keys) :
              \/ x \in ToSet(q)
              \/ Len(fcnt_gateway_map_keys) = MapMax /\ x = Head(fcnt_gateway_map_keys)
    BY <1>1, <2>1, <2>2, AppendKeyFacts
  <2>4. Len(q) \in Nat
    BY <2>3, SequenceFacts
  <2> QED BY <2>2, <2>3, <2>4
<1>4. CopyInv'
  <2> SUFFICES ASSUME NEW w \in Workers, pc[w] = "storeKeys"
               PROVE  Len(keyCopy[w]) <= Len(fcnt_gateway_map_keys')
    BY <1>1 DEF KeysInv, CopyInv
  <2>1. Len(keyCopy[w]) \in Nat
    BY KeyTypes, SequenceFacts
  <2>2. Len(keyCopy[w]) <= Len(fcnt_gateway_map_keys)
    BY DEF KeysInv, CopyInv
  <2> QED BY <1>3, <2>1, <2>2, KeyTypes
<1>5. CountInv'
  <2>1. Working' = Working /\ IsFiniteSet(fcnt_gateway_map')
    BY <1>1 DEF Working, KeysInv, CountInv
  <2>2. ASSUME NEW k \in fcnt_gateway_map, k # Key, Len(fcnt_gateway_map_keys) = MapMax,
               k = Head(fcnt_gateway_map_keys)
        PROVE  k \in Strays
    BY <1>1, <2>2 DEF AtRisk, Strays
  <2>3. Stranded' \subseteq Strays
    <3> SUFFICES ASSUME NEW k \in fcnt_gateway_map, k \notin ToSet(fcnt_gateway_map_keys')
                 PROVE  k \in Strays
      BY <1>1 DEF Stranded, Listed
    <3>1. k # Key
      BY <1>3
    <3>2. CASE k \in ToSet(fcnt_gateway_map_keys)
      BY <1>3, <2>2, <3>1, <3>2
    <3>3. CASE k \notin ToSet(fcnt_gateway_map_keys)
      BY <1>1, <3>1, <3>3 DEF Strays, Stranded, Listed
    <3> QED BY <3>2, <3>3
  <2>4. AtRisk' = {}
    BY <1>1 DEF AtRisk
  <2>5. \A w \in Workers : LeftOut(w)' \subseteq LeftOut(w) \cup {Key}
    BY <1>1, <1>3 DEF LeftOut
  <2>6. ASSUME NEW w \in Workers, NEW k \in CopyAtRisk(w)', k # Key
        PROVE  k \in Strays
    <3>1. /\ k \in fcnt_gateway_map /\ pc[w] = "storeKeys" /\ Len(keyCopy[w]) = MapMax
          /\ k = Head(keyCopy[w])
      BY <1>1, <2>6 DEF CopyAtRisk
    <3>2. CASE k # Head(fcnt_gateway_map_keys)
      <4>1. k \in CopyAtRisk(w)
        BY <3>1, <3>2 DEF CopyAtRisk
      <4> QED BY <2>6, <3>1, <4>1 DEF Strays, Replacing
    <3>3. CASE k = Head(fcnt_gateway_map_keys)
      <4>1. Len(fcnt_gateway_map_keys) = MapMax
        <5>1. Len(keyCopy[w]) <= Len(fcnt_gateway_map_keys)
          BY <3>1 DEF KeysInv, CopyInv
        <5> QED BY <3>1, <5>1, KeyTypes
      <4> QED BY <2>2, <2>6, <3>1, <3>3, <4>1
    <3> QED BY <3>2, <3>3
  <2>7. Strays' \subseteq Strays
    <3> SUFFICES ASSUME NEW k \in Strays' PROVE k \in Strays
      OBVIOUS
    <3>1. CASE k \in Stranded' \cup AtRisk'
      BY <2>3, <2>4, <3>1
    <3>2. CASE k \notin Stranded' \cup AtRisk'
      <4>1. PICK w \in Workers : pc[w] \in Replacing /\ k \in LeftOut(w)' \cup CopyAtRisk(w)'
        BY <1>1, <3>2 DEF Strays
      <4>2. k # Key /\ k \in fcnt_gateway_map
        BY <1>1, <1>2, <3>2 DEF Strays, Using
      <4>3. CASE k \in CopyAtRisk(w)'
        BY <2>6, <4>2, <4>3
      <4>4. CASE k \in LeftOut(w)'
        <5>1. k \in LeftOut(w)
          BY <2>5, <4>2, <4>4
        <5> QED BY <4>1, <4>2, <5>1 DEF Strays
      <4> QED BY <4>1, <4>3, <4>4
    <3> QED BY <3>1, <3>2
  <2> QED BY <1>1, <2>1, <2>7, CountKept DEF KeysInv
<1> QED BY <1>4, <1>5 DEF KeysInv

(* Giving the uplink up leaves one key more that may be stranded.          *)
LEMMA GiveUpUplinkKeys ==
  ASSUME TypeOK, KeysInv, mpc = "use", mpc' = "idle", noSignal' = noSignal + 1,
         UNCHANGED <<fcnt_gateway_map, fcnt_gateway_map_keys, pc, op, keyCopy, calls>>
  PROVE  KeysInv'
<1>1. CopyInv'
  BY DEF KeysInv, CopyInv
<1>2. Working' = Working
  BY DEF Working
<1>3. Strays' \subseteq Strays \cup {Key}
  <2>1. Stranded' \subseteq Stranded /\ AtRisk' = {}
    BY DEF Stranded, Listed, AtRisk
  <2>2. \A w \in Workers : LeftOut(w)' = LeftOut(w) /\ CopyAtRisk(w)' = CopyAtRisk(w)
    BY DEF LeftOut, CopyAtRisk
  <2> HIDE DEF Key
  <2> QED BY <2>1, <2>2 DEF Strays
<1>4. IsFiniteSet(Strays) /\ calls + noSignal \in Nat /\ calls \in Nat /\ noSignal \in Nat
  BY KeyTypes, StraysInMap, FS_Subset DEF KeysInv, CountInv
<1>5. Cardinality(Strays') + Cardinality(Working) <= calls + noSignal + 1
  BY <1>3, <1>4, OneMore DEF KeysInv, CountInv
<1>6. CountInv'
  BY <1>2, <1>4, <1>5 DEF KeysInv, CountInv
<1> QED BY <1>1, <1>6 DEF KeysInv

LEMMA LockFree ==
  ASSUME ThreadInv, lock = NoOne
  PROVE  \A w \in Workers : pc[w] \notin Replacing
BY MemoryAssumption DEF ThreadInv, LockHeldInside, Replacing

LEMMA MessageKeys ==
  ASSUME TypeOK, ThreadInv, KeysInv, OnMessage
  PROVE  KeysInv'
<1>1. CASE ReadTally \/ StoreTally \/ SetLast \/ LookUpKey
  <2>1. /\ UNCHANGED <<fcnt_gateway_map, fcnt_gateway_map_keys, pc, op, keyCopy, calls, noSignal>>
        /\ mpc \notin Using /\ mpc' # "append"
        /\ mpc' = "insert" => Len(fcnt_gateway_map_keys) # MapMax
    BY <1>1 DEF ReadTally, StoreTally, SetLast, LookUpKey, Goto, Using, memVars, callVars,
        copyVars, pastVars
  <2> QED BY <2>1, QuietMessageKeys DEF Using
<1>2. CASE EvictKey
  <2>1. /\ UNCHANGED <<fcnt_gateway_map_keys, pc, op, keyCopy, calls, noSignal>>
        /\ mpc = "evict" /\ mpc' \in {"idle", "insert"}
        /\ fcnt_gateway_map' \subseteq fcnt_gateway_map
        /\ mpc' = "insert" => Head(fcnt_gateway_map_keys) \notin fcnt_gateway_map'
    BY <1>2 DEF EvictKey, Evicted, Goto, ToLoop, callVars, copyVars, pastVars
  <2> QED BY <2>1, QuietMessageKeys DEF Using
<1>3. CASE InsertKey
  BY <1>3, InsertKeyKeys
<1>4. CASE AppendKey
  BY <1>4, AppendKeyKeys
<1>5. CASE UseKey
  <2>1. /\ UNCHANGED <<fcnt_gateway_map, fcnt_gateway_map_keys, pc, op, keyCopy, calls>>
        /\ mpc = "use"
    BY <1>5 DEF UseKey, memVars, callVars, copyVars
  <2>2. CASE noSignal' = noSignal
    <3>1. mpc' \in {"idle", "number"}
      BY <1>5 DEF UseKey, Goto, ToLoop
    <3>2. Key \in fcnt_gateway_map => mpc' = "number" /\ UNCHANGED <<dev, raw>>
      <4>1. noSignal \in Nat
        BY KeyTypes
      <4> QED BY <1>5, <2>2, <4>1 DEF UseKey, Goto
    <3>3. Key \in fcnt_gateway_map => mpc' \in Using /\ Key' = Key
      BY <3>2 DEF Using, Key
    <3> QED BY <2>1, <2>2, <3>1, <3>3, QuietMessageKeys
  <2>3. CASE noSignal' # noSignal
    <3>1. mpc' = "idle" /\ noSignal' = noSignal + 1
      BY <1>5, <2>3 DEF UseKey, ToLoop
    <3> QED BY <2>1, <3>1, GiveUpUplinkKeys
  <2> QED BY <2>2, <2>3
<1>6. CASE ReadNumber
  <2>1. /\ UNCHANGED <<fcnt_gateway_map, fcnt_gateway_map_keys, pc, op, keyCopy, calls, noSignal>>
        /\ mpc = "number" /\ mpc' \in {"idle", "push"} /\ lock = NoOne
    BY <1>6 DEF ReadNumber, Goto, ToLoop, memVars, callVars, copyVars, pastVars
  <2>2. \A w \in Workers : pc[w] \notin Replacing
    BY <2>1, LockFree
  <2> QED BY <2>1, <2>2, QuietMessageKeys
<1>7. CASE PushEvent \/ StartSave
  <2>1. /\ UNCHANGED <<fcnt_gateway_map, fcnt_gateway_map_keys, pc, op, keyCopy, calls, noSignal>>
        /\ mpc \in {"push", "spawn"} /\ mpc' \in {"idle", "spawn"}
    BY <1>7 DEF PushEvent, StartSave, Goto, ToLoop, memVars, callVars, copyVars, pastVars
  <2> QED BY <2>1, QuietMessageKeys DEF Using
<1> QED BY <1>1, <1>2, <1>3, <1>4, <1>5, <1>6, <1>7 DEF OnMessage

(* A handler's step away from the map, the deque and its copy of the deque. *)
LEMMA QuietHandlerKeys ==
  ASSUME TypeOK, KeysInv, NEW w \in Workers,
         UNCHANGED <<fcnt_gateway_map, fcnt_gateway_map_keys, mpc, dev, raw, calls, noSignal>>,
         \A v \in Workers : v # w =>
             pc'[v] = pc[v] /\ op'[v] = op[v] /\ keyCopy'[v] = keyCopy[v],
         pc[w] # "idle", pc'[w] \notin Replacing, keyCopy'[w] = <<>>
  PROVE  KeysInv'
<1>1. Key' = Key
  BY DEF Key
<1> HIDE DEF Key
<1>2. CopyInv'
  BY DEF KeysInv, CopyInv, Replacing
<1>3. CountInv'
  <2>1. Working' \subseteq Working /\ IsFiniteSet(fcnt_gateway_map')
    BY DEF Working, KeysInv, CountInv
  <2>2. Stranded' \subseteq Stranded /\ AtRisk' \subseteq AtRisk
    BY <1>1 DEF Stranded, Listed, AtRisk
  <2>3. \A v \in Workers : pc'[v] \in Replacing =>
            pc[v] = pc'[v] /\ LeftOut(v)' = LeftOut(v) /\ CopyAtRisk(v)' = CopyAtRisk(v)
    BY DEF LeftOut, CopyAtRisk
  <2>4. Strays' \subseteq Strays
    BY <1>1, <2>2, <2>3 DEF Strays
  <2> QED BY <2>1, <2>4, CountKept DEF KeysInv
<1> QED BY <1>2, <1>3 DEF KeysInv

(* Once its nodes' keys are out of the map there is nothing to leave out.  *)
LEMMA PopKeysKeys ==
  ASSUME TypeOK, ThreadInv, KeysInv, NEW w \in Workers, PopKeys(w)
  PROVE  KeysInv'
<1>1. /\ pc[w] = "pop" /\ pc'[w] \in {"storeKeys", "copyKeys"}
      /\ pc'[w] = "storeKeys" => op[w].kind \in {"all", "keep"}
      /\ \A v \in Workers : v # w => pc'[v] = pc[v]
      /\ fcnt_gateway_map' = {k \in fcnt_gateway_map : k.dev \notin op[w].devs}
      /\ UNCHANGED <<fcnt_gateway_map_keys, mpc, dev, raw, op, keyCopy, calls, noSignal>>
  BY DEF PopKeys, Step, ThreadInv, ThreadTypeOK, msgVars, copyVars, pastVars
<1>2. Key' = Key
  BY <1>1 DEF Key
<1> HIDE DEF Key
<1>3. fcnt_gateway_map \subseteq Keys /\ Len(fcnt_gateway_map_keys) \in Nat
      /\ MapMax \in Nat \ {0} /\ Len(<<>>) = 0 /\ keyCopy[w] = <<>>
  BY <1>1, KeyTypes DEF KeysInv, CopyInv
<1>4. pc'[w] = "storeKeys" => fcnt_gateway_map' = {}
  <2>1. pc'[w] = "storeKeys" => op[w].devs = Devs
    BY <1>1 DEF ThreadInv, ThreadTypeOK, Ops
  <2> QED BY <1>1, <1>3, <2>1 DEF Keys
<1>5. CopyInv'
  <2>1. ASSUME NEW v \in Workers, v # w
        PROVE  /\ pc'[v] \notin {"filterKeys", "storeKeys"} => keyCopy'[v] = <<>>
               /\ pc'[v] = "storeKeys" => Len(keyCopy'[v]) <= Len(fcnt_gateway_map_keys')
    BY <1>1, <2>1 DEF KeysInv, CopyInv
  <2>2. keyCopy'[w] = <<>> /\ 0 <= Len(fcnt_gateway_map_keys')
    BY <1>1, <1>3
  <2> QED BY <1>3, <2>1, <2>2 DEF CopyInv
<1>6. CountInv'
  <2>1. IsFiniteSet(fcnt_gateway_map')
    BY <1>1, FS_Subset DEF KeysInv, CountInv
  <2>2. Working' = Working
    BY <1>1 DEF Working
  <2>3. Stranded' \subseteq Stranded /\ AtRisk' \subseteq AtRisk
    BY <1>1, <1>2 DEF Stranded, Listed, AtRisk
  <2>4. LeftOut(w)' = {} /\ CopyAtRisk(w)' = {}
    BY <1>1, <1>4 DEF LeftOut, CopyAtRisk
  <2>5. ASSUME NEW v \in Workers, v # w
        PROVE  LeftOut(v)' \subseteq LeftOut(v) /\ CopyAtRisk(v)' \subseteq CopyAtRisk(v)
    BY <1>1, <2>5 DEF LeftOut, CopyAtRisk
  <2>6. fcnt_gateway_map' \subseteq fcnt_gateway_map
    BY <1>1
  <2>7. Strays' \subseteq Strays
    BY <1>1, <1>2, <2>3, <2>4, <2>5, <2>6 DEF Strays
  <2> QED BY <1>1, <2>1, <2>2, <2>7, CountKept DEF KeysInv
<1> QED BY <1>5, <1>6 DEF KeysInv

LEMMA CopyKeysKeys ==
  ASSUME TypeOK, ThreadInv, KeysInv, NEW w \in Workers,
         CopyKeys(w) \/ (FilterKeys(w) /\ ~GiveUp(w))
  PROVE  KeysInv'
<1>1. /\ pc[w] \in {"copyKeys", "filterKeys"} /\ pc'[w] \in {"filterKeys", "storeKeys"}
      /\ \A v \in Workers : v # w => pc'[v] = pc[v] /\ keyCopy'[v] = keyCopy[v]
      /\ UNCHANGED <<fcnt_gateway_map, fcnt_gateway_map_keys, mpc, dev, raw, op, calls, noSignal>>
  BY DEF CopyKeys, FilterKeys, Step, ThreadInv, ThreadTypeOK, TypeOK, HandlerTypeOK, memVars,
      msgVars, pastVars
<1>2. Key' = Key
  BY <1>1 DEF Key
<1> HIDE DEF Key
<1>3. /\ fcnt_gateway_map_keys \in Seq(Keys) /\ Len(fcnt_gateway_map_keys) \in Nat
      /\ Len(fcnt_gateway_map_keys) <= MapMax /\ MapMax \in Nat \ {0}
      /\ DOMAIN keyCopy = Workers
  BY KeyTypes
<1>4. pc'[w] = "storeKeys" =>
        /\ ToSet(keyCopy'[w]) = {k \in ToSet(fcnt_gateway_map_keys) : k.dev \notin op[w].devs}
        /\ Len(keyCopy'[w]) <= Len(fcnt_gateway_map_keys)
        /\ Len(keyCopy'[w]) = MapMax => Head(keyCopy'[w]) = Head(fcnt_gateway_map_keys)
  <2>1. CASE CopyKeys(w)
    BY <2>1 DEF CopyKeys, Step, ThreadInv, ThreadTypeOK
  <2>2. CASE FilterKeys(w) /\ ~GiveUp(w)
    <3>1. PICK q \in KeysWithout(fcnt_gateway_map_keys, op[w].devs) :
              keyCopy' = [keyCopy EXCEPT ![w] = q]
      BY <2>2 DEF FilterKeys
    <3>2. /\ q \in Seq(Keys) /\ Len(q) <= Len(fcnt_gateway_map_keys)
          /\ ToSet(q) = {k \in ToSet(fcnt_gateway_map_keys) : k.dev \notin op[w].devs}
          /\ Len(q) = Len(fcnt_gateway_map_keys) /\ fcnt_gateway_map_keys # <<>> =>
               Head(q) = Head(fcnt_gateway_map_keys)
      BY <1>3, KeysWithoutFacts
    <3>3. Len(q) \in Nat /\ keyCopy'[w] = q /\ Len(<<>>) = 0
      BY <1>3, <3>1, <3>2, SequenceFacts
    <3>4. ASSUME Len(q) = MapMax
          PROVE  Len(q) = Len(fcnt_gateway_map_keys) /\ fcnt_gateway_map_keys # <<>>
      BY <1>3, <3>2, <3>3, <3>4
    <3> QED BY <3>2, <3>3, <3>4
  <2> QED BY <2>1, <2>2
<1>5. CopyInv'
  BY <1>1, <1>4 DEF KeysInv, CopyInv
<1>6. CountInv'
  <2>1. Working' = Working /\ IsFiniteSet(fcnt_gateway_map')
    BY <1>1 DEF Working, KeysInv, CountInv
  <2>2. Stranded' \subseteq Stranded /\ AtRisk' \subseteq AtRisk
    BY <1>1, <1>2 DEF Stranded, Listed, AtRisk
  <2>3. LeftOut(w)' \subseteq LeftOut(w) /\ CopyAtRisk(w)' = {}
    BY <1>1, <1>4 DEF LeftOut, CopyAtRisk
  <2>4. ASSUME NEW v \in Workers, v # w
        PROVE  LeftOut(v)' \subseteq LeftOut(v) /\ CopyAtRisk(v)' \subseteq CopyAtRisk(v)
    BY <1>1, <2>4 DEF LeftOut, CopyAtRisk
  <2>5. \A v \in Workers : pc'[v] \in Replacing => pc[v] \in Replacing
    BY <1>1 DEF Replacing
  <2>6. Strays' \subseteq Strays
    BY <1>1, <1>2, <2>2, <2>3, <2>4, <2>5 DEF Strays
  <2> QED BY <1>1, <2>1, <2>6, CountKept DEF KeysInv
<1> QED BY <1>5, <1>6 DEF KeysInv

(* The handler strands at most the key of on_message, and is done.          *)
LEMMA StoreKeysKeys ==
  ASSUME TypeOK, ThreadInv, KeysInv, NEW w \in Workers, StoreKeys(w)
  PROVE  KeysInv'
<1>1. /\ pc[w] = "storeKeys" /\ pc'[w] = "idle" /\ keyCopy'[w] = <<>>
      /\ \A v \in Workers : v # w => pc'[v] = pc[v] /\ keyCopy'[v] = keyCopy[v]
      /\ fcnt_gateway_map_keys' = keyCopy[w]
      /\ UNCHANGED <<fcnt_gateway_map, mpc, dev, raw, calls, noSignal>>
  BY DEF StoreKeys, Return, ThreadInv, ThreadTypeOK, TypeOK, HandlerTypeOK, msgVars, pastVars
<1>2. Key' = Key
  BY <1>1 DEF Key
<1> HIDE DEF Key
<1>3. \A v \in Workers : pc'[v] \in Outside
  <2>1. lock = w
    BY <1>1 DEF ThreadInv, LockHeldInside
  <2> QED BY <1>1, <2>1 DEF ThreadInv, LockHeldInside, Outside
<1>4. CopyInv'
  <2>1. \A v \in Workers : keyCopy'[v] = <<>>
    BY <1>1, <1>3 DEF KeysInv, CopyInv, Outside
  <2> QED BY <1>3, <2>1 DEF CopyInv, Outside
<1>5. Strays' \subseteq Strays \cup {Key}
  <2>1. ASSUME NEW k \in Stranded', k # Key PROVE k \in Strays
    <3>1. k \in fcnt_gateway_map /\ k \notin ToSet(keyCopy[w])
      BY <1>1, <2>1 DEF Stranded, Listed
    <3>2. CASE k \in ToSet(fcnt_gateway_map_keys)
      <4>1. k \in LeftOut(w)
        BY <1>1, <3>1, <3>2 DEF LeftOut
      <4> QED BY <1>1, <2>1, <3>1, <4>1 DEF Strays, Replacing
    <3>3. CASE k \notin ToSet(fcnt_gateway_map_keys)
      BY <2>1, <3>1, <3>3 DEF Strays, Stranded, Listed
    <3> QED BY <3>2, <3>3
  <2>2. ASSUME NEW k \in AtRisk' PROVE k \in Strays
    <3>1. /\ k \in fcnt_gateway_map \ {Key} /\ mpc \in {"insert", "append"}
          /\ Len(keyCopy[w]) = MapMax /\ k = Head(keyCopy[w])
      BY <1>1, <1>2, <2>2 DEF AtRisk
    <3>2. CASE k = Head(fcnt_gateway_map_keys)
      <4>1. Len(fcnt_gateway_map_keys) = MapMax
        <5>1. Len(keyCopy[w]) <= Len(fcnt_gateway_map_keys)
          BY <1>1 DEF KeysInv, CopyInv
        <5> QED BY <3>1, <5>1, KeyTypes
      <4> QED BY <3>1, <3>2, <4>1 DEF Strays, AtRisk
    <3>3. CASE k # Head(fcnt_gateway_map_keys)
      <4>1. k \in CopyAtRisk(w)
        BY <1>1, <3>1, <3>3 DEF CopyAtRisk
      <4> QED BY <1>1, <3>1, <4>1 DEF Strays, Replacing
    <3> QED BY <3>2, <3>3
  <2>3. \A v \in Workers : pc'[v] \notin Replacing
    BY <1>3 DEF Replacing, Outside
  <2> QED BY <2>1, <2>2, <2>3 DEF Strays
<1>6. CountInv'
  <2>1. Working' = Working \ {w} /\ w \in Working
    BY <1>1 DEF Working
  <2>2. IsFiniteSet(Strays) /\ calls + noSignal \in Nat
    BY KeyTypes, StraysInMap, FS_Subset DEF KeysInv, CountInv
  <2>3. Cardinality(Strays') + Cardinality(Working') <= calls + noSignal
    BY <1>5, <2>1, <2>2, OneStranded DEF KeysInv, CountInv
  <2>4. IsFiniteSet(Working')
    BY <2>1, FS_RemoveElement DEF KeysInv, CountInv
  <2> QED BY <1>1, <2>3, <2>4 DEF KeysInv, CountInv
<1> QED BY <1>4, <1>6 DEF KeysInv

LEMMA HandlerKeys ==
  ASSUME TypeOK, ThreadInv, KeysInv, NEW w \in Workers, Handler(w)
  PROVE  KeysInv'
<1>1. CASE PopKeys(w)
  BY <1>1, PopKeysKeys
<1>2. CASE CopyKeys(w) \/ (FilterKeys(w) /\ ~GiveUp(w))
  BY <1>2, CopyKeysKeys
<1>3. CASE StoreKeys(w)
  BY <1>3, StoreKeysKeys
<1>4. CASE \/ EraseRows(w) \/ Relock(w) \/ Vacuum(w) \/ CopyEvents(w) \/ StoreEvents(w)
           \/ ClearLast(w) \/ ClearMissed(w) \/ (FilterEvents(w) /\ ~GiveUp(w))
  <2>1. /\ UNCHANGED <<fcnt_gateway_map, fcnt_gateway_map_keys, mpc, dev, raw, calls, noSignal, op>>
        /\ \A v \in Workers : v # w => pc'[v] = pc[v]
        /\ pc[w] \notin {"idle", "filterKeys", "storeKeys"} /\ pc'[w] \notin Replacing
        /\ keyCopy' = keyCopy
    BY <1>4 DEF EraseRows, Relock, Vacuum, CopyEvents, StoreEvents, ClearLast, ClearMissed,
        FilterEvents, Step, ThreadInv, ThreadTypeOK, Replacing, memVars, msgVars, copyVars,
        pastVars
  <2>2. keyCopy[w] = <<>>
    BY <2>1 DEF KeysInv, CopyInv
  <2> QED BY <2>1, <2>2, QuietHandlerKeys
<1>5. CASE \/ EraseRowsFails(w) \/ VacuumFails(w)
           \/ (FilterEvents(w) /\ GiveUp(w)) \/ (FilterKeys(w) /\ GiveUp(w))
  <2>1. Return(w) /\ pc[w] # "idle"
        /\ UNCHANGED <<fcnt_gateway_map, fcnt_gateway_map_keys, mpc, dev, raw, calls, noSignal>>
    BY <1>5 DEF EraseRowsFails, VacuumFails, FilterEvents, FilterKeys, GiveUp, memVars, msgVars,
        pastVars
  <2>2. /\ pc'[w] \notin Replacing /\ keyCopy'[w] = <<>>
        /\ \A v \in Workers : v # w =>
              pc'[v] = pc[v] /\ op'[v] = op[v] /\ keyCopy'[v] = keyCopy[v]
    BY <2>1 DEF Return, ThreadInv, ThreadTypeOK, TypeOK, HandlerTypeOK, Replacing
  <2> QED BY <2>1, <2>2, QuietHandlerKeys
<1> QED BY <1>1, <1>2, <1>3, <1>4, <1>5 DEF Handler

LEMMA CallKeys ==
  ASSUME TypeOK, ThreadInv, KeysInv, NEW w \in Workers, NEW o \in Ops, Call(w, o)
  PROVE  KeysInv'
<1>1. /\ pc[w] = "idle" /\ pc'[w] = "erase" /\ calls' = calls + 1
      /\ \A v \in Workers : v # w => pc'[v] = pc[v] /\ op'[v] = op[v]
      /\ UNCHANGED <<fcnt_gateway_map, fcnt_gateway_map_keys, mpc, dev, raw, keyCopy, noSignal>>
  BY DEF Call, ThreadInv, ThreadTypeOK, memVars, msgVars, copyVars
<1>2. Key' = Key
  BY <1>1 DEF Key
<1> HIDE DEF Key
<1>3. CopyInv'
  BY <1>1 DEF KeysInv, CopyInv
<1>4. CountInv'
  <2>1. Working' = Working \cup {w} /\ w \notin Working
    BY <1>1 DEF Working
  <2>2. Stranded' = Stranded /\ AtRisk' = AtRisk
    BY <1>1, <1>2 DEF Stranded, Listed, AtRisk
  <2>3. \A v \in Workers : pc'[v] \in Replacing =>
            /\ pc[v] \in Replacing
            /\ LeftOut(v)' = LeftOut(v) /\ CopyAtRisk(v)' = CopyAtRisk(v)
    BY <1>1 DEF LeftOut, CopyAtRisk, Replacing
  <2>4. Strays' \subseteq Strays
    BY <1>1, <1>2, <2>2, <2>3 DEF Strays
  <2>5. IsFiniteSet(Working') /\ Cardinality(Working') = Cardinality(Working) + 1
    BY <2>1, FS_AddElement DEF KeysInv, CountInv
  <2>6. IsFiniteSet(Strays) /\ calls \in Nat /\ noSignal \in Nat
    BY KeyTypes, StraysInMap, FS_Subset DEF KeysInv, CountInv
  <2>7. Cardinality(Strays') <= Cardinality(Strays) /\ IsFiniteSet(Strays')
    BY <2>4, <2>6, FS_Subset
  <2>8. /\ Cardinality(Working) \in Nat /\ Cardinality(Strays) \in Nat
        /\ Cardinality(Strays') \in Nat
    BY <2>6, <2>7, FS_CardinalityType DEF KeysInv, CountInv
  <2>9. Cardinality(Strays') + Cardinality(Working') <= calls' + noSignal
    BY <1>1, <2>5, <2>6, <2>7, <2>8 DEF KeysInv, CountInv
  <2> QED BY <1>1, <2>5, <2>9 DEF KeysInv, CountInv
<1> QED BY <1>3, <1>4 DEF KeysInv

(* No key, and no handler at work. *)
LEMMA NoKeys ==
  ASSUME fcnt_gateway_map = {}, \A w \in Workers : pc[w] = "idle" /\ keyCopy[w] = <<>>,
         calls \in Nat, noSignal \in Nat
  PROVE  KeysInv
<1>1. Strays = {} /\ Working = {}
  BY StraysInMap DEF Working
<1>2. CountInv
  <2>1. 0 <= calls + noSignal
    OBVIOUS
  <2> QED BY <1>1, <2>1, FS_EmptySet DEF CountInv
<1> QED BY <1>2 DEF KeysInv, CopyInv

LEMMA KeysNext ==
  ASSUME TypeOK, ThreadInv, KeysInv, [Next]_vars
  PROVE  KeysInv'
<1>1. ASSUME NEW d \in Devs, NEW c \in RawCounters, ReceiveUplink(d, c) PROVE KeysInv'
  <2>1. /\ UNCHANGED <<fcnt_gateway_map, fcnt_gateway_map_keys, pc, op, keyCopy, calls, noSignal>>
        /\ mpc = "idle" /\ mpc' \in {"push", "gap"}
    BY <1>1 DEF ReceiveUplink, memVars, callVars, copyVars
  <2> QED BY <2>1, QuietMessageKeys DEF Using
<1>2. CASE OnMessage
  BY <1>2, MessageKeys
<1>3. ASSUME NEW f \in saving, SaveThread(f) PROVE KeysInv'
  <2>1. /\ UNCHANGED <<fcnt_gateway_map, fcnt_gateway_map_keys, pc, op, keyCopy, calls, noSignal>>
        /\ UNCHANGED <<mpc, dev, raw>>
    BY <1>3 DEF SaveThread, memVars, msgVars, callVars, copyVars
  <2> QED BY <2>1 DEF KeysInv, CountInv, CopyInv, Strays, LeftOut, CopyAtRisk, AtRisk,
        Stranded, Working, Listed, Key
<1>4. ASSUME NEW w \in Workers, Handler(w) PROVE KeysInv'
  BY <1>4, HandlerKeys
<1>5. ASSUME NEW w \in Workers, NEW o \in Ops, Call(w, o) PROVE KeysInv'
  BY <1>5, CallKeys
<1>6. CASE Restart
  <2>1. /\ fcnt_gateway_map' = {} /\ calls' = calls /\ noSignal' = noSignal
        /\ \A w \in Workers : pc'[w] = "idle" /\ keyCopy'[w] = <<>>
    BY <1>6 DEF Restart
  <2>2. Strays' = {} /\ Working' = {} /\ 0 <= calls + noSignal
    <3>1. calls \in Nat /\ noSignal \in Nat
      BY KeyTypes
    <3> QED BY <2>1, <3>1 DEF Strays, Stranded, AtRisk, Working
  <2>3. CountInv'
    BY <2>1, <2>2, FS_EmptySet DEF CountInv
  <2> QED BY <2>1, <2>3 DEF KeysInv, CopyInv
<1>7. CASE UNCHANGED vars
  <2>1. /\ UNCHANGED <<fcnt_gateway_map, fcnt_gateway_map_keys, pc, op, keyCopy, calls, noSignal>>
        /\ UNCHANGED <<mpc, dev, raw>>
    BY <1>7 DEF vars, memVars, msgVars, callVars, copyVars, pastVars
  <2> QED BY <2>1 DEF KeysInv, CountInv, CopyInv, Strays, LeftOut, CopyAtRisk, AtRisk,
        Stranded, Working, Listed, Key
<1> QED BY <1>1, <1>2, <1>3, <1>4, <1>5, <1>6, <1>7 DEF Next

-----------------------------------------------------------------------------
(* The types of memory. *)

LEMMA InitTypes == Init => TypeOK
<1> SUFFICES ASSUME Init PROVE TypeOK
  OBVIOUS
<1>1. HistoryTypeOK
  BY HistoryInitInv DEF Init, HistoryInv
<1>2. MemoryTypeOK
  <2>1. events \subseteq Frames /\ Cardinality(events) = 0
    BY FS_EmptySet DEF Init
  <2>2. Len(<<>>) = 0 /\ <<>> \in Seq(Keys)
    OBVIOUS
  <2> QED BY <2>1, <2>2, MemoryAssumption DEF Init, MemoryTypeOK, RawCounters
<1>3. MessageTypeOK
  BY DEF Init, MessageTypeOK, RawCounters
<1>4. HandlerTypeOK
  <2>1. NoCall \in Ops
    BY DEF NoCall, Ops
  <2> QED BY <2>1 DEF Init, HandlerTypeOK
<1>5. PastTypeOK
  <2>1. MaxUplinks \in Nat /\ MaxCalls \in Nat /\ MaxRestarts \in Nat
    BY MemoryAssumption
  <2>2. 0 \in 0 .. MaxUplinks /\ 0 \in 0 .. MaxCalls /\ 0 \in 0 .. MaxRestarts
    BY <2>1
  <2>3. \A d \in Devs : [e \in Devs |-> 0][d] \in Nat
    OBVIOUS
  <2> QED BY <2>2, <2>3 DEF Init, PastTypeOK
<1> QED BY <1>1, <1>2, <1>3, <1>4, <1>5 DEF TypeOK

(* on_message and the handlers write the counters and tallies of nodes.    *)
LEMMA CounterTypes ==
  ASSUME TypeOK, ThreadInv, [Next]_vars
  PROVE  last_fcnt' \in [Devs -> RawCounters] /\ missed_frames' \in [Devs -> Nat]
<1>1. /\ last_fcnt \in [Devs -> RawCounters] /\ missed_frames \in [Devs -> Nat]
      /\ tally \in Nat /\ raw \in RawCounters /\ None \in RawCounters
  BY DEF TypeOK, MemoryTypeOK, MessageTypeOK, RawCounters
<1>2. CASE SetLast \/ StoreTally
  BY <1>1, <1>2 DEF SetLast, StoreTally
<1>3. ASSUME NEW w \in Workers, Handler(w)
      PROVE  last_fcnt' \in [Devs -> RawCounters] /\ missed_frames' \in [Devs -> Nat]
  <2>1. CASE ClearLast(w) \/ ClearMissed(w)
    BY <1>1, <2>1 DEF ClearLast, ClearMissed, Zeroed
  <2>2. CASE ~ClearLast(w) /\ ~ClearMissed(w)
    BY <1>1, <1>3, <2>2 DEF Handler, EraseRows, EraseRowsFails, Relock, Vacuum, VacuumFails,
        CopyEvents, FilterEvents, StoreEvents, PopKeys, CopyKeys, FilterKeys, StoreKeys, memVars
  <2> QED BY <2>1, <2>2
<1>4. CASE Restart
  BY <1>1, <1>4 DEF Restart
<1>5. CASE OnMessage /\ ~SetLast /\ ~StoreTally
  BY <1>1, <1>5 DEF OnMessage, ReadTally, LookUpKey, EvictKey, InsertKey, AppendKey, UseKey,
      ReadNumber, PushEvent, StartSave, memVars
<1>6. ASSUME \/ \E d \in Devs, c \in RawCounters : ReceiveUplink(d, c)
             \/ \E f \in saving : SaveThread(f)
             \/ \E w \in Workers, o \in Ops : Call(w, o)
             \/ UNCHANGED vars
      PROVE  last_fcnt' \in [Devs -> RawCounters] /\ missed_frames' \in [Devs -> Nat]
  BY <1>1, <1>6 DEF ReceiveUplink, SaveThread, Call, vars, memVars
<1> QED BY <1>2, <1>3, <1>4, <1>5, <1>6 DEF Next

(* The map, its deque and the handlers' copies of the deque hold keys.      *)
LEMMA KeyTypesNext ==
  ASSUME TypeOK, ThreadInv, KeysInv, [Next]_vars
  PROVE  /\ fcnt_gateway_map' \subseteq Keys /\ fcnt_gateway_map_keys' \in Seq(Keys)
         /\ Len(fcnt_gateway_map_keys') <= MapMax
         /\ keyCopy' \in [Workers -> Seq(Keys)]
<1> DEFINE Goal == /\ fcnt_gateway_map' \subseteq Keys /\ fcnt_gateway_map_keys' \in Seq(Keys)
                   /\ Len(fcnt_gateway_map_keys') <= MapMax
                   /\ keyCopy' \in [Workers -> Seq(Keys)]
<1>1. /\ fcnt_gateway_map \subseteq Keys /\ fcnt_gateway_map_keys \in Seq(Keys)
      /\ Len(fcnt_gateway_map_keys) <= MapMax /\ keyCopy \in [Workers -> Seq(Keys)]
      /\ <<>> \in Seq(Keys) /\ Len(<<>>) = 0 /\ MapMax \in Nat
  BY KeyTypes
<1>2. CASE AppendKey
  <2>1. PICK q : q = fcnt_gateway_map_keys'
    OBVIOUS
  <2>2. Key \in Keys
    BY <1>2, KeyIsKey DEF AppendKey
  <2>3. q = IF Len(Append(fcnt_gateway_map_keys, Key)) > MapMax
            THEN Tail(Append(fcnt_gateway_map_keys, Key)) ELSE Append(fcnt_gateway_map_keys, Key)
    BY <1>2, <2>1 DEF AppendKey
  <2>4. q \in Seq(Keys) /\ Len(q) <= MapMax
    BY <1>1, <2>2, <2>3, AppendKeyFacts
  <2> QED BY <1>1, <1>2, <2>1, <2>4 DEF AppendKey, callVars, copyVars
<1>3. CASE InsertKey \/ EvictKey
  <2>1. fcnt_gateway_map' \subseteq Keys
    BY <1>1, <1>3, KeyIsKey DEF InsertKey, EvictKey, Evicted
  <2> QED BY <1>1, <1>3, <2>1 DEF InsertKey, EvictKey, callVars, copyVars
<1>4. CASE OnMessage /\ ~AppendKey /\ ~InsertKey /\ ~EvictKey
  BY <1>1, <1>4 DEF OnMessage, ReadTally, StoreTally, SetLast, LookUpKey, UseKey, ReadNumber,
      PushEvent, StartSave, memVars, callVars, copyVars
<1>5. ASSUME NEW w \in Workers, Handler(w) PROVE Goal
  <2>1. CASE CopyKeys(w)
    BY <1>1, <2>1 DEF CopyKeys, memVars
  <2>2. CASE FilterKeys(w)
    <3>1. \A q \in KeysWithout(fcnt_gateway_map_keys, op[w].devs) : q \in Seq(Keys)
      BY <1>1, KeysWithoutFacts
    <3>2. keyCopy' \in [Workers -> Seq(Keys)]
      BY <1>1, <2>2, <3>1 DEF FilterKeys, GiveUp, Return
    <3> QED BY <1>1, <2>2, <3>2 DEF FilterKeys, memVars
  <2>3. CASE StoreKeys(w)
    <3>1. keyCopy[w] \in Seq(Keys) /\ Len(keyCopy[w]) <= MapMax
      <4>1. keyCopy[w] \in Seq(Keys)
        BY <1>1
      <4>2. Len(keyCopy[w]) <= Len(fcnt_gateway_map_keys)
        BY <2>3 DEF StoreKeys, KeysInv, CopyInv
      <4>3. Len(keyCopy[w]) \in Nat /\ Len(fcnt_gateway_map_keys) \in Nat
        BY <1>1, <4>1, SequenceFacts
      <4> QED BY <1>1, <4>1, <4>2, <4>3
    <3> QED BY <1>1, <2>3, <3>1 DEF StoreKeys, Return
  <2>4. CASE PopKeys(w)
    BY <1>1, <2>4 DEF PopKeys, copyVars
  <2>5. CASE \/ EraseRows(w) \/ EraseRowsFails(w) \/ Relock(w) \/ Vacuum(w) \/ VacuumFails(w)
             \/ CopyEvents(w) \/ FilterEvents(w) \/ StoreEvents(w) \/ ClearLast(w)
             \/ ClearMissed(w)
    BY <1>1, <2>5 DEF EraseRows, EraseRowsFails, Relock, Vacuum, VacuumFails, CopyEvents,
        FilterEvents, StoreEvents, ClearLast, ClearMissed, GiveUp, Return, memVars, copyVars
  <2> QED BY <1>5, <2>1, <2>2, <2>3, <2>4, <2>5 DEF Handler
<1>6. CASE Restart
  BY <1>1, <1>6, MemoryAssumption DEF Restart
<1>7. ASSUME \/ \E d \in Devs, c \in RawCounters : ReceiveUplink(d, c)
             \/ \E f \in saving : SaveThread(f)
             \/ \E w \in Workers, o \in Ops : Call(w, o)
             \/ UNCHANGED vars
      PROVE  Goal
  BY <1>1, <1>7 DEF ReceiveUplink, SaveThread, Call, vars, memVars, callVars, copyVars
<1> QED BY <1>2, <1>3, <1>4, <1>5, <1>6, <1>7 DEF Next

LEMMA MessageTypes ==
  ASSUME TypeOK, ThreadInv, [Next]_vars
  PROVE  MessageTypeOK'
<1>1. /\ dev \in Devs \cup {None} /\ raw \in RawCounters /\ prev \in RawCounters /\ tally \in Nat
      /\ mpc \in {"idle", "gap", "tally", "last", "key", "evict", "insert",
                  "append", "use", "number", "push", "spawn"}
      /\ last_fcnt \in [Devs -> RawCounters] /\ None \in RawCounters
  BY DEF TypeOK, MessageTypeOK, MemoryTypeOK, RawCounters
<1>2. ASSUME NEW d \in Devs, NEW c \in RawCounters, ReceiveUplink(d, c) PROVE MessageTypeOK'
  <2>1. prev' \in RawCounters
    BY <1>1, <1>2 DEF ReceiveUplink
  <2> QED BY <1>1, <1>2, <2>1 DEF ReceiveUplink, MessageTypeOK
<1>3. CASE ReadTally
  <2>1. raw \in Nat /\ (prev = None \/ prev \in Nat)
    BY <1>1, <1>3, HistoryAssumption DEF ReadTally, ThreadInv, ThreadTypeOK, RawCounters
  <2>2. Gap \in Nat
    BY <2>1 DEF Gap
  <2>3. dev \in Devs
    BY <1>3 DEF ReadTally, ThreadInv, ThreadTypeOK
  <2>4. missed_frames[dev] \in Nat
    BY <2>3 DEF TypeOK, MemoryTypeOK
  <2>5. tally' \in Nat /\ mpc' \in {"tally", "last"} /\ prev' = None /\ UNCHANGED <<dev, raw>>
    <3> HIDE DEF Gap
    <3> QED BY <1>3, <2>2, <2>4 DEF ReadTally
  <2> QED BY <1>1, <2>5 DEF MessageTypeOK
<1>4. CASE OnMessage /\ ~ReadTally
  BY <1>1, <1>4 DEF OnMessage, StoreTally, SetLast, LookUpKey, EvictKey, InsertKey, AppendKey,
      UseKey, ReadNumber, PushEvent, StartSave, Goto, ToLoop, MessageTypeOK
<1>5. ASSUME NEW w \in Workers, Handler(w) PROVE MessageTypeOK'
  <2>1. UNCHANGED msgVars
    BY <1>5 DEF Handler, EraseRows, EraseRowsFails, Relock, Vacuum, VacuumFails, CopyEvents,
        FilterEvents, StoreEvents, ClearLast, ClearMissed, PopKeys, CopyKeys, FilterKeys, StoreKeys
  <2> QED BY <1>1, <2>1 DEF MessageTypeOK, msgVars
<1>6. CASE Restart
  BY <1>1, <1>6 DEF Restart, ToLoop, MessageTypeOK
<1>7. ASSUME \/ \E f \in saving : SaveThread(f)
             \/ \E w \in Workers, o \in Ops : Call(w, o)
             \/ UNCHANGED vars
      PROVE  MessageTypeOK'
  BY <1>1, <1>7 DEF SaveThread, Call, vars, msgVars, MessageTypeOK
<1> QED BY <1>2, <1>3, <1>4, <1>5, <1>6, <1>7 DEF Next

LEMMA LabelTypes ==
  ASSUME TypeOK, [Next]_vars
  PROVE  pc' \in [Workers -> {"idle", "erase", "relock", "vacuum", "copyEvents", "filterEvents",
                              "storeEvents", "last", "missed", "pop", "copyKeys", "filterKeys",
                              "storeKeys"}]
<1> DEFINE Labels == {"idle", "erase", "relock", "vacuum", "copyEvents", "filterEvents",
                      "storeEvents", "last", "missed", "pop", "copyKeys", "filterKeys",
                      "storeKeys"}
<1>1. pc \in [Workers -> Labels]
  BY DEF TypeOK, HandlerTypeOK
<1>2. ASSUME NEW w \in Workers, Handler(w)
      PROVE  \E label \in Labels : pc' = [pc EXCEPT ![w] = label]
  BY <1>2 DEF Handler, EraseRows, EraseRowsFails, Relock, Vacuum, VacuumFails, CopyEvents,
      FilterEvents, StoreEvents, ClearLast, ClearMissed, PopKeys, CopyKeys, FilterKeys,
      StoreKeys, Step, GiveUp, Return
<1>3. ASSUME NEW w \in Workers, NEW o \in Ops, Call(w, o)
      PROVE  \E label \in Labels : pc' = [pc EXCEPT ![w] = label]
  BY <1>3 DEF Call
<1>4. CASE OnMessage
  BY <1>1, <1>4 DEF OnMessage, ReadTally, StoreTally, SetLast, LookUpKey, EvictKey, InsertKey,
      AppendKey, UseKey, ReadNumber, PushEvent, StartSave, callVars
<1>5. CASE Restart
  BY <1>5 DEF Restart
<1>6. ASSUME \/ \E d \in Devs, c \in RawCounters : ReceiveUplink(d, c)
             \/ \E f \in saving : SaveThread(f)
             \/ UNCHANGED vars
      PROVE  pc' = pc
  BY <1>6 DEF ReceiveUplink, SaveThread, vars, callVars
<1> HIDE DEF Labels
<1>7. pc' \in [Workers -> Labels]
  BY <1>1, <1>2, <1>3, <1>4, <1>5, <1>6 DEF Next, Labels
<1> QED BY <1>7 DEF Labels

LEMMA PastTypes ==
  ASSUME TypeOK, AgreeInv, ThreadInv', [Next]_vars
  PROVE  PastTypeOK'
<1>1. /\ unsaved \subseteq 1 .. MaxFrames /\ halfDone \in BOOLEAN /\ noSignal \in Nat
      /\ received \in 0 .. MaxUplinks /\ calls \in 0 .. MaxCalls /\ restarts \in 0 .. MaxRestarts
      /\ MaxUplinks \in Nat /\ MaxCalls \in Nat /\ MaxRestarts \in Nat
  BY MemoryAssumption DEF TypeOK, PastTypeOK
<1>2. gaps' \in [Devs -> Nat] /\ overtaken' \in [Devs -> BOOLEAN]
  BY DEF ThreadInv, ThreadTypeOK
<1>3. ASSUME NEW d \in Devs, NEW c \in RawCounters, ReceiveUplink(d, c) PROVE PastTypeOK'
  <2>1. received' \in 0 .. MaxUplinks
    BY <1>1, <1>3 DEF ReceiveUplink
  <2>2. UNCHANGED <<unsaved, halfDone, noSignal, calls, restarts>>
    BY <1>3 DEF ReceiveUplink
  <2> QED BY <1>1, <1>2, <2>1, <2>2 DEF PastTypeOK
<1>4. ASSUME NEW f \in saving, SaveThread(f) PROVE PastTypeOK'
  <2>1. f.no \in 1 .. spawned /\ spawned \in 0 .. MaxFrames /\ MaxFrames \in Nat
    BY HistoryAssumption DEF AgreeInv, NumbersInv, TypeOK, HistoryTypeOK
  <2>2. f.no \in 1 .. MaxFrames
    BY <2>1
  <2>3. /\ unsaved' \subseteq 1 .. MaxFrames
        /\ UNCHANGED <<halfDone, noSignal, received, calls, restarts>>
    BY <1>1, <1>4, <2>2 DEF SaveThread
  <2> QED BY <1>1, <1>2, <2>3 DEF PastTypeOK
<1>5. ASSUME NEW w \in Workers, Handler(w) PROVE PastTypeOK'
  <2>1. UNCHANGED <<unsaved, noSignal, received, calls, restarts>>
    BY <1>5 DEF Handler, EraseRows, EraseRowsFails, Relock, Vacuum, VacuumFails, CopyEvents,
        FilterEvents, StoreEvents, ClearLast, ClearMissed, PopKeys, CopyKeys, FilterKeys,
        StoreKeys, GiveUp, pastVars
  <2>2. halfDone' \in BOOLEAN
    BY <1>1, <1>5 DEF Handler, EraseRows, EraseRowsFails, Relock, Vacuum, VacuumFails, CopyEvents,
        FilterEvents, StoreEvents, ClearLast, ClearMissed, PopKeys, CopyKeys, FilterKeys,
        StoreKeys, GiveUp, pastVars
  <2> QED BY <1>1, <1>2, <2>1, <2>2 DEF PastTypeOK
<1>6. ASSUME NEW w \in Workers, NEW o \in Ops, Call(w, o) PROVE PastTypeOK'
  <2>1. calls' \in 0 .. MaxCalls
    BY <1>1, <1>6 DEF Call
  <2>2. UNCHANGED <<unsaved, halfDone, noSignal, received, restarts>>
    BY <1>6 DEF Call
  <2> QED BY <1>1, <1>2, <2>1, <2>2 DEF PastTypeOK
<1>7. CASE Restart
  <2>1. restarts' \in 0 .. MaxRestarts
    BY <1>1, <1>7 DEF Restart
  <2>2. halfDone' = FALSE /\ UNCHANGED <<unsaved, noSignal, received, calls>>
    BY <1>7 DEF Restart
  <2> QED BY <1>1, <1>2, <2>1, <2>2 DEF PastTypeOK
<1>8. CASE OnMessage \/ UNCHANGED vars
  <2>1. UNCHANGED <<unsaved, halfDone, received, calls, restarts>>
    BY <1>8 DEF OnMessage, ReadTally, StoreTally, SetLast, LookUpKey, EvictKey, InsertKey,
        AppendKey, UseKey, ReadNumber, PushEvent, StartSave, vars, pastVars
  <2>2. noSignal' \in Nat
    <3>1. noSignal' \in {noSignal, noSignal + 1}
      BY <1>8 DEF OnMessage, ReadTally, StoreTally, SetLast, LookUpKey, EvictKey, InsertKey,
          AppendKey, UseKey, ReadNumber, PushEvent, StartSave, vars, pastVars
    <3> QED BY <1>1, <3>1
  <2> QED BY <1>1, <1>2, <2>1, <2>2 DEF PastTypeOK
<1> QED BY <1>3, <1>4, <1>5, <1>6, <1>7, <1>8 DEF Next

(* The types, the events that fit and the keys that are counted go together. *)
MemoryInv == TypeOK /\ EventsInv /\ KeysInv

LEMMA MemoryInit == Init => MemoryInv
<1> SUFFICES ASSUME Init PROVE MemoryInv
  OBVIOUS
<1>1. EventsInv
  BY NothingFits DEF Init, EventsInv
<1>2. KeysInv
  BY NoKeys DEF Init
<1> QED BY <1>1, <1>2, InitTypes DEF MemoryInv

LEMMA MemoryNext ==
  ASSUME MemoryInv, HistoryInv, ThreadInv, AgreeInv, [Next]_vars,
         HistoryInv', ThreadInv', AgreeInv'
  PROVE  MemoryInv'
<1>1. TypeOK /\ EventsInv /\ KeysInv
  BY DEF MemoryInv
<1>2. EventsInv'
  BY <1>1, EventsNext
<1>3. KeysInv'
  BY <1>1, KeysNext
<1>4. TypeOK'
  <2>1. HistoryTypeOK'
    BY DEF HistoryInv
  <2>2. events' \subseteq Frames /\ Cardinality(events') <= MaxEvents
    BY <1>2 DEF AgreeInv, EventTypeOK, EventsInv, Fits
  <2>3. MemoryTypeOK'
    BY <1>1, <2>2, CounterTypes, KeyTypesNext DEF MemoryTypeOK
  <2>4. HandlerTypeOK'
    BY <1>1, LabelTypes, KeyTypesNext DEF ThreadInv, ThreadTypeOK, AgreeInv, EventTypeOK,
        HandlerTypeOK
  <2> QED BY <1>1, <2>1, <2>3, <2>4, MessageTypes, PastTypes DEF TypeOK
<1> QED BY <1>2, <1>3, <1>4 DEF MemoryInv

(* The invariant is inductive next to those of the history, the threads and *)
(* the agreement of memory and table.                                       *)
THEOREM MemoryInvariance == Spec => []MemoryInv
<1>1. Init => MemoryInv
  BY MemoryInit
<1>2. MemoryInv /\ HistoryInv /\ ThreadInv /\ AgreeInv /\ [Next]_vars
        /\ HistoryInv' /\ ThreadInv' /\ AgreeInv' => MemoryInv'
  BY MemoryNext
<1> QED
  BY <1>1, <1>2, DashboardImplements, HistoryInvariance, ThreadInvariance, AgreeInvariance, PTL
  DEF Spec

(* Every variable has its type; in particular neither events nor the deque *)
(* of keys ever outgrows its maxlen.                                       *)
THEOREM MemoryTypeCorrect == Spec => []TypeOK
<1>1. MemoryInv => TypeOK
  BY DEF MemoryInv
<1> QED BY <1>1, MemoryInvariance, PTL

(* However on_message and the handlers interleave, every call and every     *)
(* uplink given up half-way strands at most one key of fcnt_gateway_map.    *)
THEOREM StrandedBounded == Spec => []StrandedKeysBounded
<1>1. ASSUME MemoryInv PROVE StrandedKeysBounded
  <2>1. CountInv /\ TypeOK
    BY <1>1 DEF MemoryInv, KeysInv
  <2>2. IsFiniteSet(Strays) /\ Stranded \subseteq Strays
    BY <2>1, StraysInMap, FS_Subset DEF CountInv, Strays
  <2>3. IsFiniteSet(Stranded) /\ Cardinality(Stranded) <= Cardinality(Strays)
    BY <2>2, FS_Subset
  <2>4. /\ Cardinality(Stranded) \in Nat /\ Cardinality(Strays) \in Nat
        /\ Cardinality(Working) \in Nat /\ calls \in Nat /\ noSignal \in Nat
    BY <2>1, <2>2, <2>3, FS_CardinalityType, KeyTypes DEF CountInv
  <2>5. Cardinality(Stranded) <= calls + noSignal
    BY <2>1, <2>3, <2>4 DEF CountInv
  <2> QED BY <2>5 DEF Stranded, StrandedKeysBounded
<1> QED BY <1>1, MemoryInvariance, PTL

=============================================================================
