---------------------------- MODULE UplinkHistory ----------------------------
(***************************************************************************)
(* The dashboard's database of uplinks: the table uplink_events and the    *)
(* base of each node's frame counter in node_history_state.  Every uplink  *)
(* is saved by a thread of its own; three handlers delete.  Each operation *)
(* is one section under _db_lock and one transaction.                      *)
(*                                                                         *)
(* A row shows the node's counter less its base; raw, the counter of the   *)
(* frame itself, is not a column of the table and is kept here for the     *)
(* properties.  no counts the threads in the order they were started.      *)
(***************************************************************************)
EXTENDS Integers

CONSTANTS
    Devs,          \* nodes
    FCnts,         \* frame counters a node may send
    None,          \* no counter in the frame, no base in node_history_state
    MaxFrames      \* bound: frames

ASSUME HistoryAssumption ==
    /\ FCnts \subseteq Nat
    /\ None \notin Nat
    /\ MaxFrames \in Nat

VARIABLES
    spawned,       \* save threads started
    saving,        \* frames whose thread has not finished
    fcnt_base,     \* node_history_state
    uplink_events,
    sequence       \* the last id given out (sqlite_sequence)

historyVars == <<spawned, saving, fcnt_base, uplink_events, sequence>>

RawCounters == FCnts \cup {None}

Frames == [no : Nat, dev : Devs, raw : RawCounters]

Rows == [id : Nat, no : Nat, dev : Devs, raw : RawCounters, shown : Int \cup {None}]

HistoryTypeOK ==
    /\ spawned \in 0 .. MaxFrames
    /\ saving \subseteq Frames
    /\ fcnt_base \in [Devs -> RawCounters]
    /\ sequence \in Nat
    /\ uplink_events \subseteq Rows
    /\ \A r \in uplink_events : r.id <= sequence

HistoryInit ==
    /\ spawned = 0 /\ saving = {}
    /\ fcnt_base = [d \in Devs |-> None]
    /\ uplink_events = {} /\ sequence = 0

-----------------------------------------------------------------------------
FrameOf(d, c) == [no |-> spawned + 1, dev |-> d, raw |-> c]

Spawn(d, c) ==
    /\ spawned < MaxFrames
    /\ spawned' = spawned + 1
    /\ saving' = saving \cup {FrameOf(d, c)}
    /\ UNCHANGED <<fcnt_base, uplink_events, sequence>>

BaseStays(base, c) == c # None /\ base = None

(* A counter below the base means that the node has been reset. *)
BaseMoves(base, c) == c # None /\ (base = None \/ c < base)

Save(f) ==
    LET base == IF BaseMoves(fcnt_base[f.dev], f.raw) THEN f.raw
                                                      ELSE fcnt_base[f.dev]
    IN  /\ f \in saving
        /\ saving' = saving \ {f}
        /\ fcnt_base' = [fcnt_base EXCEPT ![f.dev] = base]
        /\ sequence' = sequence + 1
        /\ uplink_events' = uplink_events \cup
               {[id |-> sequence + 1, no |-> f.no, dev |-> f.dev, raw |-> f.raw,
                 shown |-> IF f.raw = None THEN None ELSE f.raw - base]}
        /\ UNCHANGED spawned

(* An sqlite error ends the thread, and the transaction with it. *)
SaveFails(f) ==
    /\ f \in saving
    /\ saving' = saving \ {f}
    /\ UNCHANGED <<spawned, fcnt_base, uplink_events, sequence>>

NoRows(d) == {}

RowsOf(d) == {r \in uplink_events : r.dev = d}

(* The counter goes on from its base. *)
DeleteNode(d) ==
    /\ uplink_events' = uplink_events \ RowsOf(d)
    /\ UNCHANGED <<spawned, saving, fcnt_base, sequence>>

ResetNode(d) ==
    /\ uplink_events' = uplink_events \ RowsOf(d)
    /\ fcnt_base' = [fcnt_base EXCEPT ![d] = None]
    /\ UNCHANGED <<spawned, saving, sequence>>

(* keep is the request's keep_fcnt_base.  The ids start over. *)
DeleteAll(keep) ==
    /\ uplink_events' = {} /\ sequence' = 0
    /\ fcnt_base' = IF keep THEN fcnt_base ELSE [d \in Devs |-> None]
    /\ UNCHANGED <<spawned, saving>>

(* The process ends, and its save threads (daemon=True) with it. *)
EndThreads ==
    /\ saving' = {}
    /\ UNCHANGED <<spawned, fcnt_base, uplink_events, sequence>>

HistoryNext ==
    \/ \E d \in Devs, c \in RawCounters : Spawn(d, c)
    \/ \E f \in saving : Save(f) \/ SaveFails(f)
    \/ \E d \in Devs : DeleteNode(d) \/ ResetNode(d)
    \/ \E keep \in BOOLEAN : DeleteAll(keep)
    \/ EndThreads

HistorySpec == HistoryInit /\ [][HistoryNext]_historyVars

-----------------------------------------------------------------------------
(* The docstring of api_clear_all_events fears counters "normalised to a    *)
(* negative number": no order of saves and deletions shows one.             *)
ShownNotNegative ==
    \A r \in uplink_events : r.shown # None => r.shown >= 0

(* Of two rows of a node the later shows at least as much more than the     *)
(* earlier as the node counted between them: the base under rows that are   *)
(* still there only moves down.  A base that moved up would make the shown  *)
(* counter step back although the node went on.                             *)
CountersKeepStep ==
    \A r, s \in uplink_events :
        r.dev = s.dev /\ r.id < s.id /\ r.raw # None /\ s.raw # None =>
            s.shown - r.shown >= s.raw - r.raw
=============================================================================
