----------------------------- MODULE MeasureMode -----------------------------
(***************************************************************************)
(* Switching the latency measurement off and on (protocol v3).             *)
(*                                                                         *)
(* The gateway keeps its mode in memory and in the file `mode`, and starts *)
(* or stops the first-hop collector with it.  Every request carries the    *)
(* mode, also the heartbeats sent while the measurement is off, because a  *)
(* command only travels in the response to a request.  The server notes    *)
(* the mode of each gateway in _gw_seen, queues every change, and a worker *)
(* appends real changes to gw_mode_log, which the outage analysis reads to *)
(* tell a pause from a broken link.                                        *)
(*                                                                         *)
(* Requests may be lost, delayed and reordered; `cur` marks the one the    *)
(* client is waiting for, whose response is the only one it accepts.       *)
(***************************************************************************)
EXTENDS Naturals, Sequences, FiniteSets, SequencesExt

CONSTANTS
    ModeqMax,          \* capacity of modeq (10000)
    MaxSwitches,       \* bound: commands that arrive
    MaxDelayed,        \* bound: older requests in flight with the current one
    MaxFaults          \* bound: restarts, failed saves, systemctl and sqlite errors

ASSUME MeasureAssumption ==
    /\ ModeqMax \in Nat \ {0}
    /\ {MaxSwitches, MaxDelayed, MaxFaults} \subseteq Nat

VARIABLES
    (* gateway *)
    pc,                \* "cycle", "wait", "save", "unit"
    mode, modeDisk, collector,
    (* link *)
    reqs, answered,    \* requests in flight; is the outstanding one answered?
    (* server: hot path *)
    hand,              \* mode of the request answered but not yet noted, or "none"
    seen,              \* mode in _gw_seen, or "none"
    modeq,
    (* server: gw_state_worker *)
    spc,               \* "drain", "commit"
    modeTx,            \* gw_mode_log as the worker's open transaction sees it
    modeLog,           \* gw_mode_log as committed
    (* history and bounds *)
    pauses,            \* pauses ended by a command that was saved
    drift,             \* why the collector may differ from the mode
    lost,              \* how mode changes have been lost
    switches, faults

gwVars   == <<pc, mode, modeDisk, collector>>
linkVars == <<reqs, answered>>
hotVars  == <<hand, seen>>
logVars  == <<spc, modeTx, modeLog>>
histVars == <<pauses, drift, lost, switches, faults>>
vars == <<gwVars, linkVars, hotVars, modeq, logVars, histVars>>

Modes == {"on", "off"}

TypeOK ==
    /\ pc \in {"cycle", "wait", "save", "unit"}
    /\ mode \in Modes /\ modeDisk \in Modes
    /\ collector \in BOOLEAN
    /\ reqs \subseteq [mode : Modes, cur : BOOLEAN]
    /\ answered \in BOOLEAN
    /\ hand \in Modes \cup {"none"} /\ seen \in Modes \cup {"none"}
    /\ modeq \in Seq(Modes) /\ Len(modeq) <= ModeqMax
    /\ spc \in {"drain", "commit"}
    /\ modeTx \in Seq(Modes) /\ modeLog \in Seq(Modes)
    /\ pauses \in 0 .. MaxSwitches
    /\ drift \subseteq {"restart", "save", "unit"}
    /\ lost \subseteq {"full", "error", "restart"}
    /\ switches \in 0 .. MaxSwitches
    /\ faults \in 0 .. MaxFaults

Init ==
    /\ pc = "cycle" /\ mode = "on" /\ modeDisk = "on" /\ collector = TRUE
    /\ reqs = {} /\ answered = FALSE
    /\ hand = "none" /\ seen = "none" /\ modeq = <<>>
    /\ spc = "drain" /\ modeTx = <<>> /\ modeLog = <<>>
    /\ pauses = 0 /\ drift = {} /\ lost = {}
    /\ switches = 0 /\ faults = 0

OneFault == faults < MaxFaults /\ faults' = faults + 1

-----------------------------------------------------------------------------
(* Gateway *)

SendRequest ==
    /\ pc = "cycle"
    /\ Cardinality(reqs) <= MaxDelayed
    /\ pc' = "wait"
    /\ reqs' = {[r EXCEPT !.cur = FALSE] : r \in reqs} \cup {[mode |-> mode, cur |-> TRUE]}
    /\ answered' = FALSE
    /\ UNCHANGED <<mode, modeDisk, collector, hotVars, modeq, logVars, histVars>>

(* No answer in time, or an answer without a new on/off command. *)
NoCommand ==
    /\ pc = "wait"
    /\ pc' = "cycle"
    /\ UNCHANGED <<mode, modeDisk, collector, linkVars, hotVars, modeq, logVars, histVars>>

(* The response carries a measure command that the gateway has not taken    *)
(* and that asks for the other mode (one for the mode it is in does         *)
(* nothing, like NoCommand).                                                *)
SwitchMode ==
    /\ pc = "wait"
    /\ answered
    /\ switches < MaxSwitches
    /\ switches' = switches + 1
    /\ mode' = IF mode = "on" THEN "off" ELSE "on"
    /\ pc' = "save"
    /\ UNCHANGED <<modeDisk, collector, linkVars, hotVars, modeq, logVars, pauses,
                   drift, lost, faults>>

SaveMode ==
    /\ pc = "save"
    /\ modeDisk' = mode
    /\ pauses' = IF mode = "on" THEN pauses + 1 ELSE pauses
    /\ drift' = drift \ {"save"}
    /\ pc' = "unit"
    /\ UNCHANGED <<mode, collector, linkVars, hotVars, modeq, logVars, lost,
                   switches, faults>>

(* write_state prints the error and returns. *)
SaveModeFails ==
    /\ pc = "save"
    /\ OneFault
    /\ drift' = drift \cup {"save"}
    /\ pc' = "unit"
    /\ UNCHANGED <<mode, modeDisk, collector, linkVars, hotVars, modeq, logVars,
                   pauses, lost, switches>>

UnitNeverStarted == FALSE

UnitWanted == mode = "on"

(* systemctl start or stop.  A start of the stopped unit obeys its          *)
(* ExecCondition, which reads the mode file: after a failed save of "on" it *)
(* is skipped without an error.                                             *)
SetCollector ==
    /\ pc = "unit"
    /\ collector' = (UnitWanted /\ (collector \/ modeDisk # "off"))
    /\ drift' = drift \ {"unit", "restart"}
    /\ pc' = "cycle"
    /\ UNCHANGED <<mode, modeDisk, linkVars, hotVars, modeq, logVars, pauses, lost,
                   switches, faults>>

(* systemctl failed or took more than 30 s: "the measurement goes on". *)
SetCollectorFails ==
    /\ pc = "unit"
    /\ OneFault
    /\ drift' = drift \cup {"unit"}
    /\ pc' = "cycle"
    /\ UNCHANGED <<mode, modeDisk, collector, linkVars, hotVars, modeq, logVars,
                   pauses, lost, switches>>

(* A restart between saving the mode and setting the unit. *)
DriftAfterRestart == drift \cup (IF pc = "unit" THEN {"restart"} ELSE {})

StartsAsItWas == FALSE

(* main() stops the collector when it starts in mode off. *)
StopsAtStart == modeDisk = "off"

(* Only probe_client restarts (systemd Restart=always). *)
ClientRestart ==
    /\ OneFault
    /\ pc' = "cycle"
    /\ mode' = modeDisk
    /\ \/ StopsAtStart /\ collector' = FALSE /\ drift' = {}
       \/ StopsAtStart /\ drift' = drift \cup {"unit"} /\ UNCHANGED collector
       \/ ~StopsAtStart /\ drift' = DriftAfterRestart /\ UNCHANGED collector
    /\ answered' = FALSE
    /\ UNCHANGED <<modeDisk, reqs, hotVars, modeq, logVars, pauses, lost, switches>>

(* Power cut: the collector's ExecCondition reads the mode file at boot. *)
Reboot ==
    /\ OneFault
    /\ pc' = "cycle"
    /\ mode' = modeDisk
    /\ collector' = (modeDisk # "off")
    /\ drift' = {}
    /\ answered' = FALSE
    /\ UNCHANGED <<modeDisk, reqs, hotVars, modeq, logVars, pauses, lost, switches>>

-----------------------------------------------------------------------------
(* Server: the hot path answers first and keeps its books afterwards *)

Answer(r) ==
    /\ hand = "none"
    /\ r \in reqs
    /\ reqs' = reqs \ {r}
    /\ answered' = (answered \/ (r.cur /\ pc = "wait"))
    /\ hand' = r.mode
    /\ UNCHANGED <<gwVars, seen, modeq, logVars, histVars>>

LoseRequest(r) ==
    /\ r \in reqs
    /\ reqs' = reqs \ {r}
    /\ UNCHANGED <<gwVars, answered, hotVars, modeq, logVars, histVars>>

FirstIsNoChange == seen # "none" /\ seen # hand

IsChange == seen # hand

NoLimit == TRUE

HasRoom == Len(modeq) < ModeqMax

Note ==
    /\ hand # "none"
    /\ seen' = hand
    /\ hand' = "none"
    /\ \/ IsChange /\ HasRoom /\ modeq' = Append(modeq, hand) /\ UNCHANGED lost
       \/ IsChange /\ ~HasRoom /\ lost' = lost \cup {"full"} /\ UNCHANGED modeq
       \/ ~IsChange /\ UNCHANGED <<modeq, lost>>
    /\ UNCHANGED <<gwVars, linkVars, logVars, pauses, drift, switches, faults>>

-----------------------------------------------------------------------------
(* Server: gw_state_worker drains the queue, then commits *)

DiffersFromFirst(m) == modeTx = <<>> \/ modeTx[1] # m

IsNews(m) == modeTx = <<>> \/ Last(modeTx) # m

LogMode ==
    /\ spc = "drain"
    /\ modeq # <<>>
    /\ modeq' = Tail(modeq)
    /\ modeTx' = IF IsNews(Head(modeq)) THEN Append(modeTx, Head(modeq)) ELSE modeTx
    /\ UNCHANGED <<gwVars, linkVars, hotVars, spc, modeLog, histVars>>

(* SELECT or INSERT raised after get_nowait: the change is gone. *)
LogModeFails ==
    /\ spc = "drain"
    /\ modeq # <<>>
    /\ OneFault
    /\ modeq' = Tail(modeq)
    /\ lost' = lost \cup {"error"}
    /\ UNCHANGED <<gwVars, linkVars, hotVars, logVars, pauses, drift, switches>>

QueueEmpty ==
    /\ spc = "drain"
    /\ modeq = <<>>
    /\ spc' = "commit"
    /\ UNCHANGED <<gwVars, linkVars, hotVars, modeq, modeTx, modeLog, histVars>>

Commit ==
    /\ spc = "commit"
    /\ modeLog' = modeTx
    /\ spc' = "drain"
    /\ UNCHANGED <<gwVars, linkVars, hotVars, modeq, modeTx, histVars>>

(* The upsert of gw_state or the commit raised; nothing is rolled back, the *)
(* transaction stays open for the next pass.                                *)
CommitFails ==
    /\ spc = "commit"
    /\ OneFault
    /\ spc' = "drain"
    /\ UNCHANGED <<gwVars, linkVars, hotVars, modeq, modeTx, modeLog, pauses, drift,
                   lost, switches>>

(* Memory and the open transaction are gone. *)
ServerRestart ==
    /\ OneFault
    /\ seen' = "none" /\ hand' = "none" /\ modeq' = <<>>
    /\ spc' = "drain" /\ modeTx' = modeLog
    /\ lost' = IF hand # "none" \/ modeq # <<>> \/ modeTx # modeLog
               THEN lost \cup {"restart"} ELSE lost
    /\ UNCHANGED <<gwVars, linkVars, modeLog, pauses, drift, switches>>

-----------------------------------------------------------------------------
Gateway ==
    \/ SendRequest \/ NoCommand \/ SwitchMode
    \/ SaveMode \/ SaveModeFails \/ SetCollector \/ SetCollectorFails
    \/ ClientRestart \/ Reboot

Server ==
    \/ \E r \in reqs : Answer(r) \/ LoseRequest(r)
    \/ Note \/ LogMode \/ LogModeFails \/ QueueEmpty \/ Commit \/ CommitFails
    \/ ServerRestart

Next == Gateway \/ Server

Spec == Init /\ [][Next]_vars

(* The loops of the gateway, of the hot path and of the worker go on, and   *)
(* the requests that the gateway keeps sending are not all lost.            *)
GatewayLoop ==
    \/ SendRequest \/ NoCommand \/ SaveMode \/ SaveModeFails
    \/ SetCollector \/ SetCollectorFails

Fairness ==
    /\ WF_vars(GatewayLoop)
    /\ SF_vars(\E r \in reqs : r.cur /\ Answer(r))
    /\ WF_vars(Note)
    /\ WF_vars(LogMode \/ QueueEmpty \/ Commit)

FairSpec == Spec /\ Fairness

-----------------------------------------------------------------------------
(* Properties *)

(* protocol.md 11: while the measurement is off the first hop is not        *)
(* collected either, whatever restarts in the middle of a switch; only a    *)
(* failing systemctl can leave the collector running.                       *)
OffMeansQuiet == pc = "cycle" /\ mode = "off" /\ "unit" \notin drift => ~collector

(* While it is on the collector runs, unless systemctl or the saving of the *)
(* mode failed or probe_client alone restarted in the middle of a switch:   *)
(* only a start in mode off repairs the collector, and a second "on" does   *)
(* nothing.                                                                 *)
OnMeansCollecting == pc = "cycle" /\ mode = "on" /\ drift = {} => collector

(* No pause is missing from the log: the command that ends a pause comes in *)
(* the response to a heartbeat, so the server has heard the pause, however  *)
(* many requests were lost or late.  Otherwise the outage analysis would    *)
(* count the pause as a broken link.                                        *)
Offs(s) == Cardinality({i \in DOMAIN s : s[i] = "off"})

EveryPauseLogged ==
    lost = {} =>
        pauses <= Offs(modeTx) + Offs(modeq)
                    + (IF hand = "off" /\ seen # "off" THEN 1 ELSE 0)

(* protocol.md 11.3: gw_mode_log is the history of the gateway's mode.  In  *)
(* the end it says what the gateway does, whatever was late or restarted,   *)
(* unless thousands of changes overflowed the queue or sqlite failed.       *)
LogSaysMode == modeLog # <<>> /\ Last(modeLog) = mode

LogCatchesUp == <>[](lost \cap {"full", "error"} # {} \/ LogSaysMode)
=============================================================================
