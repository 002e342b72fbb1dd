---------------------------- MODULE OutageReport ----------------------------
(***************************************************************************)
(* From the requests of a gateway to the list of outages on the dashboard. *)
(* probe_server records each request of a measuring gateway (SampleLog)    *)
(* and notes when the gateway's mode changes; a worker adds the changes to *)
(* gw_mode_log.  api_probe_outages reads both from the exported copy and   *)
(* calls the holes between the rows outages, except for those that overlap *)
(* a pause.                                                                *)
(*                                                                         *)
(* One tick is one interval of the gateway, without jitter.  Why its mode  *)
(* changes is the subject of MeasureMode; here it may change at any time.  *)
(***************************************************************************)
EXTENDS SampleLog, Integers, FiniteSets, FiniteSetsExt

CONSTANT MaxTime    \* bound: ticks since the first request

ASSUME OutageAssumption == MaxTime \in Nat \ {0}

VARIABLES
    now,
    seen,           \* mode in _gw_seen, or "none"
    modeq,
    inserted,       \* the worker's open transaction: inserted, not committed
    mode_log,       \* a set: it is read in the order of the times
    (* history *)
    heard,          \* when a request was received, of whatever mode
    lost            \* has a change of the mode been lost?

ownVars == <<now, seen, modeq, inserted, mode_log, heard, lost>>
vars == <<logVars, ownVars>>

Times   == 1 .. MaxTime
Changes == [t : {0} \cup Times, mode : {"on", "off"}]

TypeOK ==
    /\ LogTypeOK(Times)
    /\ now \in 0 .. MaxTime /\ seen \in {"on", "off", "none"}
    /\ modeq \in Seq(Changes) /\ inserted \subseteq Changes /\ mode_log \subseteq Changes
    /\ heard \subseteq Times /\ lost \in BOOLEAN

(* The measurement may have been paused before the first tick. *)
Init ==
    /\ LogInit
    /\ now = 0 /\ modeq = <<>> /\ inserted = {}
    /\ \/ seen = "none" /\ mode_log = {}
       \/ seen = "off" /\ mode_log = {[t |-> 0, mode |-> "off"]}
    /\ heard = {} /\ lost = FALSE

-----------------------------------------------------------------------------
(* probe_server.                                                           *)
Request(mode, silence) ==
    /\ now' = now + silence + 1 /\ now' <= MaxTime
    /\ now = 0 => silence = 0
    /\ heard' = heard \cup {now'}
    /\ seen' = mode
    /\ modeq' = IF seen # mode THEN Append(modeq, [t |-> now', mode |-> mode]) ELSE modeq
    /\ IF mode = "on" THEN Receive(now') ELSE UNCHANGED logVars
    /\ UNCHANGED <<inserted, mode_log, lost>>

(* What gw_state_worker reads of the log: its own inserts are visible.     *)
Stored == mode_log \cup inserted

(* A change is inserted if the last one before it, just inserted or not,   *)
(* has another mode.                                                       *)
Earlier(i) == Stored \cup {modeq[j] : j \in 1 .. i - 1}

IsNews(i) ==
    \A last \in Earlier(i) :
        (\A c \in Earlier(i) : c.t <= last.t) => last.mode # modeq[i].mode

(* gw_state_worker empties the queue into its transaction. *)
LogModes ==
    /\ modeq # <<>>
    /\ inserted' = inserted \cup {modeq[i] : i \in {j \in DOMAIN modeq : IsNews(j)}}
    /\ modeq' = <<>>
    /\ UNCHANGED <<logVars, now, seen, mode_log, heard, lost>>

(* The commit at the end of a pass.  One that sqlite refuses is not rolled *)
(* back: it leaves the transaction open, with the queue already empty, and *)
(* a later pass commits what all of them have inserted.                    *)
CommitModes ==
    /\ inserted # {}
    /\ mode_log' = Stored /\ inserted' = {}
    /\ fresh' = FALSE
    /\ UNCHANGED <<logq, buf, table, reading, resetFile, gone, upsets,
                   now, seen, modeq, heard, lost>>

(* sqlite refused a change, or the queue was full. *)
LoseChange ==
    /\ modeq # <<>> /\ Upset
    /\ modeq' = Tail(modeq) /\ lost' = TRUE
    /\ UNCHANGED <<logq, buf, table, copyVars, resetFile, gone,
                   now, seen, inserted, mode_log, heard>>

Restart ==
    /\ LogRestart
    /\ lost' = (lost \/ modeq # <<>> \/ inserted # {})
    /\ modeq' = <<>> /\ inserted' = {} /\ seen' = "none"
    /\ UNCHANGED <<now, mode_log, heard>>

Recorder ==
    \/ WriteBatch \/ WriteFails
    \/ Snapshot \/ OpenDb \/ CloseDb
    \/ RequestReset \/ EraseRows \/ EraseFails

Next ==
    \/ \E mode \in {"on", "off"}, silence \in 0 .. MaxTime : Request(mode, silence)
    \/ LogModes \/ CommitModes \/ LoseChange \/ Restart
    \/ (Recorder /\ UNCHANGED ownVars)

(* The threads go on, the commits of the worker do not fail for ever, and  *)
(* not every copy meets a reader: pages open the file for an instant.      *)
Fairness ==
    /\ WF_vars(LogModes) /\ WF_vars(CommitModes)
    /\ WF_logVars(WriteBatch)
    /\ SF_logVars(Snapshot)
    /\ WF_logVars(CloseDb)

Spec == Init /\ [][Next]_vars /\ Fairness

-----------------------------------------------------------------------------
(* api_probe_outages.                                                      *)
Holes == 1 .. Len(table) - 1

Gap(i) == table[i + 1] - table[i]

(* sorted(gaps)[len(gaps) // 2] *)
Nominal ==
    LET NumberBelow(g) == Cardinality({i \in Holes : Gap(i) < g})
    IN  Max({Gap(i) : i \in {j \in Holes : NumberBelow(Gap(j)) <= (Len(table) - 1) \div 2}})

NeverEnds(off) == now

End(off) ==
    Min({now} \cup {c.t : c \in {d \in mode_log : d.t > off.t /\ d.mode = "on"}})

OffSpans == {<<off.t, End(off)>> : off \in {c \in mode_log : c.mode = "off"}}

Covers(span, i) == span[1] <= table[i] /\ table[i + 1] <= span[2]

Overlaps(span, i) == span[1] < table[i + 1] /\ table[i] < span[2]

Long(i) == 2 * Gap(i) > 5 * Nominal

(* The holes that outage_count counts; of these the answer lists the last  *)
(* fifty.                                                                  *)
Outages ==
    IF Len(table) < 3 THEN {}
    ELSE {i \in Holes : Long(i) /\ ~\E span \in OffSpans : Overlaps(span, i)}

-----------------------------------------------------------------------------
HeardIn(i) == {t \in heard \ gone : table[i] < t /\ t < table[i + 1]}

(* Every change of the mode is in the log: none has been lost, waits in    *)
(* the queue or in a transaction whose commit is to come or has failed.    *)
Complete == ~lost /\ modeq = <<>> /\ inserted = {}

(* A reported outage was silence: no request of the gateway came in        *)
(* between, neither a probe nor the heartbeat of a pause, unless its row   *)
(* was lost inside probe_server, or a change of the mode was lost there or *)
(* has not reached the log yet.                                            *)
OutageMeansSilence == Complete => \A i \in Outages : HeardIn(i) = {}

(* And a silence of more than 2.5 times the median gap (of exactly 2.5 it  *)
(* is not: the comparison is strict) is counted as an outage, however      *)
(* often the measurement has been paused before and after it, once the     *)
(* changes of the mode have reached the log.                               *)
SilenceReported ==
    Complete /\ Len(table) >= 3 =>
        \A i \in Holes : Long(i) /\ HeardIn(i) = {} => i \in Outages

(* Once requests cease the dashboard comes to show every row and every     *)
(* pause, although copying fails whenever the copy is being read.  Rows of *)
(* a refused batch stay in the buffer until another row arrives.           *)
ReportCatchesUp ==
    <>[](/\ fresh
         /\ modeq = <<>> /\ inserted = {} /\ logq = <<>>
         /\ upsets > 0 \/ buf = <<>>)
=============================================================================
