--------------------------- MODULE CommandChannel ---------------------------
(***************************************************************************)
(* The control command channel of the latency probe (protocol v2/v3).      *)
(*                                                                         *)
(* The dashboard leaves a command file; the file worker of probe_server    *)
(* turns it into the one pending_cmd row of the gateway; the poller copies *)
(* unacknowledged rows into the _pending cache; the hot path attaches the  *)
(* cached command to the response of any request; the gateway saves the    *)
(* command's id, executes the command and echoes the id as ack_id in every *)
(* later request; the ack worker then marks the row.                       *)
(*                                                                         *)
(* One gateway is modelled: pending_cmd, _pending and the client state are *)
(* keyed by src and never relate two gateways.                             *)
(*                                                                         *)
(* A datagram stays in `reqs` or `rsps` once it is sent and may be         *)
(* received at any later moment, any number of times or never: the link    *)
(* loses, duplicates, delays and reorders.  The client compares run and    *)
(* seq of a response with those of its outstanding request, so all that    *)
(* matters of the pair is whether it is that of the outstanding request:   *)
(* field `cur` of a request, cleared when the next one leaves with a new   *)
(* pair.  A response with another pair is read and dropped, so `rsps` only *)
(* holds what the answers to the outstanding request say.                  *)
(***************************************************************************)
EXTENDS Naturals, FiniteSets

CONSTANTS
    Cmds,              \* command ids (uuid4 in the code: all distinct)
    None,              \* "no command"
    Kind,              \* what each command asks for
    AckMax,            \* capacity of ackq
    MaxCrashes,        \* bound: restarts of the server and the gateway together
    MaxFaults          \* bound: files that stay and saves that fail together

Kinds == {"reset", "measure_on", "measure_off"}

ASSUME NoneAssumption == None \notin Cmds
ASSUME KindAssumption == Kind \in [Cmds -> Kinds]
ASSUME BoundAssumption == AckMax \in Nat \ {0} /\ MaxCrashes \in Nat /\ MaxFaults \in Nat

VARIABLES
    (* dashboard *)
    issued,            \* ids handed out so far
    snap,              \* does the snapshot show a reset that is not acked?
    (* probe_server *)
    files,             \* command files in CMD_DIR, named by their command
    listing,           \* files of the current listdir() not yet handled
    handling,          \* the file whose handler has run and which is not removed
    row,               \* command of the pending_cmd row
    acked,             \* acked_ns IS NOT NULL
    fetched,           \* rows the poller selected and has not stored yet
    polling,           \* is the poller between SELECT and the cache update?
    cache,             \* _pending[src]
    ackq,              \* acknowledgements on their way to the ack worker
    (* link *)
    reqs,              \* requests sent
    rsps,              \* commands in the answers to the outstanding request
    (* gateway *)
    cpc,               \* where the client's loop is
    got,               \* the command of the accepted response
    last,              \* last_cmd_id in memory
    lastDisk,          \* the last_cmd_id file
    (* history *)
    pos, nreg,         \* place of each command in the order of registration
    taken,             \* commands whose id the gateway saved
    execs,             \* how often each command was executed
    stays,             \* how often its file stayed after it had been handled
    unsaved,           \* how often the save of its id failed
    crashes,
    faults             \* files that stayed and saves that failed

dashVars   == <<issued, snap>>
fileVars   == <<files, listing, handling>>
faultVars  == <<crashes, stays, unsaved, faults>>
rowVars    == <<row, acked, pos, nreg>>
pollVars   == <<fetched, polling, cache>>
netVars    == <<reqs, rsps>>
clientVars == <<cpc, got, last, lastDisk, taken, execs>>
vars == <<dashVars, fileVars, rowVars, pollVars, ackq, netVars, clientVars, faultVars>>

MaybeCmd == Cmds \cup {None}
ReqMsgs  == [cur : BOOLEAN, ack : MaybeCmd]

TypeOK ==
    /\ issued \subseteq Cmds
    /\ snap \in BOOLEAN
    /\ files \subseteq Cmds
    /\ listing \subseteq Cmds
    /\ handling \in MaybeCmd
    /\ row \in MaybeCmd
    /\ acked \in BOOLEAN
    /\ fetched \in MaybeCmd
    /\ polling \in BOOLEAN
    /\ cache \in MaybeCmd
    /\ ackq \subseteq Cmds
    /\ reqs \subseteq ReqMsgs
    /\ rsps \subseteq MaybeCmd
    /\ cpc \in {"idle", "wait", "take", "exec"}
    /\ got \in MaybeCmd
    /\ last \in MaybeCmd
    /\ lastDisk \in MaybeCmd
    /\ pos \in [Cmds -> Nat]
    /\ nreg \in Nat
    /\ taken \subseteq Cmds
    /\ execs \in [Cmds -> Nat]
    /\ stays \in [Cmds -> Nat]
    /\ unsaved \in [Cmds -> Nat]
    /\ crashes \in Nat
    /\ faults \in 0..MaxFaults

Init ==
    /\ issued = {}
    /\ snap = FALSE
    /\ files = {} /\ listing = {} /\ handling = None
    /\ row = None /\ acked = FALSE
    /\ fetched = None /\ polling = FALSE /\ cache = None
    /\ ackq = {}
    /\ reqs = {} /\ rsps = {}
    /\ cpc = "idle" /\ got = None /\ last = None /\ lastDisk = None
    /\ pos = [c \in Cmds |-> 0] /\ nreg = 0
    /\ taken = {} /\ execs = [c \in Cmds |-> 0]
    /\ stays = [c \in Cmds |-> 0] /\ unsaved = [c \in Cmds |-> 0]
    /\ crashes = 0
    /\ faults = 0

-----------------------------------------------------------------------------
(* Dashboard *)

(* Does the live row hold a reset that is not acknowledged? *)
ResetPending == row # None /\ ~acked /\ Kind[row] = "reset"

(* The file appears whole (os.replace) under a fresh name. *)
QueueCommand(c) ==
    /\ c \notin issued
    /\ issued' = issued \cup {c}
    /\ files' = files \cup {c}
    /\ UNCHANGED <<snap, listing, handling, rowVars, pollVars, ackq, netVars,
                   clientVars, faultVars>>

RequestReset(c) == Kind[c] = "reset" /\ QueueCommand(c)

(* Refused with 409 while the snapshot shows a reset that is not acked. *)
RequestMeasure(c) ==
    /\ Kind[c] # "reset"
    /\ ~snap
    /\ QueueCommand(c)

(* snapshot_worker exports the live database for the dashboard. *)
ExportSnapshot ==
    /\ snap' = ResetPending
    /\ UNCHANGED <<issued, fileVars, rowVars, pollVars, ackq, netVars,
                   clientVars, faultVars>>

-----------------------------------------------------------------------------
(* probe_server: command files *)

ListFiles ==
    /\ listing = {} /\ handling = None
    /\ files # {}
    /\ listing' = files
    /\ UNCHANGED <<dashVars, files, handling, rowVars, pollVars, ackq, netVars,
                   clientVars, faultVars>>

(* sorted(): measure_gateway_* comes before reset_gateway_*; within a prefix *)
(* the names are random, so any order.                                       *)
NextFile(c) ==
    /\ handling = None
    /\ c \in listing
    /\ Kind[c] = "reset" => \A d \in listing : Kind[d] = "reset"

RefusesBySnapshot(c) == Kind[c] # "reset" /\ snap

(* handle_cmd's last look at the live row. *)
Refuses(c) == Kind[c] # "reset" /\ ResetPending

Register(c) ==
    /\ row' = c
    /\ acked' = FALSE
    /\ nreg' = nreg + 1
    /\ pos' = [pos EXCEPT ![c] = nreg + 1]

HandleFile(c) ==
    /\ NextFile(c)
    /\ handling' = c
    /\ IF Refuses(c) THEN UNCHANGED rowVars ELSE Register(c)
    /\ UNCHANGED <<dashVars, files, listing, pollVars, ackq, netVars,
                   clientVars, faultVars>>

(* The handler raised (sqlite busy); the file is removed all the same. *)
HandlerFails(c) ==
    /\ NextFile(c)
    /\ handling' = c
    /\ UNCHANGED <<dashVars, files, listing, rowVars, pollVars, ackq, netVars,
                   clientVars, faultVars>>

RemoveFile ==
    /\ handling # None
    /\ files' = files \ {handling}
    /\ listing' = listing \ {handling}
    /\ handling' = None
    /\ UNCHANGED <<dashVars, rowVars, pollVars, ackq, netVars, clientVars,
                   faultVars>>

(* The file stays in CMD_DIR although it has been handled. *)
FileStays(c) ==
    /\ faults < MaxFaults
    /\ faults' = faults + 1
    /\ stays' = [stays EXCEPT ![c] = @ + 1]

(* os.remove raised: the outer except ends the round, so the file and those *)
(* listed after it are listed again in the next one.                        *)
RemoveFails ==
    /\ handling # None
    /\ FileStays(handling)
    /\ listing' = {} /\ handling' = None
    /\ UNCHANGED <<dashVars, files, rowVars, pollVars, ackq, netVars, clientVars,
                   crashes, unsaved>>

-----------------------------------------------------------------------------
(* probe_server: poller, hot path, acknowledgements *)

PollSelect ==
    /\ ~polling
    /\ polling' = TRUE
    /\ fetched' = IF acked THEN None ELSE row
    /\ UNCHANGED <<dashVars, fileVars, rowVars, cache, ackq, netVars,
                   clientVars, faultVars>>

PollStore ==
    /\ polling
    /\ polling' = FALSE
    /\ cache' = fetched
    /\ fetched' = None
    /\ UNCHANGED <<dashVars, fileVars, rowVars, ackq, netVars, clientVars, faultVars>>

AcksAnything(m) == cache # None

(* Does the request acknowledge the command that is being delivered? *)
Acks(m) == cache # None /\ m.ack = cache

(* The body of the receive loop: attach the cached command, hand over a     *)
(* matching acknowledgement unless ackq is full, answer.                    *)
AnswerRequest(m) ==
    /\ m \in reqs
    /\ rsps' = IF m.cur THEN rsps \cup {cache} ELSE rsps
    /\ ackq' = IF Acks(m) /\ Cardinality(ackq) < AckMax
               THEN ackq \cup {cache} ELSE ackq
    /\ UNCHANGED <<dashVars, fileVars, rowVars, pollVars, reqs, clientVars, faultVars>>

MarksAnyRow(c) == TRUE

(* UPDATE ... WHERE cmd_id = ack_id AND acked_ns IS NULL *)
Marks(c) == row = c

ApplyAck(c) ==
    /\ c \in ackq
    /\ ackq' = ackq \ {c}
    /\ acked' = (acked \/ Marks(c))
    /\ UNCHANGED <<dashVars, fileVars, row, pos, nreg, pollVars, netVars,
                   clientVars, faultVars>>

(* The UPDATE failed: the acknowledgement is off the queue and lost. *)
LoseAck(c) ==
    /\ c \in ackq
    /\ ackq' = ackq \ {c}
    /\ UNCHANGED <<dashVars, fileVars, rowVars, pollVars, netVars, clientVars, faultVars>>

(* The server process ends and is started again: threads and memory are     *)
(* gone, the database and the command files remain, also the file that has  *)
(* been handled and not removed.                                            *)
ServerRestart ==
    /\ crashes < MaxCrashes
    /\ crashes' = crashes + 1
    /\ IF handling = None THEN UNCHANGED <<stays, faults>> ELSE FileStays(handling)
    /\ listing' = {} /\ handling' = None
    /\ fetched' = None /\ polling' = FALSE /\ cache' = None
    /\ ackq' = {}
    /\ UNCHANGED <<dashVars, files, rowVars, netVars, clientVars, unsaved>>

-----------------------------------------------------------------------------
(* Gateway: the loop of probe_client *)

EchoNothing == None

(* Every request echoes the last command taken. *)
AckId == last

LateAnswers == rsps

(* Answers whose pair is that of the next request: none. *)
MatchingAnswers == {}

(* A request with a pair (run, seq) of its own: everything in flight ages. *)
SendRequest ==
    /\ cpc = "idle"
    /\ cpc' = "wait"
    /\ reqs' = {[m EXCEPT !.cur = FALSE] : m \in reqs}
                 \cup {[cur |-> TRUE, ack |-> AckId]}
    /\ rsps' = MatchingAnswers
    /\ UNCHANGED <<dashVars, fileVars, rowVars, pollVars, ackq, got, last,
                   lastDisk, taken, execs, faultVars>>

IsAnyId(c) == TRUE

IsSomeId(c) == c # None

(* A command the gateway has not taken yet. *)
IsNewId(c) == c # None /\ c # last

(* The response to the outstanding request. *)
ReceiveResponse(c) ==
    /\ cpc = "wait"
    /\ c \in rsps
    /\ IF IsNewId(c)
       THEN cpc' = "take" /\ got' = c
       ELSE cpc' = "idle" /\ got' = None
    /\ UNCHANGED <<dashVars, fileVars, rowVars, pollVars, ackq, netVars, last,
                   lastDisk, taken, execs, faultVars>>

(* No acceptable response within TIMEOUT: the cycle counts as lost. *)
Timeout ==
    /\ cpc = "wait"
    /\ cpc' = "idle" /\ got' = None
    /\ UNCHANGED <<dashVars, fileVars, rowVars, pollVars, ackq, netVars, last,
                   lastDisk, taken, execs, faultVars>>

SaveFails(c) ==
    /\ faults < MaxFaults
    /\ faults' = faults + 1
    /\ unsaved' = [unsaved EXCEPT ![c] = @ + 1]
    /\ UNCHANGED lastDisk

(* last_cmd_id is set and saved before the command is executed; write_state *)
(* reports an OSError and carries on.                                       *)
TakeCommand ==
    /\ cpc = "take"
    /\ last' = got
    /\ \/ lastDisk' = got /\ UNCHANGED <<unsaved, faults>>
       \/ SaveFails(got)
    /\ taken' = taken \cup {got}
    /\ cpc' = "exec"
    /\ UNCHANGED <<dashVars, fileVars, rowVars, pollVars, ackq, netVars, got,
                   execs, crashes, stays>>

ExecuteCommand ==
    /\ cpc = "exec"
    /\ execs' = [execs EXCEPT ![got] = @ + 1]
    /\ cpc' = "idle" /\ got' = None
    /\ UNCHANGED <<dashVars, fileVars, rowVars, pollVars, ackq, netVars, last,
                   lastDisk, taken, faultVars>>

(* A reset whose DELETE raised, or that the writer did not finish in 60 s. *)
ExecuteFails ==
    /\ cpc = "exec"
    /\ Kind[got] = "reset"
    /\ cpc' = "idle" /\ got' = None
    /\ UNCHANGED <<dashVars, fileVars, rowVars, pollVars, ackq, netVars, last,
                   lastDisk, taken, execs, faultVars>>

(* Power cut or restart of the client: only the file survives. *)
ClientRestart ==
    /\ crashes < MaxCrashes
    /\ crashes' = crashes + 1
    /\ cpc' = "idle" /\ got' = None
    /\ last' = lastDisk
    /\ UNCHANGED <<dashVars, fileVars, rowVars, pollVars, ackq, netVars,
                   lastDisk, taken, execs, stays, unsaved, faults>>

-----------------------------------------------------------------------------
Dashboard == \E c \in Cmds : RequestReset(c) \/ RequestMeasure(c)

FileWorker ==
    \/ ListFiles
    \/ \E c \in Cmds : HandleFile(c) \/ HandlerFails(c)
    \/ RemoveFile
    \/ RemoveFails

AckWorker == \E c \in Cmds : ApplyAck(c) \/ LoseAck(c)

HotPath == \E m \in reqs : AnswerRequest(m)

Client ==
    \/ SendRequest
    \/ \E c \in rsps : ReceiveResponse(c)
    \/ Timeout
    \/ TakeCommand
    \/ ExecuteCommand
    \/ ExecuteFails

Next ==
    \/ Dashboard
    \/ ExportSnapshot
    \/ FileWorker
    \/ PollSelect
    \/ PollStore
    \/ HotPath
    \/ AckWorker
    \/ ServerRestart
    \/ Client
    \/ ClientRestart

Spec == Init /\ [][Next]_vars

(* The threads are loops that never end, so each of their steps is weakly   *)
(* fair.  The link is only fair-lossy: among the requests that are sent for *)
(* ever, some are answered and some answers are read within TIMEOUT, hence  *)
(* strong fairness; so is the ack worker's UPDATE, which may fail now and   *)
(* then but not for ever.                                                   *)
AnswerInTime == cpc = "wait" /\ \E m \in reqs : m.cur /\ AnswerRequest(m)

Fairness ==
    /\ WF_vars(PollSelect) /\ WF_vars(PollStore)
    /\ SF_vars(AnswerInTime)
    /\ SF_vars(\E c \in rsps : ReceiveResponse(c))
    /\ SF_vars(\E c \in Cmds : ApplyAck(c))
    /\ WF_vars(SendRequest) /\ WF_vars(Timeout) /\ WF_vars(TakeCommand)
    /\ WF_vars(ExecuteCommand)

FairSpec == Spec /\ Fairness

-----------------------------------------------------------------------------
(* Properties *)

Place(c) == IF c = None THEN 0 ELSE pos[c]

(* No handled file has stayed and no save of an id has failed so far. *)
Faultless == faults = 0

(* What is left of "executed once" (probe_server.py:35-38, protocol.md      *)
(* 10.3): every further execution of a command is paid for by a file that   *)
(* stayed after its handler had run, and so was registered again (:151), or *)
(* by a save of its id that failed (probe_client.py:79-81).  Loss,          *)
(* duplication, reordering, stale copies, lost acknowledgements and         *)
(* restarts alone never repeat a command.                                   *)
OncePerFault == \A c \in Cmds : execs[c] <= 1 + stays[c] + unsaved[c]

(* "Executed once", promised for each fault by itself: a file is handled    *)
(* once, whether that succeeds or fails, and an id that comes again is      *)
(* known to the gateway (probe_server.py:151, :36-38), so beyond the failed *)
(* saves nothing repeats; the id is saved before execution so that a        *)
(* restart repeats nothing (protocol.md 10.3), so beyond the files that     *)
(* stayed nothing repeats.  The code keeps neither promise: a behaviour     *)
(* with both faults breaks both.                                            *)
FileHandledOnce == \A c \in Cmds : execs[c] <= 1 + unsaved[c]

RestartRepeatsNothing == \A c \in Cmds : execs[c] <= 1 + stays[c]

OneFaultHarmless == FileHandledOnce \/ RestartRepeatsNothing

(* A row is marked acknowledged only when the gateway's last_cmd_id file,   *)
(* which survives a power cut, has reached that command: once the server    *)
(* stops delivering a command, no restart can make the gateway need it.     *)
(* This, and the next three, until the first of the two faults.             *)
AckedIsDurable == Faultless /\ acked => Place(lastDisk) = Place(row)

(* A reset is never lost to a later on/off command: when a measure command  *)
(* gets into pending_cmd, the reset registered last before it has been      *)
(* taken by the gateway (the reason for the live check, :175-184).          *)
LastResetBefore(r, m) ==
    /\ Kind[r] = "reset" /\ Kind[m] # "reset"
    /\ 0 < pos[r] /\ pos[r] < pos[m]
    /\ \A d \in Cmds : Kind[d] = "reset" => ~(pos[r] < pos[d] /\ pos[d] < pos[m])

ResetNotLost == Faultless => \A r, m \in Cmds : LastResetBefore(r, m) => r \in taken

(* The gateway takes commands in the order the server registered them: its  *)
(* last_cmd_id never goes back to an earlier command, over restarts, stale  *)
(* caches and late responses.                                               *)
TakenInOrder == [][Faultless' => Place(last') >= Place(last)]_vars

(* The channel implements its abstract specification. *)
Abstract == INSTANCE CommandSpec WITH
                taken <- Place(lastDisk),
                open  <- row # None /\ ~acked

AbstractSpec ==
    Abstract!Init /\ [][Faultless' => Abstract!Next]_(Abstract!vars)

(* A registered command reaches the gateway, and the server learns of it,   *)
(* unless another command replaces it: despite loss, failed writes and      *)
(* restarts, no command is stuck in "pending".                              *)
Acknowledged ==
    \A c \in Cmds : (row = c /\ ~acked) ~> (row # c \/ (acked /\ c \in taken))

(* protocol.md 10.1: ack_id is the last command the gateway EXECUTED; so an *)
(* acknowledged command has been executed.                                  *)
AckedWasExecuted == acked => execs[row] > 0
=============================================================================
