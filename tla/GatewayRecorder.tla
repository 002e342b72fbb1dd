--------------------------- MODULE GatewayRecorder ---------------------------
(***************************************************************************)
(* Inside the gateway's probe_client: the main loop measures and hands     *)
(* rows to the writer thread through logq; the writer batches them into    *)
(* the probe table.  A reset command is executed by the writer, at the     *)
(* request of the main loop: _reset_req and _reset_done are the two events *)
(* of that handshake.                                                      *)
(*                                                                         *)
(* A row is its (run, seq).  Runs are numbered in the order they begin (in *)
(* the code: the second they begin).  Delivery of commands is the subject  *)
(* of CommandChannel; here they just arrive.                               *)
(***************************************************************************)
EXTENDS Naturals, Sequences, SequencesExt

CONSTANTS
    QMax,              \* capacity of logq (200000)
    BatchLen,          \* a batch is written at this length (10)
    BufMax, BufKeep,   \* the buffer is cut to BufKeep rows beyond BufMax
    MaxRun, MaxSeq,    \* bounds: runs, and cycles in a run
    MaxResets,         \* bound: reset commands
    MaxCrashes,        \* bound: restarts of the client
    MaxLate            \* bound: expiries of _reset_done.wait(timeout=60)

ASSUME RecorderAssumption ==
    /\ {QMax, BatchLen, BufMax, BufKeep} \subseteq Nat \ {0}
    /\ BufKeep <= BufMax /\ BatchLen <= BufMax
    /\ MaxRun \in Nat \ {0}
    /\ {MaxSeq, MaxResets, MaxCrashes, MaxLate} \subseteq Nat

VARIABLES
    (* main loop *)
    mpc,               \* "cycle", "cmd", "setReq", "wait"
    run, seq, mode,
    (* shared by the two threads *)
    resetReq, resetDone, logq,
    (* writer *)
    wpc,               \* "top", "drain", "erase", "clearReq", "setDone", "get", "write"
    buf,
    (* SQLite *)
    table,
    txErase,           \* 0, or the fence of an erasure left uncommitted
    (* history *)
    accepted,          \* rows that entered logq since the client started
    fence,             \* rows of runs before this one were to be erased
    ended,             \* the run in which the last reset command arrived
    overflow,          \* has the buffer been cut?
    late,              \* waits that expired before the writer answered
    resets, crashes

mainVars   == <<mpc, run, seq, mode>>
writerVars == <<wpc, buf>>
dbVars     == <<table, txErase>>
histVars   == <<fence, ended, overflow, late, resets, crashes>>
vars == <<mainVars, resetReq, resetDone, logq, writerVars, dbVars, accepted, histVars>>

Rows == [run : 1 .. MaxRun, seq : 1 .. MaxSeq]

TypeOK ==
    /\ mpc \in {"cycle", "cmd", "setReq", "wait"}
    /\ run \in 1 .. MaxRun
    /\ seq \in 0 .. MaxSeq
    /\ mode \in {"on", "off"}
    /\ resetReq \in BOOLEAN /\ resetDone \in BOOLEAN
    /\ logq \in Seq(Rows) /\ Len(logq) <= QMax
    /\ wpc \in {"top", "drain", "erase", "clearReq", "setDone", "get", "write"}
    /\ buf \in Seq(Rows) /\ Len(buf) <= BufMax + 1
    /\ table \in Seq(Rows)
    /\ txErase \in 0 .. MaxRun + 1
    /\ accepted \subseteq Rows
    /\ fence \in 0 .. MaxRun + 1
    /\ ended \in 0 .. MaxRun
    /\ overflow \in BOOLEAN
    /\ late \in 0 .. MaxLate
    /\ resets \in 0 .. MaxResets
    /\ crashes \in 0 .. MaxCrashes

Init ==
    /\ mpc = "cycle" /\ run = 1 /\ seq = 0 /\ mode = "on"
    /\ resetReq = FALSE /\ resetDone = FALSE /\ logq = <<>>
    /\ wpc = "top" /\ buf = <<>> /\ table = <<>> /\ txErase = 0
    /\ accepted = {} /\ fence = 0 /\ ended = 0 /\ overflow = FALSE
    /\ late = 0 /\ resets = 0 /\ crashes = 0

-----------------------------------------------------------------------------
(* Main loop *)

NewRun == run < MaxRun /\ run' = run + 1 /\ seq' = 0

(* The wall clock was stepped: a new run, then the cycle goes on. *)
ClockStep ==
    /\ mpc = "cycle"
    /\ NewRun
    /\ UNCHANGED <<mpc, mode, resetReq, resetDone, logq, writerVars, dbVars,
                   accepted, histVars>>

NoLimit == TRUE

HasRoom == Len(logq) < QMax

(* One request, answered or not; the row is queued while measuring.  A full *)
(* queue drops it.                                                          *)
Cycle ==
    /\ mpc = "cycle"
    /\ seq < MaxSeq
    /\ seq' = seq + 1
    /\ mpc' = "cmd"
    /\ LET row == [run |-> run, seq |-> seq + 1]
       IN  IF mode = "on" /\ HasRoom
           THEN logq' = Append(logq, row) /\ accepted' = accepted \cup {row}
           ELSE UNCHANGED <<logq, accepted>>
    /\ UNCHANGED <<run, mode, resetReq, resetDone, writerVars, dbVars, histVars>>

NoCommand ==
    /\ mpc = "cmd"
    /\ mpc' = "cycle"
    /\ UNCHANGED <<run, seq, mode, resetReq, resetDone, logq, writerVars, dbVars,
                   accepted, histVars>>

MeasureOff ==
    /\ mpc = "cmd" /\ mode = "on"
    /\ mode' = "off"
    /\ mpc' = "cycle"
    /\ UNCHANGED <<run, seq, resetReq, resetDone, logq, writerVars, dbVars,
                   accepted, histVars>>

MeasureOn ==
    /\ mpc = "cmd" /\ mode = "off"
    /\ mode' = "on"
    /\ NewRun
    /\ mpc' = "cycle"
    /\ UNCHANGED <<resetReq, resetDone, logq, writerVars, dbVars, accepted, histVars>>

ClearDone ==
    /\ mpc = "cmd"
    /\ resets < MaxResets /\ run < MaxRun
    /\ resets' = resets + 1
    /\ ended' = run
    /\ resetDone' = FALSE
    /\ mpc' = "setReq"
    /\ UNCHANGED <<run, seq, mode, resetReq, logq, writerVars, dbVars, accepted,
                   fence, overflow, late, crashes>>

SetReq ==
    /\ mpc = "setReq"
    /\ resetReq' = TRUE
    /\ mpc' = "wait"
    /\ UNCHANGED <<run, seq, mode, resetDone, logq, writerVars, dbVars, accepted,
                   histVars>>

ResetFinished ==
    /\ mpc = "wait"
    /\ resetDone
    /\ NewRun
    /\ mpc' = "cycle"
    /\ UNCHANGED <<mode, resetReq, resetDone, logq, writerVars, dbVars, accepted,
                   histVars>>

(* The writer did not answer within 60 s: the run goes on. *)
ResetTimedOut ==
    /\ late < MaxLate
    /\ mpc = "wait"
    /\ ~resetDone
    /\ late' = late + 1
    /\ mpc' = "cycle"
    /\ UNCHANGED <<run, seq, mode, resetReq, resetDone, logq, writerVars, dbVars,
                   accepted, fence, ended, overflow, resets, crashes>>

-----------------------------------------------------------------------------
(* Writer *)

BeginReset ==
    /\ wpc = "top"
    /\ resetReq
    /\ buf' = <<>>
    /\ wpc' = "drain"
    /\ UNCHANGED <<mainVars, resetReq, resetDone, logq, dbVars, accepted, histVars>>

DrainsNothing == TRUE

Drained == logq = <<>>

Drain ==
    /\ wpc = "drain"
    /\ IF Drained
       THEN wpc' = "erase" /\ UNCHANGED logq
       ELSE logq' = Tail(logq) /\ UNCHANGED wpc
    /\ UNCHANGED <<mainVars, resetReq, resetDone, buf, dbVars, accepted, histVars>>

(* DELETE and commit; VACUUM may fail after them.  An erasure left open by  *)
(* an earlier reset is committed with it.                                   *)
Erase ==
    /\ wpc = "erase"
    /\ table' = <<>> /\ txErase' = 0
    /\ fence' = run + 1
    /\ wpc' = "clearReq"
    /\ UNCHANGED <<mainVars, resetReq, resetDone, logq, buf, accepted, ended,
                   overflow, late, resets, crashes>>

StartsOver == "drain"

(* Both sqlite3.Error and success end in _reset_req.clear(). *)
AfterErase == "clearReq"

EraseFails ==
    /\ wpc = "erase"
    /\ wpc' = AfterErase
    /\ UNCHANGED <<mainVars, resetReq, resetDone, logq, buf, dbVars, accepted, histVars>>

(* DELETE is done but its commit fails: nothing rolls it back, and the next *)
(* successful write commits it.                                             *)
EraseUncommitted ==
    /\ wpc = "erase"
    /\ txErase' = run + 1
    /\ wpc' = AfterErase
    /\ UNCHANGED <<mainVars, resetReq, resetDone, logq, buf, table, accepted, histVars>>

ClearReq ==
    /\ wpc = "clearReq"
    /\ resetReq' = FALSE
    /\ wpc' = "setDone"
    /\ UNCHANGED <<mainVars, resetDone, logq, buf, dbVars, accepted, histVars>>

SetDone ==
    /\ wpc = "setDone"
    /\ resetDone' = TRUE
    /\ wpc' = "get"
    /\ UNCHANGED <<mainVars, resetReq, logq, buf, dbVars, accepted, histVars>>

NoReset ==
    /\ wpc = "top"
    /\ ~resetReq
    /\ wpc' = "get"
    /\ UNCHANGED <<mainVars, resetReq, resetDone, logq, buf, dbVars, accepted, histVars>>

(* logq.get(timeout=1); on Empty the loop starts over. *)
GetRow ==
    /\ wpc = "get"
    /\ IF logq = <<>>
       THEN wpc' = "top" /\ UNCHANGED <<logq, buf>>
       ELSE /\ buf' = Append(buf, Head(logq))
            /\ logq' = Tail(logq)
            /\ wpc' = "write"
    /\ UNCHANGED <<mainVars, resetReq, resetDone, dbVars, accepted, histVars>>

KeepsBuf == buf

ClearedBuf == <<>>

BatchReady == Len(buf) >= BatchLen \/ logq = <<>>

(* executemany and commit in one transaction, with an erasure left open. *)
WriteBatch ==
    /\ wpc = "write"
    /\ wpc' = "top"
    /\ \/ /\ BatchReady
          /\ txErase = 0
          /\ table' = table \o buf
          /\ buf' = ClearedBuf
          /\ UNCHANGED <<txErase, fence>>
       \/ /\ BatchReady
          /\ txErase # 0
          /\ table' = buf /\ fence' = txErase
          /\ buf' = ClearedBuf /\ txErase' = 0
       \/ ~BatchReady /\ UNCHANGED <<dbVars, buf, fence>>
    /\ UNCHANGED <<mainVars, resetReq, resetDone, logq, accepted, ended, overflow, late,
                   resets, crashes>>

DropsBatch == <<>>

KeptBuf == IF Len(buf) > BufMax THEN SubSeq(buf, Len(buf) - BufKeep + 1, Len(buf))
                                ELSE buf

(* The database is busy: roll back, keep the buffer, cut it if too long. *)
WriteFails ==
    /\ wpc = "write"
    /\ BatchReady
    /\ wpc' = "top"
    /\ buf' = KeptBuf
    /\ overflow' = (overflow \/ Len(buf) > BufMax)
    /\ txErase' = 0
    /\ UNCHANGED <<mainVars, resetReq, resetDone, logq, table, accepted, fence,
                   ended, late, resets, crashes>>

-----------------------------------------------------------------------------
(* The process ends and is started again: only the table is left. *)
Restart ==
    /\ crashes < MaxCrashes
    /\ crashes' = crashes + 1
    /\ NewRun
    /\ mpc' = "cycle" /\ UNCHANGED mode
    /\ resetReq' = FALSE /\ resetDone' = FALSE /\ logq' = <<>>
    /\ txErase' = 0
    /\ wpc' = "top" /\ buf' = <<>>
    /\ accepted' = {}
    /\ UNCHANGED <<table, fence, ended, overflow, late, resets>>

Main ==
    \/ ClockStep \/ Cycle \/ NoCommand \/ MeasureOff \/ MeasureOn
    \/ ClearDone \/ SetReq \/ ResetFinished \/ ResetTimedOut

Writer ==
    \/ BeginReset \/ Drain \/ Erase \/ EraseFails \/ EraseUncommitted \/ ClearReq
    \/ SetDone
    \/ NoReset \/ GetRow \/ WriteBatch \/ WriteFails

Next == Main \/ Writer \/ Restart

Spec == Init /\ [][Next]_vars

(* Both threads are loops; the main loop does not wait for commands. *)
FairSpec == Spec /\ WF_vars(Writer) /\ WF_vars(SetReq) /\ WF_vars(ResetFinished)

-----------------------------------------------------------------------------
(* Properties *)

Before(r, s) == r.run < s.run \/ (r.run = s.run /\ r.seq < s.seq)

(* Rows reach the table in the order they were measured and none twice,     *)
(* over failed and retried writes, resets and restarts.                     *)
RowsInOrder ==
    LET all == table \o buf \o logq
    IN  \A i, j \in 1 .. Len(all) : i < j => Before(all[i], all[j])

(* protocol.md 10.3: a reset starts a new run, so that the analysis can     *)
(* tell the rows before it from those after it.  Once the table has been    *)
(* erased, no row of the run that the reset ended appears in it.            *)
ResetStartsNewRun == \A i \in 1 .. Len(table) : table[i].run >= fence

(* The same as long as no wait has expired: the handshake keeps the main    *)
(* loop from queueing a row of the old run behind the writer's back.        *)
AnsweredResetStartsNewRun == late = 0 => ResetStartsNewRun

(* A reset discards rows of the run it ends and of earlier ones; as long as *)
(* no wait has expired, every row queued in a later run is still on its way *)
(* or in the table.                                                         *)
LaterRowsKept ==
    ~overflow /\ late = 0 =>
        \A r \in accepted : r.run > ended =>
            r \in ToSet(logq) \cup ToSet(buf) \cup ToSet(table)

(* The main loop does not hang in a reset: the writer answers it, also when *)
(* an earlier wait expired and its answer is still to come.                 *)
ResetAnswered == mpc = "wait" ~> mpc # "wait"
=============================================================================
