------------------------------ MODULE SampleLog ------------------------------
(***************************************************************************)
(* How a program on the host records what it receives: the end-to-end      *)
(* logger, and with the same statements probe_server.  The receiving       *)
(* thread puts a row into logq, a writer thread batches rows into the live *)
(* database, another exports a copy that the dashboard reads, and a third  *)
(* deletes everything when the dashboard has left a reset file.            *)
(*                                                                         *)
(* Every copy is the database of one instant (a backup through SQLite); of *)
(* the copy only that is kept: whether it is still the database of now.    *)
(***************************************************************************)
EXTENDS Naturals, Sequences, SequencesExt

CONSTANTS
    QMax,               \* capacity of logq (200000)
    BatchLen,           \* a batch is written at this length (20)
    BufMax, BufKeep,    \* the buffer is cut to BufKeep rows beyond BufMax
    MaxUpsets           \* bound: reset files, errors, restarts

ASSUME SampleLogAssumption ==
    /\ {QMax, BatchLen, BufMax, BufKeep} \subseteq Nat \ {0} /\ BufKeep <= BufMax
    /\ MaxUpsets \in Nat

VARIABLES
    logq, buf, table,
    fresh,              \* is the copy the database of now?
    reading,            \* has the dashboard the snapshot open?
    resetFile,          \* is there one?
    gone,               \* history: rows received that never reached the table
    upsets

copyVars   == <<fresh, reading>>
logVars == <<logq, buf, table, copyVars, resetFile, gone, upsets>>

LogTypeOK(Row) ==
    /\ logq \in Seq(Row) /\ Len(logq) <= QMax
    /\ buf \in Seq(Row) /\ Len(buf) <= BufMax
    /\ table \in Seq(Row)
    /\ fresh \in BOOLEAN /\ reading \in BOOLEAN
    /\ resetFile \in BOOLEAN
    /\ gone \subseteq Row
    /\ upsets \in 0 .. MaxUpsets

LogInit ==
    /\ logq = <<>> /\ buf = <<>> /\ table = <<>>
    /\ fresh = FALSE /\ reading = FALSE
    /\ resetFile = FALSE /\ gone = {}
    /\ upsets = 0

Upset == upsets < MaxUpsets /\ upsets' = upsets + 1

-----------------------------------------------------------------------------
NoLimit == TRUE

HasRoom == Len(logq) < QMax

(* on_message: a full queue drops the row. *)
Receive(r) ==
    /\ IF HasRoom THEN logq' = Append(logq, r) /\ UNCHANGED gone
                  ELSE gone' = gone \cup {r} /\ UNCHANGED logq
    /\ UNCHANGED <<buf, table, copyVars, resetFile, upsets>>

(* writer: it takes rows until the batch is long enough or the queue is    *)
(* empty, and then tries to write them.  After a refused batch too it      *)
(* waits for another row first, and a buffer that has grown too long       *)
(* loses its oldest rows.                                                  *)
Batch ==
    LET missing == IF Len(buf) < BatchLen THEN BatchLen - Len(buf) ELSE 1
    IN  IF missing < Len(logq) THEN missing ELSE Len(logq)

Taken == buf \o SubSeq(logq, 1, Batch)

WriteBatch ==
    /\ logq # <<>>
    /\ table' = table \o Taken /\ buf' = <<>>
    /\ logq' = SubSeq(logq, Batch + 1, Len(logq))
    /\ fresh' = FALSE
    /\ UNCHANGED <<reading, resetFile, gone, upsets>>

WriteFails ==
    /\ logq # <<>> /\ Upset
    /\ buf' = IF Len(Taken) > BufMax
              THEN SubSeq(Taken, Len(Taken) - BufKeep + 1, Len(Taken)) ELSE Taken
    /\ gone' = gone \cup (ToSet(Taken) \ ToSet(buf'))
    /\ logq' = SubSeq(logq, Batch + 1, Len(logq))
    /\ UNCHANGED <<table, copyVars, resetFile>>

(* snapshot_worker: Windows refuses os.replace while the dashboard has the *)
(* old copy open.  Nobody sees the copy before it is put in place.         *)
Snapshot ==
    /\ ~reading
    /\ fresh' = TRUE
    /\ UNCHANGED <<logq, buf, table, reading, resetFile, gone, upsets>>

(* A page of the dashboard; it has to close the file.  While the copy is   *)
(* current an open page is in nobody's way.                                *)
OpenDb ==
    /\ ~fresh /\ ~reading /\ reading' = TRUE
    /\ UNCHANGED <<logq, buf, table, fresh, resetFile, gone,
                   upsets>>

LeftOpen == TRUE

Closed == FALSE

CloseDb ==
    /\ reading /\ reading' = Closed
    /\ UNCHANGED <<logq, buf, table, fresh, resetFile, gone,
                   upsets>>

(* cmd_file_worker: the rows are deleted, then the file is removed, also   *)
(* when deleting failed.  A file that could not be removed, or was left by *)
(* a restart in between, is carried out again.                             *)
RequestReset ==
    /\ ~resetFile /\ Upset
    /\ resetFile' = TRUE
    /\ UNCHANGED <<logq, buf, table, copyVars, gone>>

EraseRows ==
    /\ resetFile
    /\ table' = <<>>
    /\ fresh' = FALSE
    /\ \/ resetFile' = FALSE /\ UNCHANGED upsets
       \/ UNCHANGED resetFile /\ Upset
    /\ UNCHANGED <<logq, buf, reading, gone>>

EraseFails ==
    /\ resetFile /\ Upset
    /\ resetFile' = FALSE
    /\ UNCHANGED <<logq, buf, table, copyVars, gone>>

(* What was not committed is lost; the file is found again. *)
LogRestart ==
    /\ Upset
    /\ logq' = <<>> /\ buf' = <<>>
    /\ gone' = gone \cup ToSet(logq) \cup ToSet(buf)
    /\ UNCHANGED <<table, copyVars, resetFile>>

=============================================================================
