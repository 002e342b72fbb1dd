------------------------ MODULE CommandChannelProofs ------------------------
(***************************************************************************)
(* Proofs about CommandChannel, for any set of commands, any ackq capacity *)
(* and any number of restarts and faults.  With faults: type correctness   *)
(* and the bound on executions.  Until the first fault: durable            *)
(* acknowledgement, no lost reset, the order of the commands and the       *)
(* refinement of CommandSpec.                                              *)
(***************************************************************************)
EXTENDS CommandChannel, TLAPS

-----------------------------------------------------------------------------
(* Part 1: how often a command can be executed, whatever fails.             *)
(*                                                                          *)
(* What the gateway meets next is a chain: its last_cmd_id, the command it  *)
(* is about to read, the cache, the poller's rows, the row.  A command is   *)
(* executed again only where the chain changes to it.                       *)

(* What the gateway remembers after it has read x. *)
Then(p, x) == IF x = None THEN p ELSE x

(* Is c new to a gateway that remembers p and reads x? *)
New(c, p, x) == IF x = c /\ p # c THEN 1 ELSE 0

(* Executions of c along the chain: read x, then the cache k, rows f, row w. *)
Runs(c, p, x, k, f, w) ==
    New(c, p, x) + New(c, Then(p, x), k) + New(c, Then(Then(p, x), k), f)
      + New(c, Then(Then(Then(p, x), k), f), w)

Undelivered == IF acked THEN None ELSE row

Ahead(c, p, x) == Runs(c, p, x, cache, fetched, Undelivered)

(* What the gateway may read before it asks again. *)
Readable ==
    {None} \cup (IF cpc = "wait" THEN rsps ELSE {})
           \cup (IF cpc = "take" THEN {got} ELSE {})

Executing(c) == IF cpc = "exec" /\ got = c THEN 1 ELSE 0

(* Is c registered, or its file being handled or gone? *)
Served(c) == IF c \notin issued \/ (c \in files /\ handling # c) THEN 0 ELSE 1

FilesInv ==
    /\ files \subseteq issued
    /\ listing \subseteq files
    /\ handling # None => handling \in files

GotInv ==
    /\ cpc \in {"take", "exec"} => got # None
    /\ cpc = "take" => got # last

(* Executions done, under way and ahead of a gateway that remembers p.      *)
Paid(c, p, x) == execs[c] + Executing(c) + Ahead(c, p, x)
                   <= Served(c) + stays[c] + unsaved[c]

ChainInv ==
    \A c \in Cmds : \A x \in Readable : Paid(c, last, x) /\ Paid(c, lastDisk, x)

RInv == TypeOK /\ FilesInv /\ GotInv /\ ChainInv

(* Facts about the chain: what a step of the channel does to it.            *)
LEMMA ChainFacts ==
  ASSUME NEW c, NEW p, NEW x, NEW k, NEW f, NEW w, c # None
  PROVE  /\ Runs(c, p, x, k, f, w) \in Nat
         /\ Runs(c, p, x, k, f, None) <= Runs(c, p, x, k, f, w)
         /\ Runs(c, p, x, k, f, c) <= Runs(c, p, x, k, f, w) + 1
         /\ Runs(c, p, x, f, None, w) <= Runs(c, p, x, k, f, w)
         /\ Runs(c, p, x, k, w, w) <= Runs(c, p, x, k, None, w)
         /\ Runs(c, p, x, None, None, w) <= Runs(c, p, x, k, f, w)
         /\ Runs(c, p, k, k, f, w) <= Runs(c, p, None, k, f, w)
         /\ Runs(c, p, None, k, f, w) <= Runs(c, p, x, k, f, w)
         /\ x # None => Runs(c, x, None, k, f, w) + New(c, p, x) = Runs(c, p, x, k, f, w)
  BY DEF Runs, New, Then

LEMMA OtherRow ==
  ASSUME NEW c, NEW d, NEW p, NEW x, NEW k, NEW f, NEW w, c # None, c # d
  PROVE  Runs(c, p, x, k, f, d) <= Runs(c, p, x, k, f, w)
  BY DEF Runs, New, Then
-----------------------------------------------------------------------------
LEMMA InitRInv == Init => RInv
<1> SUFFICES ASSUME Init PROVE RInv
  OBVIOUS
<1>1. TypeOK
  <2>1. faults \in 0..MaxFaults
    BY BoundAssumption DEF Init
  <2> QED BY <2>1 DEF Init, TypeOK, MaybeCmd
<1>2. FilesInv /\ GotInv
  BY DEF Init, FilesInv, GotInv
<1>3. ChainInv
  BY DEF Init, ChainInv, Paid, Readable, Executing, Ahead, Runs, New, Then, Undelivered,
     Served
<1> QED BY <1>1, <1>2, <1>3 DEF RInv

LEMMA StepTypeOK == ASSUME RInv, [Next]_vars PROVE TypeOK'
<1> USE BoundAssumption DEF RInv, TypeOK, MaybeCmd, faultVars
<1>1. CASE Dashboard
  BY <1>1 DEF Dashboard, RequestReset, RequestMeasure, QueueCommand, rowVars, pollVars,
     netVars, clientVars
<1>2. CASE ExportSnapshot
  BY <1>2 DEF ExportSnapshot, ResetPending, fileVars, rowVars, pollVars, netVars, clientVars
<1>3. CASE FileWorker
  <2> USE DEF dashVars, pollVars, netVars, clientVars
  <2>1. CASE ListFiles
    BY <2>1 DEF ListFiles, rowVars
  <2>2. ASSUME NEW c \in Cmds, HandleFile(c) PROVE TypeOK'
    <3>1. CASE UNCHANGED rowVars
      BY <2>2, <3>1 DEF HandleFile, rowVars
    <3>2. CASE Register(c)
      <4>1. pos' \in [Cmds -> Nat] /\ nreg' \in Nat
        BY <3>2 DEF Register
      <4>2. row' \in MaybeCmd /\ acked' \in BOOLEAN
        BY <3>2 DEF Register
      <4> QED BY <2>2, <4>1, <4>2 DEF HandleFile
    <3> QED BY <2>2, <3>1, <3>2 DEF HandleFile
  <2>3. ASSUME NEW c \in Cmds, HandlerFails(c) PROVE TypeOK'
    BY <2>3 DEF HandlerFails, rowVars
  <2>4. CASE RemoveFile
    BY <2>4 DEF RemoveFile, rowVars
  <2>5. CASE RemoveFails
    BY <2>5 DEF RemoveFails, FileStays, rowVars
  <2> QED BY <1>3, <2>1, <2>2, <2>3, <2>4, <2>5 DEF FileWorker
<1>4. CASE PollSelect \/ PollStore
  BY <1>4 DEF PollSelect, PollStore, dashVars, fileVars, rowVars, netVars, clientVars
<1>5. CASE HotPath
  <2> PICK m \in reqs : AnswerRequest(m)
    BY <1>5 DEF HotPath
  <2>1. rsps' \subseteq MaybeCmd
    BY DEF AnswerRequest
  <2>2. ackq' \subseteq Cmds
    BY DEF AnswerRequest, Acks
  <2> QED BY <2>1, <2>2 DEF AnswerRequest, dashVars, fileVars, rowVars, pollVars, clientVars
<1>6. CASE AckWorker
  BY <1>6 DEF AckWorker, ApplyAck, LoseAck, Marks, dashVars, fileVars, rowVars, pollVars,
     netVars, clientVars
<1>7. CASE ServerRestart
  <2>1. stays' \in [Cmds -> Nat] /\ faults' \in 0..MaxFaults /\ crashes' \in Nat
    BY <1>7 DEF ServerRestart, FileStays
  <2> QED BY <1>7, <2>1 DEF ServerRestart, dashVars, rowVars, netVars, clientVars
<1>8. CASE Client
  <2> USE DEF dashVars, fileVars, rowVars, pollVars
  <2>1. CASE SendRequest
    <3>1. [cur |-> TRUE, ack |-> AckId] \in ReqMsgs
      BY DEF AckId, ReqMsgs
    <3>2. \A m \in reqs : [m EXCEPT !.cur = FALSE] \in ReqMsgs
      BY DEF ReqMsgs
    <3> QED BY <2>1, <3>1, <3>2 DEF SendRequest, MatchingAnswers
  <2>2. ASSUME NEW c \in rsps, ReceiveResponse(c) PROVE TypeOK'
    BY <2>2 DEF ReceiveResponse, netVars
  <2>3. CASE Timeout
    BY <2>3 DEF Timeout, netVars
  <2>4. CASE TakeCommand
    BY <2>4 DEF TakeCommand, SaveFails, GotInv, netVars
  <2>5. CASE ExecuteCommand
    BY <2>5 DEF ExecuteCommand, GotInv, netVars
  <2>6. CASE ExecuteFails
    BY <2>6 DEF ExecuteFails, netVars
  <2> QED BY <1>8, <2>1, <2>2, <2>3, <2>4, <2>5, <2>6 DEF Client
<1>9. CASE ClientRestart
  BY <1>9 DEF ClientRestart, dashVars, fileVars, rowVars, pollVars, netVars
<1>10. CASE UNCHANGED vars
  BY <1>10 DEF vars, dashVars, fileVars, rowVars, pollVars, netVars, clientVars
<1> QED BY <1>1, <1>2, <1>3, <1>4, <1>5, <1>6, <1>7, <1>8, <1>9, <1>10 DEF Next

LEMMA StepFilesInv == ASSUME RInv, [Next]_vars PROVE FilesInv'
<1> USE NoneAssumption DEF RInv, FilesInv
<1>1. CASE Dashboard
  BY <1>1 DEF Dashboard, RequestReset, RequestMeasure, QueueCommand
<1>2. CASE FileWorker
  BY <1>2 DEF FileWorker, ListFiles, HandleFile, HandlerFails, NextFile, RemoveFile,
     RemoveFails, dashVars
<1>3. CASE ServerRestart
  BY <1>3 DEF ServerRestart, dashVars
<1>4. CASE UNCHANGED <<dashVars, fileVars>>
  BY <1>4 DEF dashVars, fileVars
<1>5. ExportSnapshot => FilesInv'
  BY DEF ExportSnapshot, fileVars
<1>6. PollSelect \/ PollStore \/ HotPath \/ AckWorker \/ Client \/ ClientRestart
        \/ UNCHANGED vars => UNCHANGED <<dashVars, fileVars>>
  BY DEF PollSelect, PollStore, HotPath, AnswerRequest, AckWorker, ApplyAck, LoseAck, Client,
     SendRequest, ReceiveResponse, Timeout, TakeCommand, ExecuteCommand, ExecuteFails,
     ClientRestart, vars
<1> QED BY <1>1, <1>2, <1>3, <1>4, <1>5, <1>6 DEF Next

LEMMA StepGotInv == ASSUME RInv, [Next]_vars PROVE GotInv'
<1> USE DEF RInv, GotInv
<1>1. CASE Client
  BY <1>1 DEF Client, SendRequest, ReceiveResponse, IsNewId, Timeout, TakeCommand,
     ExecuteCommand, ExecuteFails
<1>2. CASE ClientRestart
  BY <1>2 DEF ClientRestart
<1>3. CASE UNCHANGED clientVars
  BY <1>3 DEF clientVars
<1>4. Dashboard \/ ExportSnapshot \/ FileWorker \/ PollSelect \/ PollStore \/ HotPath
        \/ AckWorker \/ ServerRestart \/ UNCHANGED vars => UNCHANGED clientVars
  BY DEF Dashboard, RequestReset, RequestMeasure, QueueCommand, ExportSnapshot, FileWorker,
     ListFiles, HandleFile, HandlerFails, RemoveFile, RemoveFails, PollSelect, PollStore,
     HotPath, AnswerRequest, AckWorker, ApplyAck, LoseAck, ServerRestart, vars
<1> QED BY <1>1, <1>2, <1>3, <1>4 DEF Next

LEMMA NoneNotCmd == \A c \in Cmds : c # None
  BY NoneAssumption

(* A step of the server that makes the chain no dearer than it pays for.    *)
LEMMA ServerStep ==
  ASSUME RInv, TypeOK', UNCHANGED <<clientVars, unsaved, rsps>>,
         \A c \in Cmds : \A p, x :
            Runs(c, p, x, cache', fetched', Undelivered') + Served(c) + stays[c]
              <= Runs(c, p, x, cache, fetched, Undelivered) + Served(c)' + stays'[c]
  PROVE  ChainInv'
<1> SUFFICES ASSUME NEW c \in Cmds, NEW x \in Readable'
             PROVE  Paid(c, last, x)' /\ Paid(c, lastDisk, x)'
  BY DEF ChainInv
<1>1. /\ last' = last /\ lastDisk' = lastDisk /\ Readable' = Readable
      /\ execs'[c] = execs[c] /\ Executing(c)' = Executing(c) /\ unsaved'[c] = unsaved[c]
  BY DEF clientVars, Readable, Executing
<1>2. Paid(c, last, x) /\ Paid(c, lastDisk, x)
  BY <1>1 DEF RInv, ChainInv
<1>3. /\ execs[c] \in Nat /\ stays[c] \in Nat /\ unsaved[c] \in Nat
      /\ stays'[c] \in Nat
  BY DEF RInv, TypeOK
<1>4. Executing(c) \in Nat /\ Served(c) \in Nat /\ Served(c)' \in Nat
  BY DEF Executing, Served
<1>5. \A p : Runs(c, p, x, cache', fetched', Undelivered') \in Nat
               /\ Runs(c, p, x, cache, fetched, Undelivered) \in Nat
  BY NoneNotCmd DEF Runs, New
<1>6. ASSUME NEW p, Paid(c, p, x)
      PROVE  execs'[c] + Executing(c)' + Runs(c, p, x, cache', fetched', Undelivered')
               <= Served(c)' + stays'[c] + unsaved'[c]
  <2>1. execs[c] + Executing(c) + Runs(c, p, x, cache, fetched, Undelivered)
          <= Served(c) + stays[c] + unsaved[c]
    BY <1>6 DEF Paid, Ahead
  <2> QED BY <1>1, <1>3, <1>4, <1>5, <2>1
<1>7. Paid(c, last, x)'
  BY <1>1, <1>2, <1>6 DEF Paid, Ahead
<1>8. Paid(c, lastDisk, x)'
  BY <1>1, <1>2, <1>6 DEF Paid, Ahead
<1> QED BY <1>7, <1>8

(* A step that leaves the chain and the files alone. *)
LEMMA QuietStep ==
  ASSUME RInv, TypeOK', UNCHANGED <<clientVars, stays, unsaved, rsps>>,
         UNCHANGED <<cache, fetched, row, acked>>,
         \A c \in Cmds : Served(c)' = Served(c)
  PROVE  ChainInv'
<1> SUFFICES ASSUME NEW c \in Cmds, NEW p, NEW x
             PROVE  Runs(c, p, x, cache', fetched', Undelivered') + Served(c) + stays[c]
                      <= Runs(c, p, x, cache, fetched, Undelivered) + Served(c)' + stays'[c]
  BY ServerStep
<1>1. Runs(c, p, x, cache', fetched', Undelivered')
        = Runs(c, p, x, cache, fetched, Undelivered)
  BY DEF Undelivered
<1>2. Runs(c, p, x, cache, fetched, Undelivered) \in Nat /\ Served(c) \in Nat
        /\ stays[c] \in Nat
  BY NoneNotCmd DEF Runs, New, Served, RInv, TypeOK
<1> QED BY <1>1, <1>2

(* A step that only changes the copies of the row. *)
LEMMA CopyStep ==
  ASSUME RInv, TypeOK', UNCHANGED <<clientVars, stays, unsaved, rsps, files, handling, issued>>,
         \A c \in Cmds : \A p, x :
            Runs(c, p, x, cache', fetched', Undelivered')
              <= Runs(c, p, x, cache, fetched, Undelivered)
  PROVE  ChainInv'
<1> SUFFICES ASSUME NEW c \in Cmds, NEW p, NEW x
             PROVE  Runs(c, p, x, cache', fetched', Undelivered') + Served(c) + stays[c]
                      <= Runs(c, p, x, cache, fetched, Undelivered) + Served(c)' + stays'[c]
  BY ServerStep
<1>1. Served(c)' = Served(c) /\ stays'[c] = stays[c]
  BY DEF Served
<1>2. /\ Runs(c, p, x, cache, fetched, Undelivered) \in Nat
      /\ Runs(c, p, x, cache', fetched', Undelivered') \in Nat
      /\ Served(c) \in Nat /\ stays[c] \in Nat
  BY NoneNotCmd DEF Runs, New, Served, RInv, TypeOK
<1>3. Runs(c, p, x, cache', fetched', Undelivered')
        <= Runs(c, p, x, cache, fetched, Undelivered)
  OBVIOUS
<1> QED BY <1>1, <1>2, <1>3

LEMMA ChainFileWorker == ASSUME RInv, TypeOK', FileWorker PROVE ChainInv'
<1>1. CASE ListFiles
  <2>1. \A c \in Cmds : Served(c)' = Served(c)
    BY <1>1 DEF ListFiles, Served, dashVars
  <2> QED BY <1>1, <2>1, QuietStep DEF ListFiles, rowVars, pollVars, netVars, faultVars
<1>2. ASSUME NEW d \in Cmds, HandleFile(d) \/ HandlerFails(d) PROVE ChainInv'
  <2>1. UNCHANGED <<clientVars, stays, unsaved, rsps, cache, fetched, files, issued>>
    BY <1>2 DEF HandleFile, HandlerFails, dashVars, pollVars, netVars, faultVars
  <2>2. Served(d) = 0 /\ Served(d)' = 1
    BY <1>2, <2>1, NoneNotCmd
    DEF HandleFile, HandlerFails, NextFile, RInv, FilesInv, Served
  <2>3. \A c \in Cmds : c # d => Served(c)' = Served(c)
    BY <1>2, <2>1, NoneNotCmd DEF HandleFile, HandlerFails, NextFile, Served
  <2>4. Undelivered' = Undelivered \/ Undelivered' = d
    BY <1>2 DEF HandleFile, HandlerFails, Register, rowVars, Undelivered
  <2>5. ASSUME NEW c \in Cmds, NEW p, NEW x
        PROVE  Runs(c, p, x, cache', fetched', Undelivered') + Served(c) + stays[c]
                 <= Runs(c, p, x, cache, fetched, Undelivered) + Served(c)' + stays'[c]
    <3>1. /\ Runs(c, p, x, cache, fetched, Undelivered) \in Nat
          /\ Runs(c, p, x, cache, fetched, Undelivered') \in Nat
          /\ stays[c] \in Nat /\ stays'[c] = stays[c] /\ Served(c) \in Nat
      BY <2>1, NoneNotCmd DEF Runs, New, Served, RInv, TypeOK
    <3>2. /\ c # d => Runs(c, p, x, cache, fetched, d)
                        <= Runs(c, p, x, cache, fetched, Undelivered)
          /\ c = d => Runs(c, p, x, cache, fetched, d)
                        <= Runs(c, p, x, cache, fetched, Undelivered) + 1
      BY NoneNotCmd DEF Runs, New, Then
    <3>3. CASE c = d
      BY <2>1, <2>2, <2>4, <3>1, <3>2, <3>3
    <3>4. CASE c # d
      BY <2>1, <2>3, <2>4, <3>1, <3>2, <3>4
    <3> QED BY <3>3, <3>4
  <2> QED BY <2>1, <2>5, ServerStep
<1>3. CASE RemoveFile
  <2>1. \A c \in Cmds : Served(c)' = Served(c)
    BY <1>3, NoneNotCmd DEF RemoveFile, Served, dashVars
  <2> QED BY <1>3, <2>1, QuietStep DEF RemoveFile, rowVars, pollVars, netVars, faultVars
<1>4. CASE RemoveFails
  <2>1. UNCHANGED <<clientVars, unsaved, rsps, cache, fetched, row, acked>>
    BY <1>4 DEF RemoveFails, rowVars, pollVars, netVars
  <2>2. \A c \in Cmds : Served(c) + stays[c] <= Served(c)' + stays'[c]
    BY <1>4 DEF RemoveFails, FileStays, Served, dashVars, RInv, TypeOK, MaybeCmd
  <2>3. ASSUME NEW c \in Cmds, NEW p, NEW x
        PROVE  Runs(c, p, x, cache', fetched', Undelivered') + Served(c) + stays[c]
                 <= Runs(c, p, x, cache, fetched, Undelivered) + Served(c)' + stays'[c]
    <3>1. Runs(c, p, x, cache', fetched', Undelivered')
            = Runs(c, p, x, cache, fetched, Undelivered)
      BY <2>1 DEF Undelivered
    <3>2. /\ Runs(c, p, x, cache, fetched, Undelivered) \in Nat
          /\ stays[c] \in Nat /\ stays'[c] \in Nat /\ Served(c) \in Nat /\ Served(c)' \in Nat
      BY NoneNotCmd DEF Runs, New, Served, RInv, TypeOK
    <3>3. Served(c) + stays[c] <= Served(c)' + stays'[c]
      BY <2>2
    <3> QED BY <3>1, <3>2, <3>3
  <2> QED BY <2>1, <2>3, ServerStep
<1> QED BY <1>1, <1>2, <1>3, <1>4 DEF FileWorker

LEMMA ChainDashboard == ASSUME RInv, TypeOK', Dashboard \/ ExportSnapshot PROVE ChainInv'
<1>1. ASSUME NEW d \in Cmds, QueueCommand(d) PROVE ChainInv'
  <2>1. \A c \in Cmds : Served(c)' = Served(c)
    BY <1>1, NoneNotCmd DEF QueueCommand, Served, RInv, FilesInv
  <2> QED BY <1>1, <2>1, QuietStep DEF QueueCommand, rowVars, pollVars, netVars, faultVars
<1>2. CASE ExportSnapshot
  <2>1. \A c \in Cmds : Served(c)' = Served(c)
    BY <1>2 DEF ExportSnapshot, Served, fileVars
  <2> QED BY <1>2, <2>1, QuietStep DEF ExportSnapshot, rowVars, pollVars, netVars, faultVars
<1> QED BY <1>1, <1>2 DEF Dashboard, RequestReset, RequestMeasure

LEMMA ChainPoll == ASSUME RInv, TypeOK', PollSelect \/ PollStore PROVE ChainInv'
<1>1. CASE PollSelect
  <2>1. cache' = cache /\ fetched' = Undelivered /\ Undelivered' = Undelivered
    BY <1>1 DEF PollSelect, Undelivered, rowVars
  <2>2. ASSUME NEW c \in Cmds, NEW p, NEW x
        PROVE  Runs(c, p, x, cache', fetched', Undelivered')
                 <= Runs(c, p, x, cache, fetched, Undelivered)
    BY <2>1, NoneNotCmd DEF Runs, New, Then
  <2> QED BY <1>1, <2>2, CopyStep DEF PollSelect, dashVars, fileVars, netVars, faultVars
<1>2. CASE PollStore
  <2>1. cache' = fetched /\ fetched' = None /\ Undelivered' = Undelivered
    BY <1>2 DEF PollStore, Undelivered, rowVars
  <2>2. ASSUME NEW c \in Cmds, NEW p, NEW x
        PROVE  Runs(c, p, x, cache', fetched', Undelivered')
                 <= Runs(c, p, x, cache, fetched, Undelivered)
    BY <2>1, NoneNotCmd DEF Runs, New, Then
  <2> QED BY <1>2, <2>2, CopyStep DEF PollStore, dashVars, fileVars, netVars, faultVars
<1> QED BY <1>1, <1>2

LEMMA ChainAckWorker == ASSUME RInv, TypeOK', AckWorker PROVE ChainInv'
<1>1. ASSUME NEW d \in Cmds, ApplyAck(d) PROVE ChainInv'
  <2>1. /\ cache' = cache /\ fetched' = fetched
        /\ Undelivered' = Undelivered \/ Undelivered' = None
    BY <1>1 DEF ApplyAck, Undelivered, pollVars
  <2>2. ASSUME NEW c \in Cmds, NEW p, NEW x
        PROVE  Runs(c, p, x, cache', fetched', Undelivered')
                 <= Runs(c, p, x, cache, fetched, Undelivered)
    BY <2>1, NoneNotCmd DEF Runs, New, Then
  <2> QED BY <1>1, <2>2, CopyStep DEF ApplyAck, dashVars, fileVars, netVars, faultVars
<1>2. ASSUME NEW d \in Cmds, LoseAck(d) PROVE ChainInv'
  <2>1. \A c \in Cmds : Served(c)' = Served(c)
    BY <1>2 DEF LoseAck, Served, dashVars, fileVars
  <2> QED BY <1>2, <2>1, QuietStep DEF LoseAck, rowVars, pollVars, netVars, faultVars
<1> QED BY <1>1, <1>2 DEF AckWorker

(* Threads and memory are gone; a handled file may be left for another round. *)
LEMMA ChainServerRestart == ASSUME RInv, TypeOK', ServerRestart PROVE ChainInv'
<1>1. /\ UNCHANGED <<clientVars, unsaved, rsps, row, acked, files, issued>>
      /\ cache' = None /\ fetched' = None /\ handling' = None
  BY DEF ServerRestart, rowVars, netVars, dashVars
<1>2. \A c \in Cmds : Served(c) + stays[c] <= Served(c)' + stays'[c]
  BY <1>1 DEF ServerRestart, FileStays, Served, RInv, TypeOK, MaybeCmd
<1>3. Undelivered' = Undelivered
  BY <1>1 DEF Undelivered
<1>4. ASSUME NEW c \in Cmds, NEW p, NEW x
      PROVE  Runs(c, p, x, cache', fetched', Undelivered') + Served(c) + stays[c]
               <= Runs(c, p, x, cache, fetched, Undelivered) + Served(c)' + stays'[c]
  <2>1. Runs(c, p, x, cache', fetched', Undelivered')
          <= Runs(c, p, x, cache, fetched, Undelivered)
    BY <1>1, <1>3, NoneNotCmd DEF Runs, New, Then
  <2>2. /\ Runs(c, p, x, cache, fetched, Undelivered) \in Nat
        /\ Runs(c, p, x, cache', fetched', Undelivered') \in Nat
        /\ stays[c] \in Nat /\ stays'[c] \in Nat /\ Served(c) \in Nat /\ Served(c)' \in Nat
    BY NoneNotCmd DEF Runs, New, Served, RInv, TypeOK
  <2>3. Served(c) + stays[c] <= Served(c)' + stays'[c]
    BY <1>2
  <2> QED BY <2>1, <2>2, <2>3
<1> QED BY <1>1, <1>4, ServerStep

(* The answer carries the cached command, which is on the chain anyway. *)
LEMMA ChainHotPath == ASSUME RInv, TypeOK', HotPath PROVE ChainInv'
<1> PICK m \in reqs : AnswerRequest(m)
  BY DEF HotPath
<1> SUFFICES ASSUME NEW c \in Cmds, NEW x \in Readable'
             PROVE  Paid(c, last, x)' /\ Paid(c, lastDisk, x)'
  BY DEF ChainInv
<1>1. x \in Readable \/ x = cache
  BY DEF AnswerRequest, Readable, clientVars
<1>2. None \in Readable
  BY DEF Readable
<1>3. ASSUME NEW p, Paid(c, p, x) \/ (x = cache /\ Paid(c, p, None))
      PROVE  Paid(c, p, x)
  <2>1. Ahead(c, p, cache) <= Ahead(c, p, None)
    BY NoneNotCmd DEF Ahead, Runs, New, Then
  <2>2. /\ Ahead(c, p, cache) \in Nat /\ Ahead(c, p, None) \in Nat
        /\ execs[c] \in Nat /\ stays[c] \in Nat /\ unsaved[c] \in Nat
        /\ Executing(c) \in Nat /\ Served(c) \in Nat
    BY NoneNotCmd DEF Ahead, Runs, New, Executing, Served, RInv, TypeOK
  <2> QED BY <1>3, <2>1, <2>2 DEF Paid
<1>4. Paid(c, last, x) /\ Paid(c, lastDisk, x)
  BY <1>1, <1>2, <1>3 DEF RInv, ChainInv
<1>5. UNCHANGED <<execs, cpc, got, last, lastDisk, cache, fetched, row, acked, issued, files,
                  handling, stays, unsaved>>
  BY DEF AnswerRequest, clientVars, pollVars, rowVars, dashVars, fileVars, faultVars
<1> QED BY <1>4, <1>5 DEF Paid, Ahead, Undelivered, Executing, Served

ServerFrame == <<cache, fetched, row, acked, issued, files, handling, stays>>

(* A step of the client that reads nothing new, and executes nothing. *)
LEMMA IdleStep ==
  ASSUME RInv, TypeOK', UNCHANGED <<ServerFrame, execs, unsaved>>,
         Readable' \subseteq Readable,
         last' \in {last, lastDisk}, lastDisk' = lastDisk,
         \A c \in Cmds : Executing(c)' <= Executing(c)
  PROVE  ChainInv'
<1> SUFFICES ASSUME NEW c \in Cmds, NEW x \in Readable'
             PROVE  Paid(c, last, x)' /\ Paid(c, lastDisk, x)'
  BY DEF ChainInv
<1>1. Paid(c, last, x) /\ Paid(c, lastDisk, x)
  BY DEF RInv, ChainInv
<1>2. ASSUME NEW p, Paid(c, p, x)
      PROVE  execs'[c] + Executing(c)' + Runs(c, p, x, cache', fetched', Undelivered')
               <= Served(c)' + stays'[c] + unsaved'[c]
  <2>1. /\ execs' = execs /\ stays' = stays /\ unsaved' = unsaved /\ Served(c)' = Served(c)
        /\ Runs(c, p, x, cache', fetched', Undelivered') = Ahead(c, p, x)
    BY DEF ServerFrame, Served, Undelivered, Ahead
  <2>2. /\ Ahead(c, p, x) \in Nat /\ execs[c] \in Nat /\ stays[c] \in Nat
        /\ unsaved[c] \in Nat /\ Served(c) \in Nat
    BY NoneNotCmd DEF Ahead, Runs, New, Served, RInv, TypeOK
  <2>3. Executing(c) \in Nat /\ Executing(c)' \in Nat /\ Executing(c)' <= Executing(c)
    BY DEF Executing
  <2> QED BY <1>2, <2>1, <2>2, <2>3 DEF Paid
<1>3. Paid(c, last, x)'
  BY <1>1, <1>2 DEF Paid, Ahead
<1>4. Paid(c, lastDisk, x)'
  BY <1>1, <1>2 DEF Paid, Ahead
<1> QED BY <1>3, <1>4

(* Taking a command: what it costs has been counted where the chain changes *)
(* to it; a save that fails pays for one more execution after a restart.    *)
LEMMA ChainTakeCommand == ASSUME RInv, TypeOK', TakeCommand PROVE ChainInv'
<1>1. /\ UNCHANGED <<ServerFrame, execs>>
      /\ cpc = "take" /\ cpc' = "exec" /\ got' = got /\ last' = got
  BY DEF TakeCommand, ServerFrame, dashVars, fileVars, rowVars, pollVars
<1>2. got \in Cmds /\ got # None /\ got # last
  BY <1>1 DEF RInv, GotInv, TypeOK, MaybeCmd
<1>3. Readable' = {None} /\ got \in Readable /\ None \in Readable
  BY <1>1 DEF Readable
<1> SUFFICES ASSUME NEW c \in Cmds
             PROVE  Paid(c, last, None)' /\ Paid(c, lastDisk, None)'
  BY <1>3 DEF ChainInv
<1>4. /\ execs[c] \in Nat /\ stays[c] \in Nat /\ unsaved[c] \in Nat /\ unsaved'[c] \in Nat
      /\ Served(c) \in Nat /\ Executing(c) = 0
  BY <1>1 DEF RInv, TypeOK, Served, Executing
<1>5. \A p, x : Ahead(c, p, x) \in Nat
  BY NoneNotCmd DEF Ahead, Runs, New
<1>6. ASSUME NEW p
      PROVE  /\ Runs(c, p, None, cache', fetched', Undelivered') = Ahead(c, p, None)
             /\ execs' = execs /\ stays' = stays /\ Served(c)' = Served(c)
  BY <1>1 DEF ServerFrame, Served, Undelivered, Ahead
<1>7. Executing(c)' = IF c = got THEN 1 ELSE 0
  BY <1>1 DEF Executing
<1>8. execs[c] + Executing(c)' + Ahead(c, got, None) <= Served(c) + stays[c] + unsaved[c]
  <2>1. Paid(c, last, got)
    BY <1>3 DEF RInv, ChainInv
  <2>2. Ahead(c, got, None) + (IF c = got THEN 1 ELSE 0) = Ahead(c, last, got)
    BY <1>2, NoneNotCmd DEF Ahead, Runs, New, Then
  <2> QED BY <1>4, <1>5, <1>7, <2>1, <2>2 DEF Paid
<1>9. unsaved'[c] >= unsaved[c]
  BY DEF TakeCommand, SaveFails, RInv, TypeOK
<1>10. Paid(c, last, None)'
  <2>1. execs[c] + Executing(c)' + Ahead(c, got, None) <= Served(c) + stays[c] + unsaved'[c]
    BY <1>4, <1>5, <1>7, <1>8, <1>9
  <2> QED BY <1>1, <1>6, <2>1 DEF Paid, Ahead
<1>11. CASE lastDisk' = got
  BY <1>1, <1>10, <1>11 DEF Paid, Ahead
<1>12. CASE SaveFails(got)
  <2>1. lastDisk' = lastDisk /\ (c = got => unsaved'[c] = unsaved[c] + 1)
    BY <1>2, <1>12 DEF SaveFails, RInv, TypeOK
  <2>2. Paid(c, lastDisk, None)
    BY <1>3 DEF RInv, ChainInv
  <2>3. execs[c] + Executing(c)' + Ahead(c, lastDisk, None)
          <= Served(c) + stays[c] + unsaved'[c]
    BY <1>4, <1>5, <1>7, <1>9, <2>1, <2>2 DEF Paid
  <2>4. /\ Runs(c, lastDisk, None, cache', fetched', Undelivered') = Ahead(c, lastDisk, None)
        /\ execs' = execs /\ stays' = stays /\ Served(c)' = Served(c)
    BY <1>6
  <2>5. Ahead(c, lastDisk, None)' = Ahead(c, lastDisk, None)
    BY <2>1, <2>4 DEF Ahead
  <2>6. execs[c]' + Executing(c)' + Ahead(c, lastDisk, None)'
          <= Served(c)' + stays[c]' + unsaved[c]'
    BY <2>3, <2>4, <2>5
  <2> QED BY <2>1, <2>6, <1>10 DEF Paid
<1> QED BY <1>10, <1>11, <1>12 DEF TakeCommand

LEMMA ChainClient == ASSUME RInv, TypeOK', Client \/ ClientRestart PROVE ChainInv'
<1> USE DEF ServerFrame, dashVars, fileVars, rowVars, pollVars, faultVars
<1>1. CASE SendRequest
  <2>1. Readable' \subseteq Readable /\ \A c \in Cmds : Executing(c)' <= Executing(c)
    BY <1>1 DEF SendRequest, MatchingAnswers, Readable, Executing
  <2> QED BY <1>1, <2>1, IdleStep DEF SendRequest
<1>2. ASSUME NEW d \in rsps, ReceiveResponse(d) PROVE ChainInv'
  <2>1. Readable' \subseteq Readable /\ \A c \in Cmds : Executing(c)' <= Executing(c)
    BY <1>2 DEF ReceiveResponse, Readable, Executing
  <2> QED BY <1>2, <2>1, IdleStep DEF ReceiveResponse
<1>3. CASE Timeout
  <2>1. Readable' \subseteq Readable /\ \A c \in Cmds : Executing(c)' <= Executing(c)
    BY <1>3 DEF Timeout, Readable, Executing
  <2> QED BY <1>3, <2>1, IdleStep DEF Timeout
<1>4. CASE ExecuteFails
  <2>1. Readable' \subseteq Readable /\ \A c \in Cmds : Executing(c)' <= Executing(c)
    BY <1>4 DEF ExecuteFails, Readable, Executing
  <2> QED BY <1>4, <2>1, IdleStep DEF ExecuteFails
<1>5. CASE ClientRestart
  <2>1. Readable' \subseteq Readable /\ \A c \in Cmds : Executing(c)' <= Executing(c)
    BY <1>5 DEF ClientRestart, Readable, Executing
  <2> QED BY <1>5, <2>1, IdleStep DEF ClientRestart
<1>6. CASE ExecuteCommand
  <2> SUFFICES ASSUME NEW c \in Cmds, NEW x \in Readable'
               PROVE  Paid(c, last, x)' /\ Paid(c, lastDisk, x)'
    BY DEF ChainInv
  <2>1. x \in Readable
    BY <1>6 DEF ExecuteCommand, Readable
  <2>2. Paid(c, last, x) /\ Paid(c, lastDisk, x)
    BY <2>1 DEF RInv, ChainInv
  <2>3. execs'[c] + Executing(c)' = execs[c] + Executing(c)
    BY <1>6 DEF ExecuteCommand, Executing, RInv, TypeOK, GotInv, MaybeCmd
  <2>4. UNCHANGED <<last, lastDisk, unsaved, Served(c), Undelivered>>
    BY <1>6 DEF ExecuteCommand, Served, Undelivered
  <2> QED BY <1>6, <2>2, <2>3, <2>4 DEF ExecuteCommand, Paid, Ahead
<1> QED BY <1>1, <1>2, <1>3, <1>4, <1>5, <1>6, ChainTakeCommand DEF Client

LEMMA StepRInv == ASSUME RInv, [Next]_vars PROVE RInv'
<1>1. TypeOK' /\ FilesInv' /\ GotInv'
  BY StepTypeOK, StepFilesInv, StepGotInv
<1>2. CASE UNCHANGED vars
  <2>1. \A c \in Cmds : Served(c)' = Served(c)
    BY <1>2 DEF vars, Served, dashVars, fileVars
  <2>2. ChainInv'
    BY <1>1, <1>2, <2>1, QuietStep DEF vars, rowVars, pollVars, netVars, faultVars
  <2> QED BY <1>1, <2>2 DEF RInv
<1>3. CASE Next
  <2>1. ChainInv'
    BY <1>1, <1>3, ChainDashboard, ChainFileWorker, ChainPoll, ChainHotPath,
       ChainAckWorker, ChainServerRestart, ChainClient DEF Next
  <2> QED BY <1>1, <2>1 DEF RInv
<1> QED BY <1>2, <1>3

(* Whatever fails, each command is paid for along the chain. *)
THEOREM RepeatInvariance == Spec => []RInv
<1>1. RInv /\ [Next]_vars => RInv'
  BY StepRInv
<1> QED BY <1>1, InitRInv, PTL DEF Spec

(* Every variable of the channel keeps its type, whatever fails. *)
THEOREM TypeCorrect == Spec => []TypeOK
<1>1. RInv => TypeOK
  BY DEF RInv
<1> QED BY <1>1, RepeatInvariance, PTL

LEMMA RInvOnce == RInv => OncePerFault
<1> SUFFICES ASSUME RInv, NEW c \in Cmds
             PROVE  execs[c] <= 1 + stays[c] + unsaved[c]
  BY DEF OncePerFault
<1>1. Paid(c, last, None)
  BY DEF RInv, ChainInv, Readable
<1>2. /\ Ahead(c, last, None) \in Nat /\ Executing(c) \in Nat /\ Served(c) \in {0, 1}
      /\ execs[c] \in Nat /\ stays[c] \in Nat /\ unsaved[c] \in Nat
  BY NoneNotCmd DEF Ahead, Runs, New, Executing, Served, RInv, TypeOK
<1> QED BY <1>1, <1>2 DEF Paid

(* A command is executed again only for a file of its that stayed after it  *)
(* had been handled or a save of its id that failed, each paying for one    *)
(* execution: whatever the link does, whoever restarts, and however often.  *)
THEOREM ExecutedOncePerFault == Spec => []OncePerFault
  BY RInvOnce, RepeatInvariance, PTL

-----------------------------------------------------------------------------
(* Part 2: what holds until the first fault.                                *)

(* The file of a command not yet handled has not been registered. *)
FileInv ==
    /\ files \subseteq issued
    /\ listing \subseteq files
    /\ \A c \in Cmds : c \notin issued => pos[c] = 0
    /\ \A c \in files : c # handling => pos[c] = 0

(* Registration numbers are distinct and the row holds the latest. *)
OrderInv ==
    /\ \A c \in Cmds : pos[c] <= nreg
    /\ \A c, d \in Cmds : pos[c] = pos[d] /\ pos[c] > 0 => c = d
    /\ row # None => pos[row] = nreg /\ nreg > 0
    /\ row = None => nreg = 0 /\ ~acked

(* A registered command that neither the cache nor the rows the poller      *)
(* holds lag behind.                                                        *)
Seen(c) ==
    /\ pos[c] > 0
    /\ cache # None => pos[c] <= pos[cache]
    /\ fetched # None => pos[c] <= pos[fetched]

(* Copies of the row only move forward: cache, then fetched, then row. *)
CopyInv ==
    /\ cache # None => Seen(cache)
    /\ fetched # None => pos[fetched] > 0
    /\ last # None => Seen(last)

(* What the gateway can still take is not older than what it took. *)
DeliveryInv ==
    /\ cpc = "wait" => \A c \in rsps : c # None =>
                           Seen(c) /\ pos[c] >= Place(last)
    /\ cpc = "take" => got # None /\ Seen(got) /\ pos[got] > Place(last)

(* last_cmd_id is the latest command taken, in memory and on disk.          *)
ClientInv ==
    /\ lastDisk = last
    /\ last # None => last \in taken
    /\ \A c \in taken : 0 < pos[c] /\ pos[c] <= Place(last)

(* Whatever is acknowledged anywhere has been taken. *)
AckInv ==
    /\ \A m \in reqs : m.ack # None => m.ack \in taken
    /\ ackq \subseteq taken
    /\ acked => row \in taken

ResetInv == \A r, m \in Cmds : LastResetBefore(r, m) => r \in taken

(* What holds until the first fault. *)
IInv ==
    /\ FileInv
    /\ OrderInv
    /\ CopyInv
    /\ DeliveryInv
    /\ ClientInv
    /\ AckInv
    /\ ResetInv
-----------------------------------------------------------------------------
LEMMA InitIInv == Init => IInv
<1> SUFFICES ASSUME Init PROVE IInv
  OBVIOUS
<1>2. FileInv /\ OrderInv /\ AckInv
  BY DEF Init, FileInv, OrderInv, AckInv
<1>3. CopyInv /\ DeliveryInv
  BY DEF Init, CopyInv, DeliveryInv
<1>4. ClientInv
  BY DEF Init, ClientInv
<1>5. ResetInv
  BY DEF Init, ResetInv, LastResetBefore
<1> QED BY <1>2, <1>3, <1>4, <1>5 DEF IInv

LEMMA StepRequestReset ==
  ASSUME TypeOK, IInv, Faultless', NEW c \in Cmds, RequestReset(c)
  PROVE  IInv'
<1>2. FileInv'
  BY DEF IInv, RequestReset, QueueCommand, FileInv, dashVars, fileVars, rowVars
<1>3. OrderInv' /\ CopyInv' /\ DeliveryInv' /\ ClientInv' /\ AckInv' /\
    ResetInv'
  BY DEF IInv, RequestReset, QueueCommand, OrderInv, CopyInv, Seen,
      DeliveryInv, Place, ClientInv, AckInv, ResetInv, LastResetBefore,
      rowVars, pollVars, netVars, clientVars
<1> QED BY <1>2, <1>3 DEF IInv

LEMMA StepRequestMeasure ==
  ASSUME TypeOK, IInv, Faultless', NEW c \in Cmds, RequestMeasure(c)
  PROVE  IInv'
<1>2. FileInv'
  BY DEF IInv, RequestMeasure, QueueCommand, FileInv, dashVars, fileVars,
      rowVars
<1>3. OrderInv' /\ CopyInv' /\ DeliveryInv' /\ ClientInv' /\ AckInv' /\
    ResetInv'
  BY DEF IInv, RequestMeasure, QueueCommand, OrderInv, CopyInv, Seen,
      DeliveryInv, Place, ClientInv, AckInv, ResetInv, LastResetBefore,
      rowVars, pollVars, netVars, clientVars
<1> QED BY <1>2, <1>3 DEF IInv

LEMMA StepExportSnapshot ==
  ASSUME TypeOK, IInv, Faultless', ExportSnapshot
  PROVE  IInv'
<1>2. FileInv' /\ OrderInv' /\ CopyInv' /\ DeliveryInv' /\ ClientInv' /\
    AckInv' /\ ResetInv'
  BY DEF IInv, ExportSnapshot, FileInv, OrderInv, CopyInv, Seen, DeliveryInv,
      Place, ClientInv, AckInv, ResetInv, LastResetBefore, dashVars,
      fileVars, rowVars, pollVars, netVars, clientVars
<1> QED BY <1>2 DEF IInv

LEMMA StepListFiles ==
  ASSUME TypeOK, IInv, Faultless', ListFiles
  PROVE  IInv'
<1>2. FileInv'
  BY DEF IInv, ListFiles, FileInv, dashVars, fileVars, rowVars
<1>3. OrderInv' /\ CopyInv' /\ DeliveryInv' /\ ClientInv' /\ AckInv' /\
    ResetInv'
  BY DEF IInv, ListFiles, OrderInv, CopyInv, Seen, DeliveryInv, Place,
      ClientInv, AckInv, ResetInv, LastResetBefore, rowVars, pollVars,
      netVars, clientVars
<1> QED BY <1>2, <1>3 DEF IInv

LEMMA StepHandleFile ==
  ASSUME TypeOK, IInv, Faultless', NEW c \in Cmds, HandleFile(c)
  PROVE  IInv'
<1>1. c \in files /\ c \in issued /\ pos[c] = 0 /\ handling = None
  BY NoneAssumption DEF IInv, FileInv, HandleFile, NextFile
<1>2. CASE UNCHANGED rowVars
  <2>3. FileInv'
    BY <1>1, <1>2, NoneAssumption DEF IInv, HandleFile, TypeOK, FileInv, dashVars, rowVars
  <2>2. OrderInv' /\ CopyInv' /\ DeliveryInv' /\ ClientInv' /\ AckInv' /\ ResetInv'
    BY <1>2 DEF IInv, HandleFile, OrderInv, CopyInv, Seen, DeliveryInv, Place,
       ClientInv, AckInv, ResetInv, LastResetBefore, rowVars, pollVars,
       netVars, clientVars
  <2> QED BY <2>2, <2>3 DEF IInv
<1>3. CASE ~Refuses(c) /\ Register(c)
  <2>1. /\ pos'[c] = nreg + 1 /\ nreg' = nreg + 1 /\ row' = c /\ ~acked'
        /\ \A d \in Cmds : d # c => pos'[d] = pos[d]
    BY <1>3 DEF IInv, TypeOK, Register
  <2>3. FileInv'
    BY <1>1, <2>1, NoneAssumption DEF IInv, HandleFile, TypeOK, FileInv, dashVars
  <2>4. OrderInv'
    BY <1>1, <2>1, NoneAssumption DEF IInv, TypeOK, OrderInv
  <2>5. \A d \in Cmds : pos[d] > 0 => pos'[d] = pos[d]
    BY <1>1, <2>1
  <2>6. CopyInv'
    BY <1>1, <2>5 DEF IInv, HandleFile, TypeOK, MaybeCmd, CopyInv, Seen, pollVars,
       clientVars
  <2>7. DeliveryInv'
    <3>1. Place(last)' = Place(last)
      BY <2>5 DEF IInv, HandleFile, TypeOK, MaybeCmd, CopyInv, Seen, Place, clientVars
    <3>2. ASSUME NEW d \in Cmds, Seen(d) PROVE Seen(d)' /\ pos'[d] = pos[d]
      BY <2>5, <3>2 DEF IInv, HandleFile, TypeOK, MaybeCmd, CopyInv, Seen, pollVars
    <3> QED BY <3>1, <3>2 DEF IInv, HandleFile, TypeOK, MaybeCmd,
               DeliveryInv, netVars, clientVars
  <2>8. ClientInv'
    <3>1. Place(last)' = Place(last)
      BY <2>5 DEF IInv, HandleFile, TypeOK, MaybeCmd, CopyInv, Seen, Place, clientVars
    <3>2. \A d \in taken : pos'[d] = pos[d]
      BY <2>5 DEF IInv, TypeOK, ClientInv
    <3> QED BY <3>1, <3>2 DEF IInv, HandleFile, ClientInv, clientVars
  <2>9. AckInv'
    BY <2>1 DEF IInv, HandleFile, AckInv, netVars, clientVars
  <2>10. ResetInv'
    <3> SUFFICES ASSUME NEW r \in Cmds, NEW m \in Cmds, LastResetBefore(r, m)'
                 PROVE  r \in taken
      BY DEF ResetInv, HandleFile, clientVars
    <3>1. r # m /\ r # c
      BY <2>1 DEF IInv, TypeOK, OrderInv, LastResetBefore
    <3>2. CASE m # c
      <4>1. LastResetBefore(r, m)
        BY <1>1, <2>1, <3>1, <3>2 DEF IInv, TypeOK, LastResetBefore
      <4> QED BY <4>1 DEF IInv, ResetInv
    <3>3. CASE m = c
      <4>1. row # None /\ row # c /\ row \in Cmds /\ pos[row] = nreg /\ pos[r] <= nreg
            /\ pos[r] > 0
        BY <1>1, <2>1, <3>1, <3>3 DEF IInv, TypeOK, MaybeCmd, OrderInv, LastResetBefore
      <4>2. CASE row = r
        BY <1>3, <3>3, <4>1, <4>2 DEF IInv, AckInv, Refuses, ResetPending, LastResetBefore
      <4>3. CASE row # r
        <5>1. pos[r] < pos[row]
          BY <4>1, <4>3 DEF IInv, TypeOK, OrderInv
        <5>2. pos'[row] = pos[row] /\ pos'[r] = pos[r] /\ pos'[row] < pos'[c]
          BY <2>1, <3>1, <4>1 DEF IInv, TypeOK
        <5>3. Kind[row] # "reset"
          BY <3>3, <4>1, <5>1, <5>2 DEF LastResetBefore
        <5>4. LastResetBefore(r, row)
          BY <1>1, <2>1, <3>1, <3>3, <4>1, <5>1, <5>2, <5>3
          DEF IInv, TypeOK, LastResetBefore
        <5> QED BY <4>1, <5>4 DEF IInv, ResetInv
      <4> QED BY <4>2, <4>3
    <3> QED BY <3>2, <3>3
  <2> QED BY <2>3, <2>4, <2>6, <2>7, <2>8, <2>9, <2>10 DEF IInv
<1> QED BY <1>2, <1>3 DEF HandleFile

LEMMA StepHandlerFails ==
  ASSUME TypeOK, IInv, Faultless', NEW c \in Cmds, HandlerFails(c)
  PROVE  IInv'
<1>2. FileInv'
  BY NoneAssumption DEF IInv, HandlerFails, NextFile, FileInv, dashVars,
      fileVars, rowVars, TypeOK, MaybeCmd
<1>3. OrderInv' /\ CopyInv' /\ DeliveryInv' /\ ClientInv' /\ AckInv' /\
    ResetInv'
  BY DEF IInv, HandlerFails, NextFile, OrderInv, CopyInv, Seen, DeliveryInv,
      Place, ClientInv, AckInv, ResetInv, LastResetBefore, rowVars,
      pollVars, netVars, clientVars
<1> QED BY <1>2, <1>3 DEF IInv

LEMMA StepRemoveFile ==
  ASSUME TypeOK, IInv, Faultless', RemoveFile
  PROVE  IInv'
<1>2. FileInv'
  BY DEF IInv, RemoveFile, FileInv, dashVars, rowVars
<1>3. OrderInv' /\ CopyInv' /\ DeliveryInv' /\ ClientInv' /\ AckInv' /\
    ResetInv'
  BY DEF IInv, RemoveFile, OrderInv, CopyInv, Seen, DeliveryInv, Place,
      ClientInv, AckInv, ResetInv, LastResetBefore, rowVars, pollVars,
      netVars, clientVars
<1> QED BY <1>2, <1>3 DEF IInv

(* A file that stays, or a save that fails, is a fault. *)
LEMMA FaultSteps ==
  ASSUME TypeOK, Faultless', NEW c \in Cmds
  PROVE  ~FileStays(c) /\ ~SaveFails(c)
  BY BoundAssumption DEF TypeOK, Faultless, FileStays, SaveFails

LEMMA StepPollSelect ==
  ASSUME TypeOK, IInv, Faultless', PollSelect
  PROVE  IInv'
<1>2. CopyInv'
  BY DEF IInv, PollSelect, CopyInv, Seen, rowVars, pollVars, clientVars,
      OrderInv, TypeOK, MaybeCmd
<1>3. DeliveryInv'
  BY DEF IInv, PollSelect, DeliveryInv, Seen, Place, rowVars, pollVars,
      netVars, clientVars, OrderInv, TypeOK, MaybeCmd
<1>4. FileInv' /\ OrderInv' /\ ClientInv' /\ AckInv' /\ ResetInv'
  BY DEF IInv, PollSelect, FileInv, OrderInv, ClientInv, Place, AckInv,
      ResetInv, LastResetBefore, dashVars, fileVars, rowVars, netVars,
      clientVars
<1> QED BY <1>2, <1>3, <1>4 DEF IInv

LEMMA StepPollStore ==
  ASSUME TypeOK, IInv, Faultless', PollStore
  PROVE  IInv'
<1>2. CopyInv'
  BY DEF IInv, PollStore, CopyInv, Seen, rowVars, clientVars, TypeOK, MaybeCmd
<1>3. DeliveryInv'
  BY DEF IInv, PollStore, DeliveryInv, Seen, Place, rowVars, netVars,
      clientVars, TypeOK, MaybeCmd
<1>4. FileInv' /\ OrderInv' /\ ClientInv' /\ AckInv' /\ ResetInv'
  BY DEF IInv, PollStore, FileInv, OrderInv, ClientInv, Place, AckInv,
      ResetInv, LastResetBefore, dashVars, fileVars, rowVars, netVars,
      clientVars
<1> QED BY <1>2, <1>3, <1>4 DEF IInv

LEMMA StepAnswerRequest ==
  ASSUME TypeOK, IInv, Faultless', NEW m \in reqs, AnswerRequest(m)
  PROVE  IInv'
<1>2. DeliveryInv'
  BY DEF IInv, AnswerRequest, Acks, DeliveryInv, Seen, Place, rowVars,
      pollVars, netVars, clientVars, CopyInv, TypeOK, MaybeCmd,
      ReqMsgs
<1>3. AckInv'
  BY DEF IInv, AnswerRequest, Acks, AckInv, rowVars, netVars, clientVars
<1>4. FileInv' /\ OrderInv' /\ CopyInv' /\ ClientInv' /\ ResetInv'
  BY DEF IInv, AnswerRequest, FileInv, OrderInv, CopyInv, Seen, ClientInv,
      Place, ResetInv, LastResetBefore, dashVars, fileVars, rowVars,
      pollVars, clientVars
<1> QED BY <1>2, <1>3, <1>4 DEF IInv

LEMMA StepApplyAck ==
  ASSUME TypeOK, IInv, Faultless', NEW c \in Cmds, ApplyAck(c)
  PROVE  IInv'
<1>2. OrderInv'
  BY NoneAssumption DEF IInv, ApplyAck, Marks, OrderInv, rowVars
<1>3. AckInv'
  BY DEF IInv, ApplyAck, Marks, AckInv, rowVars, netVars, clientVars
<1>4. FileInv' /\ CopyInv' /\ DeliveryInv' /\ ClientInv' /\ ResetInv'
  BY DEF IInv, ApplyAck, FileInv, CopyInv, Seen, DeliveryInv, Place, ClientInv,
      ResetInv, LastResetBefore, dashVars, fileVars, rowVars, pollVars,
      netVars, clientVars
<1> QED BY <1>2, <1>3, <1>4 DEF IInv

LEMMA StepLoseAck ==
  ASSUME TypeOK, IInv, Faultless', NEW c \in Cmds, LoseAck(c)
  PROVE  IInv'
<1>2. AckInv'
  BY DEF IInv, LoseAck, AckInv, rowVars, netVars, clientVars
<1>3. FileInv' /\ OrderInv' /\ CopyInv' /\ DeliveryInv' /\ ClientInv' /\
    ResetInv'
  BY DEF IInv, LoseAck, FileInv, OrderInv, CopyInv, Seen, DeliveryInv, Place,
      ClientInv, ResetInv, LastResetBefore, dashVars, fileVars, rowVars,
      pollVars, netVars, clientVars
<1> QED BY <1>2, <1>3 DEF IInv

LEMMA StepServerRestart ==
  ASSUME TypeOK, IInv, Faultless', ServerRestart
  PROVE  IInv'
<1>2. FileInv'
  <2>1. handling = None
    BY FaultSteps DEF ServerRestart, TypeOK, MaybeCmd
  <2> QED BY <2>1 DEF IInv, ServerRestart, FileInv, dashVars, fileVars, rowVars
<1>3. CopyInv'
  BY DEF IInv, ServerRestart, CopyInv, Seen, rowVars, clientVars
<1>4. DeliveryInv'
  BY DEF IInv, ServerRestart, DeliveryInv, Seen, Place, rowVars, netVars,
      clientVars
<1>5. AckInv'
  BY DEF IInv, ServerRestart, AckInv, rowVars, netVars, clientVars
<1>6. OrderInv' /\ ClientInv' /\ ResetInv'
  BY DEF IInv, ServerRestart, OrderInv, ClientInv, Place, ResetInv,
      LastResetBefore, rowVars, clientVars
<1> QED BY <1>2, <1>3, <1>4, <1>5, <1>6 DEF IInv

LEMMA StepSendRequest ==
  ASSUME TypeOK, IInv, Faultless', SendRequest
  PROVE  IInv'
<1>2. DeliveryInv'
  BY DEF SendRequest, MatchingAnswers, DeliveryInv
<1>3. ClientInv'
  BY DEF IInv, SendRequest, AckId, ClientInv, Place, rowVars, clientVars
<1>4. AckInv'
  <2>1. ASSUME NEW m \in reqs', m.ack # None PROVE m.ack \in taken
    <3>1. CASE m = [cur |-> TRUE, ack |-> AckId]
      BY <2>1, <3>1 DEF IInv, AckId, ClientInv
    <3>2. CASE \E k \in reqs : m = [k EXCEPT !.cur = FALSE]
      BY <2>1, <3>2 DEF IInv, AckInv, TypeOK, ReqMsgs
    <3> QED BY <3>1, <3>2 DEF SendRequest
  <2> QED BY <2>1 DEF IInv, SendRequest, AckInv, rowVars
<1>5. FileInv' /\ OrderInv' /\ CopyInv' /\ ResetInv'
  BY DEF IInv, SendRequest, FileInv, OrderInv, CopyInv, Seen, ResetInv,
      LastResetBefore, dashVars, fileVars, rowVars, pollVars, clientVars
<1> QED BY <1>2, <1>3, <1>4, <1>5 DEF IInv

LEMMA StepReceiveResponse ==
  ASSUME TypeOK, IInv, Faultless', NEW c \in rsps, ReceiveResponse(c)
  PROVE  IInv'
<1>2. DeliveryInv'
  BY DEF IInv, ReceiveResponse, IsNewId, DeliveryInv, Seen, Place,
      rowVars, pollVars, netVars, clientVars, OrderInv, CopyInv, TypeOK,
      MaybeCmd
<1>3. ClientInv'
  BY DEF IInv, ReceiveResponse, IsNewId, ClientInv, Place, rowVars,
      clientVars
<1>4. FileInv' /\ OrderInv' /\ CopyInv' /\ AckInv' /\ ResetInv'
  BY DEF IInv, ReceiveResponse, FileInv, OrderInv, CopyInv, Seen, AckInv,
      ResetInv, LastResetBefore, dashVars, fileVars, rowVars, pollVars,
      netVars, clientVars
<1> QED BY <1>2, <1>3, <1>4 DEF IInv

LEMMA StepTimeout ==
  ASSUME TypeOK, IInv, Faultless', Timeout
  PROVE  IInv'
<1>2. DeliveryInv'
  BY DEF IInv, Timeout, DeliveryInv, Seen, Place, rowVars, pollVars, netVars,
      clientVars
<1>3. ClientInv'
  BY DEF IInv, Timeout, ClientInv, Place, rowVars, clientVars
<1>4. FileInv' /\ OrderInv' /\ CopyInv' /\ AckInv' /\ ResetInv'
  BY DEF IInv, Timeout, FileInv, OrderInv, CopyInv, Seen, AckInv, ResetInv,
      LastResetBefore, dashVars, fileVars, rowVars, pollVars, netVars,
      clientVars
<1> QED BY <1>2, <1>3, <1>4 DEF IInv

LEMMA StepTakeCommand ==
  ASSUME TypeOK, IInv, Faultless', TakeCommand
  PROVE  IInv'
<1>2. CopyInv'
  BY DEF IInv, TakeCommand, CopyInv, Seen, rowVars, pollVars, clientVars,
      DeliveryInv, TypeOK, MaybeCmd
<1>3. DeliveryInv'
  BY DEF IInv, TakeCommand, DeliveryInv, Seen, Place, rowVars, pollVars,
      netVars, clientVars
<1>4. ClientInv'
  <2>1. lastDisk' = got
    BY FaultSteps DEF IInv, TakeCommand, DeliveryInv, TypeOK, MaybeCmd
  <2> QED BY <2>1 DEF IInv, TakeCommand, ClientInv, Place, rowVars, clientVars,
             DeliveryInv, TypeOK, MaybeCmd
<1>5. AckInv'
  BY DEF IInv, TakeCommand, AckInv, rowVars, netVars, clientVars
<1>6. ResetInv'
  BY DEF IInv, TakeCommand, ResetInv, LastResetBefore, rowVars, clientVars
<1>7. FileInv' /\ OrderInv'
  BY DEF IInv, TakeCommand, FileInv, OrderInv, dashVars, fileVars, rowVars
<1> QED BY <1>2, <1>3, <1>4, <1>5, <1>6, <1>7 DEF IInv

LEMMA StepExecuteCommand ==
  ASSUME TypeOK, IInv, Faultless', ExecuteCommand
  PROVE  IInv'
<1>2. DeliveryInv'
  BY DEF IInv, ExecuteCommand, DeliveryInv, Seen, Place, rowVars, pollVars,
      netVars, clientVars
<1>3. ClientInv'
  BY DEF IInv, ExecuteCommand, ClientInv, Place, rowVars, clientVars
<1>4. FileInv' /\ OrderInv' /\ CopyInv' /\ AckInv' /\ ResetInv'
  BY DEF IInv, ExecuteCommand, FileInv, OrderInv, CopyInv, Seen, AckInv,
      ResetInv, LastResetBefore, dashVars, fileVars, rowVars, pollVars,
      netVars, clientVars
<1> QED BY <1>2, <1>3, <1>4 DEF IInv

LEMMA StepExecuteFails ==
  ASSUME TypeOK, IInv, Faultless', ExecuteFails
  PROVE  IInv'
<1>2. DeliveryInv'
  BY DEF IInv, ExecuteFails, DeliveryInv, Seen, Place, rowVars, pollVars,
      netVars, clientVars
<1>3. ClientInv'
  BY DEF IInv, ExecuteFails, ClientInv, Place, rowVars, clientVars
<1>4. FileInv' /\ OrderInv' /\ CopyInv' /\ AckInv' /\ ResetInv'
  BY DEF IInv, ExecuteFails, FileInv, OrderInv, CopyInv, Seen, AckInv,
      ResetInv, LastResetBefore, dashVars, fileVars, rowVars, pollVars,
      netVars, clientVars
<1> QED BY <1>2, <1>3, <1>4 DEF IInv

LEMMA StepClientRestart ==
  ASSUME TypeOK, IInv, Faultless', ClientRestart
  PROVE  IInv'
<1>2. CopyInv'
  BY DEF IInv, ClientRestart, CopyInv, Seen, rowVars, pollVars, clientVars,
      ClientInv
<1>3. DeliveryInv'
  BY DEF IInv, ClientRestart, DeliveryInv, Seen, Place, rowVars, pollVars,
      netVars, clientVars
<1>4. ClientInv'
  BY DEF IInv, ClientRestart, ClientInv, Place, rowVars, clientVars
<1>5. FileInv' /\ OrderInv' /\ AckInv' /\ ResetInv'
  BY DEF IInv, ClientRestart, FileInv, OrderInv, AckInv, ResetInv,
      LastResetBefore, dashVars, fileVars, rowVars, netVars, clientVars
<1> QED BY <1>2, <1>3, <1>4, <1>5 DEF IInv

-----------------------------------------------------------------------------
LEMMA StepIInv == ASSUME TypeOK, IInv, Faultless', [Next]_vars PROVE IInv'
<1>0. handling # None => ~FileStays(handling)
  BY FaultSteps DEF TypeOK, MaybeCmd
<1>1. CASE Dashboard
  BY <1>1, StepRequestReset, StepRequestMeasure DEF Dashboard
<1>2. CASE ExportSnapshot
  BY <1>2, StepExportSnapshot
<1>3. CASE FileWorker
  BY <1>0, <1>3, StepListFiles, StepHandleFile, StepHandlerFails, StepRemoveFile
  DEF FileWorker, RemoveFails
<1>4. CASE PollSelect \/ PollStore
  BY <1>4, StepPollSelect, StepPollStore
<1>5. CASE HotPath
  BY <1>5, StepAnswerRequest DEF HotPath
<1>6. CASE AckWorker
  BY <1>6, StepApplyAck, StepLoseAck DEF AckWorker
<1>7. CASE ServerRestart
  BY <1>7, StepServerRestart
<1>8. CASE Client
  BY <1>8, StepSendRequest, StepReceiveResponse, StepTimeout, StepTakeCommand,
     StepExecuteCommand, StepExecuteFails DEF Client
<1>9. CASE ClientRestart
  BY <1>9, StepClientRestart
<1>10. CASE UNCHANGED vars
  BY <1>10 DEF IInv, vars, dashVars, fileVars, rowVars, pollVars, netVars, clientVars,
     FileInv, OrderInv, CopyInv, DeliveryInv, ClientInv, AckInv, ResetInv,
     LastResetBefore, Seen, Place
<1> QED BY <1>1, <1>2, <1>3, <1>4, <1>5, <1>6, <1>7, <1>8, <1>9, <1>10 DEF Next

(* Faults are never taken back. *)
LEMMA FaultsStay == ASSUME TypeOK, [Next]_vars, Faultless' PROVE Faultless
<1> SUFFICES faults' >= faults
  BY BoundAssumption DEF TypeOK, Faultless
<1>1. CASE UNCHANGED faultVars
  BY <1>1, BoundAssumption DEF TypeOK, faultVars
<1>2. CASE RemoveFails \/ ServerRestart \/ TakeCommand \/ ClientRestart
  BY <1>2, BoundAssumption
  DEF TypeOK, RemoveFails, ServerRestart, FileStays, TakeCommand, SaveFails, ClientRestart
<1>3. (RemoveFails \/ ServerRestart \/ TakeCommand \/ ClientRestart) \/ UNCHANGED faultVars
  BY DEF Next, Dashboard, RequestReset, RequestMeasure, QueueCommand, ExportSnapshot,
     FileWorker, ListFiles, HandleFile, HandlerFails, RemoveFile, PollSelect, PollStore,
     HotPath, AnswerRequest, AckWorker, ApplyAck, LoseAck, Client, SendRequest,
     ReceiveResponse, Timeout, ExecuteCommand, ExecuteFails, vars
<1> QED BY <1>1, <1>2, <1>3

(* Until the first fault the inductive invariant holds of every behaviour. *)
THEOREM Invariance == Spec => [](Faultless => IInv)
<1>1. Init => (Faultless => IInv)
  BY InitIInv
<1>2. TypeOK /\ (Faultless => IInv) /\ [Next]_vars => (Faultless => IInv)'
  BY FaultsStay, StepIInv
<1> QED BY <1>1, <1>2, TypeCorrect, PTL DEF Spec

LEMMA IInvAcked == ASSUME TypeOK, Faultless => IInv PROVE AckedIsDurable
  BY DEF IInv, AckedIsDurable, TypeOK, MaybeCmd, OrderInv, ClientInv, AckInv, Place

(* The server stops delivering a command only when the gateway's file has   *)
(* reached it, until the first fault.                                       *)
THEOREM DurableAck == Spec => []AckedIsDurable
  BY IInvAcked, Invariance, TypeCorrect, PTL

(* An on/off command never pushes out a reset the gateway has not taken,    *)
(* until the first fault.                                                   *)
THEOREM ResetKept == Spec => []ResetNotLost
<1>1. (Faultless => IInv) => ResetNotLost
  BY DEF IInv, ResetInv, ResetNotLost
<1> QED BY <1>1, Invariance, PTL

-----------------------------------------------------------------------------
LEMMA OtherSteps ==
  ASSUME [Next]_vars,
         ~TakeCommand, ~ClientRestart, \A c \in Cmds : ~HandleFile(c) /\ ~ApplyAck(c)
  PROVE  UNCHANGED <<row, acked, pos, nreg, last, lastDisk>>
<1>1. CASE Dashboard
  BY <1>1 DEF Dashboard, RequestReset, RequestMeasure, QueueCommand, rowVars, clientVars
<1>2. CASE FileWorker
  BY <1>2 DEF FileWorker, ListFiles, HandlerFails, RemoveFile, RemoveFails, rowVars, clientVars
<1>3. CASE ExportSnapshot \/ PollSelect \/ PollStore \/ ServerRestart
  BY <1>3 DEF ExportSnapshot, PollSelect, PollStore, ServerRestart, rowVars, clientVars
<1>4. CASE HotPath
  BY <1>4 DEF HotPath, AnswerRequest, rowVars, clientVars
<1>5. CASE AckWorker
  BY <1>5 DEF AckWorker, LoseAck, rowVars, clientVars
<1>6. CASE Client
  BY <1>6 DEF Client, SendRequest, ReceiveResponse, Timeout, ExecuteCommand,
              ExecuteFails, rowVars
<1>7. CASE UNCHANGED vars
  BY <1>7 DEF vars, rowVars, clientVars
<1> QED BY <1>1, <1>2, <1>3, <1>4, <1>5, <1>6, <1>7 DEF Next

LEMMA PlaceMonotone ==
  ASSUME TypeOK, IInv, Faultless', [Next]_vars
  PROVE  Place(last') >= Place(last)
<1>0. Place(last) \in Nat
  BY DEF IInv, TypeOK, MaybeCmd, Place
<1>1. CASE TakeCommand
  BY <1>0, <1>1 DEF IInv, TakeCommand, DeliveryInv, TypeOK, MaybeCmd, Place
<1>2. CASE ClientRestart
  BY <1>0, <1>2 DEF IInv, ClientRestart, ClientInv, Place
<1>3. CASE \E c \in Cmds : HandleFile(c) \/ ApplyAck(c)
  BY <1>0, <1>3 DEF HandleFile, ApplyAck, clientVars, Place
<1>4. CASE UNCHANGED last
  BY <1>0, <1>4 DEF Place
<1> QED BY <1>1, <1>2, <1>3, <1>4, OtherSteps

(* The gateway's last_cmd_id never goes back to an earlier command, until   *)
(* the first fault.                                                         *)
THEOREM InOrder == Spec => TakenInOrder
<1>1. TypeOK /\ (Faultless => IInv) /\ [Next]_vars
        => [Faultless' => Place(last') >= Place(last)]_vars
  BY PlaceMonotone, FaultsStay
<1> QED BY <1>1, Invariance, TypeCorrect, PTL DEF Spec, TakenInOrder

-----------------------------------------------------------------------------
(* Refinement of CommandSpec. *)

LEMMA RefinesInit == Init => Abstract!Init
  BY DEF Init, Abstract!Init, Place

LEMMA RefinesNext ==
  ASSUME TypeOK, IInv, Faultless', [Next]_vars
  PROVE  [Abstract!Next]_(Abstract!vars)
<1> USE DEF Abstract!vars
<1>1. CASE TakeCommand
  <2>1. got \in Cmds /\ pos[got] > Place(lastDisk)
    BY <1>1 DEF IInv, TypeOK, MaybeCmd, TakeCommand, DeliveryInv, ClientInv, Place
  <2>2. /\ Place(lastDisk)' = pos[got]
        /\ UNCHANGED <<pos, nreg, row, acked>>
    <3>1. lastDisk' = got
      BY <1>1, <2>1, FaultSteps DEF TakeCommand
    <3> QED BY <1>1, <2>1, <3>1, NoneAssumption DEF TakeCommand, Place, rowVars
  <2>3. Abstract!Take(got)
    BY <2>1, <2>2 DEF Abstract!Take
  <2> QED BY <2>1, <2>3 DEF Abstract!Next
<1>2. CASE ClientRestart
  BY <1>2 DEF ClientRestart, Place, rowVars
<1>3. ASSUME NEW c \in Cmds, HandleFile(c) PROVE [Abstract!Next]_(Abstract!vars)
  <2>1. CASE UNCHANGED rowVars
    BY <1>3, <2>1 DEF HandleFile, rowVars, clientVars, Place
  <2>2. CASE Register(c)
    <3>1. pos[c] = 0
      BY <1>3, NoneAssumption DEF IInv, FileInv, HandleFile, NextFile
    <3>2. Place(lastDisk)' = Place(lastDisk)
      BY <1>3, <2>2, <3>1 DEF IInv, TypeOK, MaybeCmd, HandleFile, Register, ClientInv,
         Place, clientVars
    <3>3. Abstract!Register(c)
      BY <2>2, <3>1, <3>2, NoneAssumption DEF Register, Abstract!Register
    <3> QED BY <3>3 DEF Abstract!Next
  <2> QED BY <1>3, <2>1, <2>2 DEF HandleFile
<1>4. ASSUME NEW c \in Cmds, ApplyAck(c) PROVE [Abstract!Next]_(Abstract!vars)
  <2>1. UNCHANGED <<pos, nreg, row>> /\ Place(lastDisk)' = Place(lastDisk)
    BY <1>4 DEF ApplyAck, clientVars, Place
  <2>2. CASE row = c /\ ~acked
    <3>1. Place(lastDisk) = nreg
      BY <1>4, <2>2, NoneAssumption
      DEF IInv, TypeOK, MaybeCmd, ApplyAck, OrderInv, ClientInv, AckInv, Place
    <3>2. (row # None /\ ~acked) /\ ~(row # None /\ ~acked)'
      BY <1>4, <2>2, NoneAssumption DEF ApplyAck, Marks
    <3>3. Abstract!Withdraw
      BY <2>1, <3>1, <3>2 DEF Abstract!Withdraw
    <3> QED BY <3>3 DEF Abstract!Next
  <2>3. CASE ~(row = c /\ ~acked)
    <3>1. (row # None /\ ~acked)' = (row # None /\ ~acked)
      BY <1>4, <2>1, <2>3 DEF IInv, TypeOK, ApplyAck, Marks
    <3> QED BY <2>1, <3>1
  <2> QED BY <2>2, <2>3
<1>5. CASE UNCHANGED <<row, acked, pos, nreg, last, lastDisk>>
  BY <1>5 DEF Place
<1> QED BY <1>1, <1>2, <1>3, <1>4, <1>5, OtherSteps

(* Until the first fault, files, database, caches and datagrams together    *)
(* implement the ordered, at-most-once channel of CommandSpec.              *)
THEOREM ImplementsUntilFault == Spec => AbstractSpec
<1>1. Init => Abstract!Init
  BY RefinesInit
<1>2. TypeOK /\ (Faultless => IInv) /\ [Next]_vars
        => [Faultless' => Abstract!Next]_(Abstract!vars)
  BY RefinesNext, FaultsStay
<1> QED BY <1>1, <1>2, Invariance, TypeCorrect, PTL DEF Spec, AbstractSpec

(* Without faults the channel implements CommandSpec. *)
THEOREM Implements == ASSUME MaxFaults = 0 PROVE Spec => Abstract!Spec
<1>1. TypeOK => Faultless
  BY DEF TypeOK, Faultless
<1>2. Faultless' /\ [Faultless' => Abstract!Next]_(Abstract!vars)
        => [Abstract!Next]_(Abstract!vars)
  OBVIOUS
<1> QED BY <1>1, <1>2, TypeCorrect, ImplementsUntilFault, PTL DEF AbstractSpec, Abstract!Spec

=============================================================================
