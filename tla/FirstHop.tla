------------------------------- MODULE FirstHop -------------------------------
(***************************************************************************)
(* The gateway's first-hop collector.  Its threads hand rows to one writer *)
(* through logq.  Modelled one by one are hop_prober, whose receiver       *)
(* threads share `pending` and `batch` with it, and dish_history_poller,   *)
(* which reads the ring buffer of the dish; the three others only put.     *)
(*                                                                         *)
(* Probes are numbered as they are sent; seq is what a packet carries.     *)
(***************************************************************************)
EXTENDS Integers, Sequences, FiniteSets, Listings

CONSTANTS
    QMax,           \* capacity of logq (200000)
    SeqSpace,         \* ICMP sequence numbers (2^16)
    Window,         \* probes sent within HOP_TIMEOUT
    Delay,          \* probes sent while an answer is on its way
    CheckEvery,     \* probes between two looks at the default route (100)
    Ring,           \* RING (900)
    None,
    MaxProbes, MaxSamples, MaxBoots,    \* bounds: of the run,
    MaxChanges, MaxRestarts             \* of interfaces, of the collector

ASSUME FirstHopAssumption ==
    /\ {QMax, SeqSpace, Ring, MaxBoots} \subseteq Nat \ {0}
    /\ {Window, Delay, CheckEvery} \subseteq Nat
    /\ Window < CheckEvery /\ Delay < CheckEvery /\ CheckEvery < SeqSpace
    /\ {MaxProbes, MaxSamples, MaxChanges, MaxRestarts} \subseteq Nat
    /\ None \notin Nat \cup [boot : Nat, counter : Nat]

VARIABLES
    logq, hop_ping, dish_history,
    (* hop_prober and its receivers *)
    pc, seq, sent, pending, batch,
    opened,         \* probes sent before the socket was opened
    replies,        \* answers on their way
    (* the dish, and dish_history_poller *)
    boot, current, ring, last,
    (* history *)
    unlogged,       \* probes whose row was dropped or lost with the process
    ambiguous,      \* has the interface changed just after seq wrapped?
    owed, missed,   \* samples the running collector has read; and has dropped
    changes, restarts

hopVars  == <<pc, seq, sent, pending, batch, opened, replies, ambiguous, changes>>
dishVars == <<boot, current, ring, last>>
dbVars   == <<hop_ping, dish_history>>
pastVars == <<unlogged, owed, missed, restarts>>
vars == <<logq, dbVars, hopVars, dishVars, pastVars>>

Probes   == 1 .. MaxProbes
Seqs     == 0 .. SeqSpace - 1
HopRows  == [probe : Probes, seq : Seqs, answer : Probes \cup {None}]
Samples  == [boot : 1 .. MaxBoots, counter : 0 .. MaxSamples]
DishRows == [boot : 0 .. MaxBoots, counter : 0 .. MaxSamples,
             sample : Samples \cup {None}]

Elements == [kind : {"hop"}, rows : Seq(HopRows)]
                \cup [kind : {"dish"}, rows : SUBSET DishRows]
                \cup [kind : {"other"}, rows : {{}}]

TypeOK ==
    /\ logq \in Seq(Elements) /\ Len(logq) <= QMax
    /\ hop_ping \in Seq(HopRows) /\ dish_history \subseteq DishRows
    /\ pc \in {"send", "sweep"} /\ seq \in Seqs
    /\ sent \in 0 .. MaxProbes /\ opened \in 0 .. sent
    /\ pending \in [Seqs -> Probes \cup {None}]
    /\ Cardinality({s \in Seqs : pending[s] # None}) <= Window + 1
    /\ batch \in Seq(HopRows)
    /\ replies \subseteq [probe : Probes, seq : Seqs]
    /\ boot \in 1 .. MaxBoots /\ current \in 0 .. MaxSamples
    /\ ring \in [0 .. Ring - 1 -> Samples \cup {None}]
    /\ last \in [0 .. MaxBoots -> -1 .. MaxSamples]
    /\ unlogged \subseteq Probes /\ ambiguous \in BOOLEAN
    /\ owed \subseteq Samples /\ missed \subseteq Samples
    /\ changes \in 0 .. MaxChanges /\ restarts \in 0 .. MaxRestarts

NothingPending == [s \in Seqs |-> None]
NothingStored  == [b \in 0 .. MaxBoots |-> -1]

Init ==
    /\ logq = <<>> /\ hop_ping = <<>> /\ dish_history = {}
    /\ pc = "send" /\ seq = 0 /\ sent = 0 /\ opened = 0
    /\ pending = NothingPending /\ batch = <<>> /\ replies = {}
    /\ boot = 1 /\ current = 0 /\ ring = [i \in 0 .. Ring - 1 |-> None]
    /\ last = NothingStored
    /\ unlogged = {} /\ owed = {} /\ missed = {} /\ ambiguous = FALSE
    /\ changes = 0 /\ restarts = 0

-----------------------------------------------------------------------------
Largest(a, b) == IF a > b THEN a ELSE b

ProbesOf(rows) == {rows[i].probe : i \in DOMAIN rows}

(* The queue and the writer.                                               *)
NoLimit == TRUE

HasRoom == Len(logq) < QMax

Put(kind, rows) ==
    logq' = IF HasRoom THEN Append(logq, [kind |-> kind, rows |-> rows]) ELSE logq

(* INSERT OR IGNORE: the primary key is (boot, counter). *)
OrIgnore(rows) ==
    {r \in rows : \A t \in dish_history : <<t.boot, t.counter>> # <<r.boot, r.counter>>}

(* One transaction for one element, tried until it succeeds. *)
Write ==
    /\ logq # <<>>
    /\ logq' = Tail(logq)
    /\ LET e == Head(logq)
       IN  /\ hop_ping' = IF e.kind = "hop" THEN hop_ping \o e.rows ELSE hop_ping
           /\ dish_history' = IF e.kind = "dish"
                              THEN dish_history \cup OrIgnore(e.rows) ELSE dish_history
    /\ UNCHANGED <<hopVars, dishVars, pastVars>>

(* router_pinger, ts_path_poller, dish_status_poller, and the events. *)
PutOther ==
    /\ HasRoom /\ Put("other", {})
    /\ UNCHANGED <<dbVars, hopVars, dishVars, pastVars>>

-----------------------------------------------------------------------------
(* hop_prober.                                                             *)
Row(p, s, answer) == [probe |-> p, seq |-> s, answer |-> answer]

(* The lock is not held from here to Sweep.  sendto may fail.              *)
Send ==
    /\ pc = "send" /\ sent < MaxProbes
    /\ seq' = (seq + 1) % SeqSpace
    /\ sent' = sent + 1
    /\ pending' = [pending EXCEPT ![seq'] = sent']
    /\ LET young == {r \in replies : sent' - r.probe <= Delay}
       IN  replies' \in {young, young \cup {[probe |-> sent', seq |-> seq']}}
    /\ pc' = "sweep"
    /\ UNCHANGED <<logq, dbVars, batch, opened, ambiguous, changes, dishVars, pastVars>>

(* Those older than HOP_TIMEOUT are lost, in the order of the dictionary:  *)
(* `young` is how many have been sent since.                               *)
Expired(young) == {s \in Seqs : pending[s] # None /\ pending[s] <= sent - young}

LostRows(ss) ==
    {[i \in DOMAIN at |-> Row(pending[at[i]], at[i], None)] :
         at \in InOrder(ss, LAMBDA s, t : pending[s] < pending[t])}

Sorted(rows) ==
    {[i \in DOMAIN at |-> rows[at[i]]] :
         at \in InOrder(DOMAIN rows, LAMBDA i, j : rows[i].probe <= rows[j].probe)}

KeptBatch(rows) == rows

Cleared(rows) == <<>>

Sweep(young, flush) ==
    /\ pc = "sweep"
    /\ \E lost \in LostRows(Expired(young)) :
           LET full == batch \o lost
           IN  IF flush /\ full # <<>>
               THEN /\ \E rows \in Sorted(full) : Put("hop", rows)
                    /\ batch' = Cleared(full)
                    /\ unlogged' = IF HasRoom THEN unlogged
                                   ELSE unlogged \cup ProbesOf(full)
               ELSE batch' = full /\ UNCHANGED <<logq, unlogged>>
    /\ pending' = [s \in Seqs |-> IF s \in Expired(young) THEN None ELSE pending[s]]
    /\ pc' = "send"
    /\ UNCHANGED <<dbVars, seq, sent, opened, replies, ambiguous, changes, dishVars,
                   owed, missed, restarts>>

StaysPending(s) == pending

Popped(s) == [pending EXCEPT ![s] = None]

(* Any receiver: the one of a closed socket wakes up for one more packet,  *)
(* and two sockets of one interface each get a copy of the same answer.    *)
Receive(r) ==
    /\ r \in replies
    /\ replies' \in {replies, replies \ {r}}
    /\ pending' = Popped(r.seq)
    /\ batch' = IF pending[r.seq] = None THEN batch
                ELSE Append(batch, Row(pending[r.seq], r.seq, r.probe))
    /\ UNCHANGED <<logq, dbVars, pc, seq, sent, opened, ambiguous, changes, dishVars, pastVars>>

(* The default route has changed: a new socket, and seq starts over. *)
ChangeInterface ==
    /\ pc = "send" /\ changes < MaxChanges
    /\ changes' = changes + 1
    /\ sent - opened >= CheckEvery
    /\ seq' = 0 /\ opened' = sent
    /\ ambiguous' = (ambiguous \/ seq <= Largest(Window, Delay))
    /\ UNCHANGED <<logq, dbVars, pc, sent, pending, batch, replies, dishVars, pastVars>>

-----------------------------------------------------------------------------
(* The dish, and dish_history_poller.                                      *)
Sample ==
    /\ current < MaxSamples
    /\ ring' = [ring EXCEPT ![current % Ring] = [boot |-> boot, counter |-> current]]
    /\ current' = current + 1
    /\ UNCHANGED <<logq, dbVars, hopVars, boot, last, pastVars>>

DishReboots ==
    /\ boot < MaxBoots
    /\ boot' = boot + 1 /\ current' = 0
    /\ UNCHANGED <<logq, dbVars, hopVars, ring, last, pastVars>>

OneTooFar(key) == Largest(last[key] + 1, Largest(current - Ring - 1, 0))

Start(key) == Largest(last[key] + 1, Largest(current - Ring, 0))

(* key is the boot time, or 0 when the answer has no eventLog.  `last`     *)
(* moves on although put may have dropped the rows.                        *)
PollHistory(key) ==
    LET rows == {[boot |-> key, counter |-> c, sample |-> ring[c % Ring]] :
                     c \in Start(key) .. current - 1}
        held == {[boot |-> boot, counter |-> c] :
                     c \in Largest(current - Ring, 0) .. current - 1}
    IN  /\ IF rows = {} THEN UNCHANGED <<logq, last>>
           ELSE Put("dish", rows) /\ last' = [last EXCEPT ![key] = current - 1]
        /\ IF key = 0 THEN UNCHANGED <<owed, missed>>
           ELSE /\ missed' = IF HasRoom THEN missed
                             ELSE missed \cup {s \in held : s.counter >= Start(key)}
                /\ owed' = owed \cup (held \ missed')
        /\ UNCHANGED <<dbVars, hopVars, boot, current, ring, unlogged, restarts>>

(* The collector's memory is lost; the dish goes on. *)
Restart ==
    /\ restarts < MaxRestarts
    /\ restarts' = restarts + 1
    /\ logq' = <<>> /\ pending' = NothingPending /\ batch' = <<>>
    /\ pc' = "send" /\ seq' = 0 /\ opened' = sent /\ replies' = {}
    /\ last' = NothingStored
    /\ unlogged' = (1 .. sent) \ ProbesOf(hop_ping)
    /\ owed' = {} /\ missed' = {}
    /\ UNCHANGED <<dbVars, sent, ambiguous, changes, boot, current, ring>>

Next ==
    \/ Write \/ PutOther
    \/ Send \/ (\E young \in 0 .. Window, flush \in BOOLEAN : Sweep(young, flush))
    \/ (\E r \in replies : Receive(r)) \/ ChangeInterface
    \/ Sample \/ DishReboots \/ (\E key \in {0, boot} : PollHistory(key))
    \/ Restart

Spec == Init /\ [][Next]_vars

-----------------------------------------------------------------------------
(* A probe is answered or lost, never both and never twice, and no probe   *)
(* disappears: it is pending, or has one row, or its row was dropped or    *)
(* lost with the process; and an answer is counted for the probe it        *)
(* answers.  When the interface changes just after seq has wrapped, the    *)
(* new socket reuses numbers that are still pending or still on their way. *)
Lists ==
    <<hop_ping, batch>> \o
        [i \in DOMAIN logq |-> IF logq[i].kind = "hop" THEN logq[i].rows ELSE <<>>]

EachProbeOnce ==
    LET lists   == Lists
        places  == UNION {{k} \X DOMAIN lists[k] : k \in DOMAIN lists}
        row(at) == lists[at[1]][at[2]]
        waiting == {pending[s] : s \in Seqs} \ {None}
    IN  /\ \A at, bt \in places : row(at).probe = row(bt).probe => at = bt
        /\ ~ambiguous =>
             /\ {row(at).probe : at \in places} = (1 .. sent) \ (unlogged \cup waiting)
             /\ \A at \in places : row(at).answer \in {None, row(at).probe}

(* The copy of the dish's history: every sample that was in the ring at a  *)
(* reading of the running collector is stored or queued under its own      *)
(* number, unless the queue was full, and no row holds the sample of       *)
(* another second, although the ring is reused and the dish and the        *)
(* collector restart.                                                      *)
DishHistoryTrue ==
    LET rows == dish_history \cup UNION {e.rows : e \in {logq[i] : i \in
                    {j \in DOMAIN logq : logq[j].kind = "dish"}}}
    IN  /\ \A r \in rows : /\ r.sample # None /\ r.sample.counter = r.counter
                            /\ r.boot \in {0, r.sample.boot}
        /\ \A s \in owed : [boot |-> s.boot, counter |-> s.counter, sample |-> s] \in rows
=============================================================================
