------------------------------ MODULE EventFeed ------------------------------
(***************************************************************************)
(* The dashboard page (templates/index.html) that shows the newest events: *)
(* it loads them once and then asks every two seconds for those after the  *)
(* last id it has seen.  A request is sent, served and answered in three   *)
(* steps, and the timer does not wait for the last answer, so requests     *)
(* overlap.  The table is the one of UplinkHistory; the page may clear a   *)
(* node itself, and other pages delete without telling it.                 *)
(***************************************************************************)
EXTENDS UplinkHistory, Sequences, SequencesExt, Listings

CONSTANTS
    Slots,          \* requests under way at once
    PageSize,       \* events on the page and in an answer (20)
    MaxOpens,       \* bound: times the page is opened
    MaxDeletes      \* bound: deletions

ASSUME FeedAssumption ==
    /\ PageSize \in Nat \ {0}
    /\ {MaxOpens, MaxDeletes} \subseteq Nat

VARIABLES
    allEvents,      \* the page's list, newest first
    latestEventId,
    req,            \* the requests under way
    (* history, since the page was opened *)
    opens, deletes,
    overlapped,     \* was a request sent while another was under way?
    wiped,          \* has another page deleted everything?
    goneElsewhere   \* ids of the rows deleted without the page's knowledge

pageVars == <<allEvents, latestEventId>>
pastVars == <<opens, deletes, overlapped, wiped, goneElsewhere>>
vars == <<historyVars, pageVars, req, pastVars>>

NoRequest == [kind |-> "none", since |-> None, dev |-> None, served |-> FALSE,
              rows |-> <<>>]

Requests == [kind : {"none", "load", "poll", "clear"}, since : Nat \cup {None},
             dev : Devs \cup {None}, served : BOOLEAN, rows : Seq(Rows)]

TypeOK ==
    /\ HistoryTypeOK
    /\ allEvents \in Seq(Rows) /\ Len(allEvents) <= PageSize
    /\ latestEventId \in Nat
    /\ req \in [Slots -> Requests]
    /\ \A s \in Slots : Len(req[s].rows) <= PageSize
    /\ opens \in 0 .. MaxOpens /\ deletes \in 0 .. MaxDeletes
    /\ {overlapped, wiped} \subseteq BOOLEAN
    /\ goneElsewhere \subseteq Nat

Init ==
    /\ HistoryInit
    /\ allEvents = <<>> /\ latestEventId = 0
    /\ req = [s \in Slots |-> NoRequest]
    /\ opens = 0 /\ deletes = 0
    /\ overlapped = FALSE /\ wiped = FALSE /\ goneElsewhere = {}

-----------------------------------------------------------------------------
(* The server.                                                             *)
First(q) == SubSeq(q, 1, IF Len(q) < PageSize THEN Len(q) ELSE PageSize)

(* ORDER BY id, which no two rows share: there is one answer. *)
Newest == {First(q) : q \in InOrder(uplink_events, LAMBDA r, t : r.id > t.id)}

FromOn(since) ==
    {First(q) : q \in InOrder({r \in uplink_events : r.id >= since},
                              LAMBDA r, t : r.id < t.id)}

AfterNext(since) ==
    {First(q) : q \in InOrder({r \in uplink_events : r.id > since + 1},
                              LAMBDA r, t : r.id < t.id)}

After(since) ==
    {First(q) : q \in InOrder({r \in uplink_events : r.id > since},
                              LAMBDA r, t : r.id < t.id)}

Reads(r) == IF r.since = None THEN Newest ELSE After(r.since)

ServeEvents(s) ==
    /\ req[s].kind \in {"load", "poll"} /\ ~req[s].served
    /\ \E answer \in Reads(req[s]) :
           req' = [req EXCEPT ![s].served = TRUE, ![s].rows = answer]
    /\ UNCHANGED <<historyVars, pageVars, pastVars>>

ServeClear(s) ==
    /\ req[s].kind = "clear" /\ ~req[s].served
    /\ DeleteNode(req[s].dev)
    /\ req' = [req EXCEPT ![s].served = TRUE]
    /\ UNCHANGED <<pageVars, pastVars>>

(* Another page clears or resets a node, or deletes everything. *)
DeleteElsewhere ==
    /\ deletes < MaxDeletes /\ deletes' = deletes + 1
    /\ \/ /\ \E d \in Devs : DeleteNode(d) \/ ResetNode(d)
          /\ wiped' = wiped
       \/ /\ \E keep \in BOOLEAN : DeleteAll(keep)
          /\ wiped' = TRUE
    /\ goneElsewhere' = goneElsewhere \cup {r.id : r \in uplink_events \ uplink_events'}
    /\ UNCHANGED <<pageVars, req, opens, overlapped>>

(* The page cannot tell in which order frames were received, nor which of  *)
(* them were never saved: one at a time is enough.                         *)
Uplink ==
    /\ \/ saving = {} /\ \E d \in Devs, c \in RawCounters : Spawn(d, c)
       \/ \E f \in saving : Save(f)
    /\ UNCHANGED <<pageVars, req, pastVars>>

-----------------------------------------------------------------------------
(* The page.                                                               *)
Send(s, r) ==
    /\ opens > 0 /\ req[s] = NoRequest
    /\ req' = [req EXCEPT ![s] = r]
    /\ overlapped' = (overlapped \/ \E t \in Slots : req[t] # NoRequest)

(* A page opened again knows nothing of its requests. *)
OpenPage(s) ==
    /\ opens < MaxOpens /\ opens' = opens + 1
    /\ allEvents' = <<>> /\ latestEventId' = 0
    /\ req' = [[t \in Slots |-> NoRequest] EXCEPT ![s].kind = "load"]
    /\ overlapped' = FALSE /\ wiped' = FALSE /\ goneElsewhere' = {}
    /\ UNCHANGED <<historyVars, deletes>>

PollRecentEvents(s) ==
    /\ Send(s, [NoRequest EXCEPT !.kind = "poll", !.since = latestEventId])
    /\ UNCHANGED <<historyVars, pageVars, opens, deletes, wiped, goneElsewhere>>

ClearNodeEvents(s, d) ==
    /\ deletes < MaxDeletes /\ deletes' = deletes + 1
    /\ Send(s, [NoRequest EXCEPT !.kind = "clear", !.dev = d])
    /\ UNCHANGED <<historyVars, pageVars, opens, wiped, goneElsewhere>>

Largest(n, q) == Max({n} \cup {q[i].id : i \in DOMAIN q})

(* refreshDashboard waits for three more answers before it shows any. *)
LoadAnswered(s) ==
    /\ req[s].kind = "load" /\ req[s].served
    /\ allEvents' = req[s].rows
    /\ latestEventId' = Largest(0, req[s].rows)
    /\ req' = [req EXCEPT ![s] = NoRequest]
    /\ UNCHANGED <<historyVars, pastVars>>

AllRows(rows) == Reverse(rows) \o allEvents

Merged(rows) == First(Reverse(rows) \o allEvents)

PollAnswered(s) ==
    /\ req[s].kind = "poll" /\ req[s].served
    /\ allEvents' = Merged(req[s].rows)
    /\ latestEventId' = Largest(latestEventId, req[s].rows)
    /\ req' = [req EXCEPT ![s] = NoRequest]
    /\ UNCHANGED <<historyVars, pastVars>>

AllOfThem(d) == {allEvents}

WithoutNode(d) == Filtered(allEvents, LAMBDA r : r.dev # d)

ClearAnswered(s) ==
    /\ req[s].kind = "clear" /\ req[s].served
    /\ allEvents' \in WithoutNode(req[s].dev)
    /\ req' = [req EXCEPT ![s] = NoRequest]
    /\ UNCHANGED <<historyVars, latestEventId, pastVars>>

(* The request or its answer is lost; the server may have deleted the rows. *)
RequestFails(s) ==
    /\ req[s] # NoRequest
    /\ req' = [req EXCEPT ![s] = NoRequest]
    /\ goneElsewhere' = goneElsewhere \cup
           {allEvents[i].id : i \in {j \in DOMAIN allEvents :
                req[s].served /\ allEvents[j].dev = req[s].dev}}
    /\ UNCHANGED <<historyVars, pageVars, opens, deletes, overlapped, wiped>>

Answered(s) == LoadAnswered(s) \/ PollAnswered(s) \/ ClearAnswered(s)

Next ==
    \/ Uplink \/ DeleteElsewhere
    \/ \E s \in Slots :
        \/ OpenPage(s) \/ PollRecentEvents(s)
        \/ \E d \in Devs : ClearNodeEvents(s, d)
        \/ ServeEvents(s) \/ ServeClear(s)
        \/ Answered(s) \/ RequestFails(s)

(* The timer goes on, requests are served, and not every poll is lost. *)
Fairness ==
    \A s \in Slots :
        /\ WF_vars(PollRecentEvents(s))
        /\ WF_vars(ServeClear(s)) /\ WF_vars(Answered(s))
        /\ SF_vars(ServeEvents(s)) /\ SF_vars(PollAnswered(s))

Spec == Init /\ [][Next]_vars /\ Fairness

-----------------------------------------------------------------------------
Shown == {allEvents[i] : i \in DOMAIN allEvents}

(* latestEventId stands for what the page knows: while requests do not     *)
(* overlap and the ids go on, the page has no event twice or out of order, *)
(* and every event of the table that is older than latestEventId and newer *)
(* than the oldest one shown is on the page.                               *)
NothingMissing ==
    ~overlapped /\ ~wiped =>
        /\ \A i, j \in DOMAIN allEvents : i < j => allEvents[i].id > allEvents[j].id
        /\ \A r \in uplink_events :
               r.id <= latestEventId /\ (\E t \in Shown : t.id < r.id) => r \in Shown

(* A node the page has cleared stays off it: under the same conditions a   *)
(* row that is shown is in the table, unless somebody else deleted it or   *)
(* the answer to the page's own request is still to come.                  *)
ClearedStaysOff ==
    ~overlapped /\ ~wiped =>
        \A r \in Shown :
            \/ r \in uplink_events
            \/ r.id \in goneElsewhere
            \/ \E s \in Slots : req[s].kind = "clear" /\ req[s].dev = r.dev

(* However requests overlap and fail, an open page comes to know of every  *)
(* event, unless everything was deleted and the ids started over.          *)
PageCatchesUp ==
    <>[](opens > 0 /\ ~wiped => \A r \in uplink_events : r.id <= latestEventId)
=============================================================================
