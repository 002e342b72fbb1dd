# Verification of the LoRa dashboard and latency probe

TLA+ models of the program in this repository, the TLC runs that check them on
small instances, and proofs that TLAPS checks for all instances.

The system measures the link between a LoRa gateway in the field and a server,
and records what the gateway's LoRa nodes send.  Three machines take part:

- the **gateway** (`src/gateway/`): `probe_client.py` sends a probe every few
  seconds and records the answers; `firsthop_collector.py` watches the router and
  the satellite dish; shell scripts watch the tunnel and switch the uplink;
- the **host** (`src/probe/`): `probe_server.py` answers probes and owns the
  server-side database, `e2e_logger.py` logs LoRa events;
- the **dashboard** container (`src/dashboard/`): `lora_dashboard.py` receives
  uplinks over MQTT, keeps a history, shows everything, and sends commands.

## 1. Inventory

| Component | State | Operations | What makes it correct |
|---|---|---|---|
| Control command channel: dashboard, `probe_server`, `probe_client` | command files, `pending_cmd` row, `_pending` cache, `ackq`, datagrams, `last_cmd_id` in memory and on disk | request a reset or a switch, handle files, poll, answer, acknowledge, take and execute, restart either side, fail to remove a file or to save an id | no command runs twice unless its file stays or its id is not saved, a reset is not lost to a switch, commands are taken in order, an acknowledged command needs no redelivery, no command stays pending for ever |
| Recorder of `probe_client` | `logq`, the writer's buffer, the `probe` table, `_reset_req`/`_reset_done`, `run`, `seq` | a probe cycle, a batch write, a failed write, a reset, a clock step | rows in order and none twice, a reset separates runs, later rows survive it, the loop is answered |
| Measurement mode | mode in memory and in a file, the collector unit, `_gw_seen`, `modeq`, `gw_mode_log` | switch off and on, heartbeats, log a change | the collector follows the mode, no pause is missing, the log ends at the truth |
| `probe_server` writer and snapshots | `logq`, buffer, `probe_rx`, the exported copy and its readers | batch write, refused batch, reset file, export | a refused batch is not lost, the copy catches up; a stale snapshot does no harm |
| Uplink history of the dashboard | `uplink_events`, `node_history_state`, `events`, `last_fcnt`, `missed_frames`, `fcnt_gateway_map` | receive, save, clear one or all, reset a node | frame counters never go negative, memory and database agree after a clear |
| Dashboard caches | `_summary_cache` (data and time stamp), `chirpstack_gateways`, the thread that refreshes it | compute and serve a summary, empty it, merge ChirpStack's list, register and delete a gateway | a served summary is not much older than 30 s and not from before a clearing, a deleted gateway does not come back for good |
| Browser event feed (`index.html`) | `allEvents`, `latestEventId`, requests under way | load, poll, clear a node | no event is skipped or shown twice, a cleared node stays off, the page catches up |
| Outage analysis | rows and mode log of the exported copy | gaps against paused spans | a pause is not an outage, an outage is not hidden |
| `e2e_logger` | `logq`, buffer, table, copy, reset file | as the writer of `probe_server` | as there |
| First-hop collector | queue, `pending`, `batch`, sequence number, `last` counters of the dish's ring | ping, probe hops, match answers, read the ring, restart | a probe has one outcome, no sample twice, none skipped while the ring still has it |
| Tunnel watchdog, wifi switch, backup | stamp files, timers, backup files | restart, switch and restore, prune | no restart loop, the gateway always returns to its network, the newest backup is kept |
| `maintenance.ps1`, `scripts/*.ps1`, configuration, reports | none of their own | one-shot | not modelled |

How the parts interact: the dashboard cannot write the host's databases (they
lie on a shared mount), so it leaves *command files* and reads *snapshots* that
are up to 20 s old.  `probe_server` cannot call the gateway (it is behind a
satellite NAT), so a command travels in the *response* to a probe, over a link
that loses, delays and reorders datagrams, and is acknowledged in a later
*request*.  Inside each Python process threads share queues, a few dictionaries
under locks, and SQLite files.

The behaviours that are hard to test are listed in `PROJECT.json` under
`hazards`, each at its line and with the properties that watch it.

## 2. Modules

| Module | Models | Source |
|---|---|---|
| `CommandSpec` | what the command channel promises, without files, caches or datagrams | - |
| `CommandChannel` | the channel in full; refines `CommandSpec` | `lora_dashboard.py`, `probe_server.py`, `probe_client.py` |
| `CommandChannelProofs` | its inductive invariant and theorems | - |
| `GatewayRecorder` | main loop and writer thread of the client | `probe_client.py` |
| `GatewayRecorderProofs` | its inductive invariant and theorems | - |
| `MeasureMode` | the mode on both sides, the collector, the mode log | `probe_client.py`, `probe_server.py`, `firsthop-collector.service` |
| `MeasureModeProofs` | its inductive invariant and theorems | - |
| `UplinkHistory` | the dashboard's database: uplink rows, bases of the frame counters, ids | `lora_dashboard.py` |
| `DashboardMemory` | `on_message`, the deleting handlers and the memory they share, over `UplinkHistory` | `lora_dashboard.py` |
| `DashboardMemoryProofs` | invariants and theorems of both | - |
| `DashboardCaches` | the summary cache and the gateway registry, statement by statement | `lora_dashboard.py` |
| `DashboardCachesProofs` | its inductive invariant and theorems | - |
| `Listings` | a set put in order, a sequence filtered, without recursion | `lora_dashboard.py`, `index.html`, `firsthop_collector.py` |
| `EventFeed` | a page that polls for events, over `UplinkHistory` | `index.html`, `lora_dashboard.py` |
| `EventFeedProofs` | its inductive invariant and theorems | - |
| `SampleLog` | queue, batch writer, exported copy and reset of a recorder on the host | `probe_server.py`, `e2e_logger.py` |
| `OutageReport` | requests, mode log and the outages found in them, over `SampleLog` | `probe_server.py`, `lora_dashboard.py` |
| `OutageReportProofs` | its inductive invariant and theorems | - |
| `FirstHop` | hop prober, dish history poller, queue and writer | `firsthop_collector.py` |
| `FirstHopProofs` | its inductive invariant and theorems | - |
| `MC*` | instances for TLC | - |

`DashboardMemory` and `EventFeed` extend `UplinkHistory`, `OutageReport` extends
`SampleLog`; the others stand alone.

### CommandChannel

One gateway is modelled: `pending_cmd`, `_pending` and the client's state are keyed by
`src` and never relate two gateways.  `files`, `listing` and `handling` are the
directory and the place of `cmd_file_worker` in it; `row` and `acked` the gateway's row
of `pending_cmd`; `fetched` and `polling` split `cmd_poller` at the point where another
thread can change the row between its SELECT and its cache update; `ackq` is a set
because acknowledgements of one command are idempotent.  Datagrams are never removed
from `reqs` and `rsps`, which gives loss (never received), duplication, delay and
reordering at once.  The client accepts a response only for its outstanding `(run,
seq)`; of a request the pair is therefore abstracted to a flag `cur` that is cleared
when the next request leaves, and of the responses only those to the outstanding request
are kept (`MatchingAnswers`).  This uses that a pair is not used twice, which the code
gets from the wall clock (`run = int(time.time())`); the model assumes it.

The client's loop stops at four points (`idle`, `wait`, `take`, `exec`) so that
a restart may fall between accepting a command, saving its id and executing it.

Two things that fail make the code execute a command twice, and both are steps of
the model, `MaxFaults` of them in all.  The file of a handled command stays
(`FileStays`), because `os.remove` raises (`RemoveFails`) or because the server is
restarted between the handler's commit and the removal (`ServerRestart` with
`handling # None`): the command is registered again, and if another command was
taken meanwhile the gateway, which remembers one id, executes it again.  Or
`write_state` prints an `OSError` (`SaveFails`): after a restart the client no
longer knows the command.  `OncePerFault` says that nothing else repeats a command,
and counts: each further execution is paid for by one such event of that same
command (`stays`, `unsaved`).  What the comments and the protocol promise instead,
a single execution, is `OneFaultHarmless`; `channel_executes_twice` refutes it.
The other safety properties hold until the first such event (`Faultless`), and
`Acknowledged` holds whatever fails.

### GatewayRecorder

The main loop hands rows to the writer through `logq`; a reset is done by the
writer at the loop's request.  The handshake's three assignments (clear
`_reset_done`, set `_reset_req`, wait) and the writer's steps (clear the buffer,
drain the queue row by row, erase, clear the request, set the answer) are
separate actions.  A failed write rolls back and keeps the buffer
(`WriteFails`); a DELETE whose commit fails is *not* rolled back by the code and
is committed with the next batch (`EraseUncommitted`, `txErase`).  The loop's
wait of 60 s may run out before the writer has answered (`ResetTimedOut`, counted
by `late`): `AnsweredResetStartsNewRun` and `LaterRowsKept` speak of the time
before that, and `recorder_late_reset` shows that `ResetStartsNewRun` does not
hold afterwards.

### MeasureMode

The client saves the mode, then sets the collector unit; either may fail and a restart
may come between (`drift` records which happened and has not been repaired).  A start of
the stopped unit is skipped while the file says "off", as its `ExecCondition` does
(`SetCollector`).  A power cut is a different event from a restart of the client: at
boot the same condition is read.  The server answers a request before it notes the mode
(`hand`), queues a change, and `gw_state_worker` drains the queue into an open
transaction before it commits (`modeTx`, `modeLog`).

### UplinkHistory and DashboardMemory

`UplinkHistory` is the dashboard's database: the rows of `uplink_events`, the
base of each node's frame counter, and the ids, which start over when
everything is deleted.  Every operation is one locked section and one
transaction in the code, hence one action.

`DashboardMemory` extends it by the process: `on_message` in the MQTT thread, the save
threads and the Flask threads (`Workers`) that serve the three handlers that delete.
Here the unit is the statement that touches shared memory, because `on_message` writes
the deques and dictionaries without the lock: a handler's `events = deque([... for ev in
events])` is a copy, the end of the comprehension (where Python raises RuntimeError if
the deque was changed) and the assignment, and `missed_frames[d] += gap` is a read and a
store. `EvictKey` has the IndexError of an empty deque, and `UseKey` the KeyError of a
key that is gone and the IndexError of an uplink that has a gateway but no RSSI or SNR
(`lora_dashboard.py:504-505`), which leaves its key in the map; `noSignal` counts these.
A handler that fails half-way sets `halfDone`: the rows are deleted and memory still has
them, and `MemoryAgrees` speaks of the time before.  `gaps` counts, beside
`missed_frames`, the frames a node has missed since its tally was cleared, and
`overtaken` records that the clearing fell between the read and the store of
`missed_frames[d] += gap`: the store then brings the cleared tally back, which the code
does not prevent, and `TallyCounts` says that nothing else makes a tally wrong.  The
deque `events`, newest first, is kept as the set of its frames, whose numbers give the
order.  What the comprehension over `fcnt_gateway_map_keys` leaves is given by
`Listings`, as the set whose one member is the filtered sequence.  Of `fcnt_gateway_map`
only the keys are kept, of an uplink its node and counter (or that it has none).  The
summary cache, which two of the handlers empty last, is part of `DashboardCaches`.

### DashboardCaches

Two caches of the same process that share no statement but are exposed to the
same kind of race.  `api_summary` checks the cache and reads it again to answer
(`CheckCache`, `ServeCache`; the answer is null if it was emptied in between), or
computes without the lock and then stores `data` and `ts` in two statements; two
threads may do so at once, so that the data of one comes to lie under the stamp of
the other, and a clearing may fall between any two statements.  A handler deletes
its rows under `_db_lock` and empties the cache after it has given the lock up, so
that of two handlers the later may empty first (`emptying`, `emptied`).
`api_reset_node_history` deletes rows and never empties the cache, and a handler may
fail before it does: such a deletion is not seen in the summary before the cached
answer has expired, and `ClearedNotServed` does not speak of it.  Nor does it of an
answer that was being computed when the cache was emptied and is stored afterwards
(`raced`); how long that one is served, `ServedIsRecent` bounds.
Time advances by `Tick`; a computation or an answer that takes more than
`MaxCompute` ticks is excluded (Flask would still serve it; the bound
is what `ServedIsRecent` is stated against).  What a summary says is abstracted to
its age and to the number of deletions the table had seen when it was read.

The refreshing thread reads ChirpStack's list in one step (`ReadList`), merges it
and drops the keys that have vanished from it one at a time.  Registering a gateway
changes ChirpStack's list alone; deleting one changes that list first and the
dictionary afterwards (`PopGateway`), or that list alone when it is done on
ChirpStack's own pages.  `ReturnsAtMostOnce` and `QuietRoundSettles` say how far a
deleted gateway can be seen again: once, if the round under way had read the list
before the deletion, and no longer than until a round nobody disturbs has ended; a
round that a deletion has cut short leaves what it leaves until then.

### EventFeed

A request of the page is sent, served and answered in three steps, in one of the
`Slots`; the two-second timer does not wait for an answer, so polls overlap.  The
answers are those of `api_events`, at most `PageSize` rows.  Another page may delete
(`DeleteElsewhere`): the rows it deletes stay on this page until they are pushed out,
which `goneElsewhere` records, and deleting everything restarts the ids below
`latestEventId` (`wiped`), after which the page shows nothing new until it is opened
again.  `NothingMissing` and `ClearedStaysOff` therefore speak of polls that do not
overlap and ids that go on: two polls of one `since_id` do show events twice, and a poll
served before a clearing and answered after it does bring a cleared node's events back.
`PageCatchesUp` holds with overlapping polls too, for a page that is visible (the timer
skips a hidden one).  The order an SQL query asks for, and what a filter of the page
leaves, are given by `Listings` as the set of possible results; ids are unique, so each
set has one member.  An uplink is saved before the next is received, since the page
cannot tell.

### SampleLog and OutageReport

`SampleLog` is the recorder that `probe_server` and `e2e_logger` share: a batch is
written, or refused and kept (and cut beyond `BufMax`), a copy is exported unless
a page of the dashboard has the old one open, a reset file erases the table.  A
copy is the database of one instant, so only whether it is current is kept.

`OutageReport` puts requests of one gateway into it: one tick is one interval,
without jitter, any tick may bring a probe, a heartbeat of a pause or nothing.
What `api_probe_outages` computes (median, threshold, paused spans) is written as
operators over the table and the mode log, compared in whole numbers.  The mode
log is kept as a set, since every query reads it `ORDER BY t_ns`; a change is news
to `gw_state_worker` unless the latest entry before it has the same mode (`IsNews`).
The worker empties its queue into an open transaction (`LogModes`, `inserted`) and
commits at the end of the pass (`CommitModes`); a commit that sqlite refuses is not
rolled back, so it is a `CommitModes` that comes later, after further changes have been
drained, or never, if the server restarts first.  That the open
transaction keeps the recorder's own writes waiting is left out: the model lets them
succeed, wait or fail at any time.  `OutageMeansSilence` and
`SilenceReported` speak of the moments when every change has reached the log
(`Complete`): none lost, none queued, none uncommitted.  A hole is long if it exceeds
2.5 times the median; the comparison is strict, as in the code
(`lora_dashboard.py:1166`), while the comment at `:1122` says 2.5 times or more.
`Outages` are the holes that `outage_count` counts; that the answer lists only the last
50 of them (`:1223`), and the last 50 changes of path, is left out, as
are the choice of the hours and the rows and changes just before them, the two
changes of path at the ends of an outage, the estimate of missed requests and the
availability, which are read off the outages found.  Why the mode changes is
`MeasureMode`'s subject; here it is free.

### FirstHop

Probes are numbered as they are sent and carry the ICMP sequence number modulo
`SeqSpace`; `pending` is the dictionary that the prober and its receiver threads share
under a lock, `batch` the list they both append to.  The receiver of a closed socket
wakes up for one more packet and two sockets of one interface both get an answer, so an
answer may be delivered twice (`Receive` may leave it). Lateness is measured in probes
sent (`Window`, `Delay`).  The prober looks at the default route every `CheckEvery`
probes and starts `seq` over on a new socket; `ambiguous` records that this happened
while the numbers it reuses could still be pending.  What is flushed is a sorted list,
given by `Listings` as a set like the answers of `EventFeed`.  The dish keeps the
samples of the last `Ring` seconds; the poller reads from the counter after `last`, and
`INSERT OR IGNORE` drops a sample stored by an earlier process.  `owed` are the samples
the running collector found in the ring at a reading, `missed` those whose rows a full
queue dropped.  The three other threads only put rows into the queue (`PutOther`).

## 3. Runs

| Run | Shows | Instance |
|---|---|---|
| `channel_safety` | every repeated execution is paid for by a fault; until a fault durable acknowledgement, no lost reset, order, refinement of `CommandSpec`; a registered command is acknowledged or replaced | a reset and a switch, one restart of either side, one file that stays or save that fails |
| `channel_executes_twice` | violation: a command is executed twice, once for each of the two faults | the same with two faults |
| `channel_ack_means_executed` | violation: acknowledged does not mean executed | one reset, one restart, no fault |
| `recorder` | order of rows, separation by resets, nothing lost later, the reset is answered | queue, batch and buffer of two rows, three runs of two cycles, two resets, one expired wait, one restart |
| `recorder_late_reset` | violation: a reset that took too long does not start a new run | the same |
| `mode` | collector and mode agree, no pause missing, the log catches up | three switches, a queue of two, one delayed request, one fault of any kind |
| `dashboard` | shown counters, agreement of memory and table, what the tally counts, stranded keys, the lock | two nodes, two uplinks, two handler calls by two threads, a restart; one event and one key fit |
| `dashboard_map_grows` | violation: the map exceeds its limit | the same |
| `feed` | nothing missing on the page, a cleared node stays off, the page catches up | two nodes, three frames, two requests at once, a page of two events, one deletion |
| `caches` | age of a served summary, nothing from before a clearing, a deleted gateway returns once at most, a quiet round settles | two threads, two gateways, a life time of two ticks, two deletions of rows, one edit |
| `firsthop` | a probe has one outcome, stored samples are those of their seconds | three sequence numbers, five probes, a ring of two samples, two boots, a change of interface, a restart; the queue holds one element |
| `outages` | a reported outage was silence, a silence is reported, the copy catches up | six intervals, a queue and a batch of two, one fault |

Why the bounds are enough.  The channel's hazards need a command, its successor
and a datagram of each: a reset and a switch, either of which may come first, and
one restart at any moment is enough to lose whatever is in memory; one fault is
enough for a second execution, and for any number of commands, restarts and faults
the safety properties are proved (section 5).  `channel_executes_twice` has one run
for both faults: `OneFaultHarmless` is a disjunction, so the behaviour that TLC finds
breaks each half, and shows first a file that stays and then a save that fails.
The recorder's queue, batch and buffer limits are reached at two rows, and three
runs admit two resets, or a reset and a restart or a clock step.  Two pauses
(three switches) are needed before a pause can hide behind another one.  In the
dashboard a second uplink finds the first one's counter, key and event, both
limits are reached by it, and a second call falls between the two locked
sections of the first.  That a handler and an uplink given up each strand a key
takes a map of two keys and three uplinks, which is beyond TLC's reach here:
in this instance the `noSignal` of `StrandedKeysBounded` is not yet needed, and
that the property holds with it is proved.

In `feed` a page of two events is pushed over by the third, one deletion may be of one
node or of everything, and two slots let a poll overlap the one before it or a clearing.
In `caches` the second thread may store between the two statements of the first, and a
life time of two lets a stamp be newer than its data; two deletions let the handler of
the later one empty the cache first; one edit is a registration, or a deletion before,
during or after a round.  In `firsthop` sequence numbers wrap before the fifth probe and
start over after the second, the ring is overwritten at the third sample, and one
element fills the queue; the constraint `NotBothLong` leaves out behaviours in which
both pollers act, since they meet in the queue alone, where `PutOther` stands for
either.  It ends when its bounds are reached, which is why deadlock is not checked
there.  In `outages` six intervals are enough for two rows that set the median, a pause
that has ended, and a hole of three intervals after it.  `BufMax` is below `BatchLen`
there, unlike in the code, so that already the first refused batch is cut; the buffer is
then as long as it would be after many.

Symmetry is used in `dashboard` over
the nodes and over the Flask threads, and in `caches` over threads and gateways,
which the specifications do not distinguish; neither of these runs has a liveness
property.

## 4. Fairness

Every thread is a `while True` loop that is never told to stop, so its steps are weakly
fair.  The link is fair-lossy: it may lose any datagram but not all of a never-ending
sequence, hence strong fairness of *answering the outstanding request* and of *reading
an answer in time*; the same for the UPDATE of `ack_worker`, which may fail but not for
ever.  Nothing is assumed of the dashboard, of arriving commands, of restarts, of files
that stay or of saves that fail (whose numbers are bounded).  In `GatewayRecorder` the
writer is weakly fair as a whole, not step by step; a write may fail for ever and the
reset is still answered.

In `EventFeed` the timer sends polls for ever and answers that have arrived are handled
(weak fairness); serving a request and answering a poll are strongly fair, because a
poll may be lost but not every one.  Nothing is assumed of uplinks, deletions and
openings.  In `OutageReport` the threads of the recorder are weakly fair, and so is the
commit of the mode log, which may fail but not for ever; exporting the copy is strongly
fair, because it is impossible while a page has the old copy open and pages, weakly fair
to close it, open it only for an instant.

## 5. Proofs

`CommandChannelProofs` proves, for every set of commands, every capacity and
every number of restarts and faults, that `Spec` implies `[]TypeOK`,
`[]OncePerFault`, `[]AckedIsDurable`, `[]ResetNotLost`, `TakenInOrder` and
`AbstractSpec`, from the assumptions of the module alone; and, for `MaxFaults = 0`,
that it implies `Abstract!Spec`.

Its first part is about all behaviours.  `OncePerFault` is not inductive: an execution
is due long before it happens.  What the gateway will meet is a chain, from what it
remembers over the response it is about to read, the cache and the poller's rows to the
row; a command is executed again only where the chain changes to it (`Runs`).
`ChainInv` says that the executions done, under way and ahead on that chain are at most
one for the registration and one for each fault of the command, for the id in memory
and for the one on disk alike, since a restart goes back to the latter.

Its second part is about the time before the first fault, and nothing of it is
inductive alone either.  `IInv` adds where a command may
be found and what each copy of its id implies: a command whose file has been
handled is not registered again (`FileInv`); the row is the command registered
last and every place in the order is that of one command (`OrderInv`); whatever
the poller, the cache or a datagram carries was registered (`CopyInv`), and a
response to the *outstanding* request carries a command no older than the last
one taken, because whatever older command the cache still held was acknowledged
only after the file had it (`DeliveryInv`); the id in memory, the id on disk
and the set of commands taken move together except between taking and
executing (`ClientInv`); an acknowledgement in flight names a command that is on
disk (`AckInv`).  One lemma per action shows that it preserves `IInv`, if the step is
not itself a fault; `StepIInv` puts them together, and `FaultsStay` that a fault is
never undone.  `ImplementsUntilFault` maps the gateway's file to the abstract
`taken` and "the row is not acknowledged" to `open`.

`DashboardMemoryProofs` first proves `HistoryInv` for `UplinkHistory`.  That shown
counters keep step is not inductive: it needs that the base lies at or below the counter
each surviving row was counted from (`BaseBelowRows`), which holds because a save only
lowers the base and a reset forgets it only together with the rows.  `ThreadInv` (what
the threads work on, the lock discipline, the tally) is inductive for `DashboardMemory`;
with it every step of the process is a step of `UplinkHistory` or leaves the database
alone (`DashboardImplements`), so the history's theorems hold of the dashboard:
`NeverNegative` and `KeepStep`, beside `LockDiscipline` and `TallyCounted` (the tally,
or the value that `on_message` is about to store for it, is the count of `gaps`, unless
the clearing was overtaken).  No assumption is made beyond those on the constants;
handlers and saves may fail at any point.

Its second part proves `[]MemoryAgrees` from there.  The property speaks of
moments when no handler is at work, so `AgreeInv` says what holds in between: an event
without a row is of a node that some handler, from the commit of its DELETE to the
replacement of `events`, has been asked to clear, and the copy such a handler is about
to store is as good and holds nothing of that node.  That no second handler stands in
the same place comes from the lock discipline; that a deleted row cannot be taken for
another frame's from `Numbered`, since an event is tied to its row by its number alone.

Its third part proves `[]TypeOK` and `[]StrandedKeysBounded`, by `MemoryInv`, which is
inductive next to the invariants above.  That `events` never outgrows its maxlen needs
that no two of its frames have the same number (`EventsInv`): the oldest frame
that `Newest` keeps then has all the others before it (`NewestFits`).  A stranded key is
charged to the call, or to the uplink given up, that stranded it: `CountInv` counts the
keys that are stranded or bound to be (`Strays`) together with the handlers still at
work, each of which may add one.  Bound to be stranded are the listed keys that a
handler's new deque will leave out (`LeftOut`), the key that `on_message` has in hand
excepted, which it adds when it gives the uplink up; and the oldest key of a full deque
that the next append drops before it has been evicted (`AtRisk`, `CopyAtRisk`).  A
handler adds one at most because `on_message` cannot go on to another key while it waits
for the lock in `ReadNumber`.

`DashboardCachesProofs` proves `[]TypeOK` and the four properties of `caches`, for
any threads, gateways, life time and bounds.  The difficulty of `ServedIsRecent` is
that a stamp may belong to another thread's data: the invariant bounds, for every
thread between its two stores, how much older the data may be than the stamp it
is about to write, and for every thread that still computes, how old its data is.
`ReturnsAtMostOnce` and `QuietRoundSettles` follow from an invariant on the round:
what has been merged, what is still to be dropped, and what has changed since the
list was read.

`GatewayRecorderProofs` proves `[]TypeOK`, `[]RowsInOrder`,
`[]AnsweredResetStartsNewRun` and `[]LaterRowsKept` for any capacities, runs,
resets, restarts and expired waits, assuming that a batch is not longer than the
buffer (`BatchLen <= BufMax`).  `OrderInv` states the order of table, buffer and
queue one by one, since each step moves a row from one to the next or drops some;
lemmas say what appending, taking the tail, concatenating and cutting do to it.
Separation by resets is not inductive without `Handshake`: as long as no wait has
expired, the main loop stands in its wait while the writer drains and erases, so
buffer and queue are empty at the erasure, and everything discarded belongs to the
run that ends.  An erasure left uncommitted is carried by `FenceInv` and `KeptInv`
until a later batch commits it.

`MeasureModeProofs` proves `[]TypeOK`, `[]OffMeansQuiet`, `[]OnMeansCollecting` and
`[]EveryPauseLogged`, for any number of switches, late requests and faults.  The
first three need only `CollectorInv`, the state of file and collector in the middle
of a switch.  `EveryPauseLogged` spans the link: `Heard` counts the pauses the
server has heard of, wherever it has put them, and `Over` those it has also heard
the end of; steps of the server never lower either (`AnswerRecord` ..
`ServerRestartRecord`), and `HeardInv` says what the gateway may conclude from an
answer: in a pause, that this pause was heard; outside, that all of them are over.
This is what makes late and reordered requests harmless, as they only add.

`OutageReportProofs` proves `[]TypeOK`, `[]OutageMeansSilence` and `[]SilenceReported`
for any capacity, number of faults and length of time.  Neither property is inductive,
because a row and a change of mode travel separately: the row through `logq` and `buf`,
the change through `modeq` and `inserted`, and either may be lost. `OrderInv` keeps the
rows in the order of their times over all three places, `ChangesInv` the changes over
queue, transaction and log.  `PauseInv` says that a pause begins with a request that
leaves no row; `ResumeInv` that between a pause and a later row a change ends it, so
that a pause never stretches over a row; `HeardInv` that every request that was heard
has a row, lost it, or lies in a pause.  The last two must survive a change that the
worker drops as no news, and that is what `SeenInv` is for.  A hole with a request in it
then overlaps a paused span (`OutageMeansSilence`), and a span that overlaps a hole
begins or ends at a request within it (`SilenceReported`).

`EventFeedProofs` proves `[]TypeOK`, `[]NothingMissing` and `[]ClearedStaysOff` for
any page size, number of slots, openings and deletions.  Both properties hold only
because what an answer under way holds, what the page shows and what the table has
are related at all times, so the invariant speaks of each: `PageInv` of the list
against the table, `LoadInv` and `PollInv` of an answer that is still on its way
(what it left out is either newer than its last row or deleted since), `ClearInv` of
the moment between the deletion of a node's rows and their removal from the page,
`SingleInv` that without overlapping there is only one such answer.  What ordering a
set and cutting the listing to a page preserve is proved once, in lemmas on `InOrder`
and `Filtered`, by arguments on cardinalities instead of induction.

`FirstHopProofs` proves `[]TypeOK`, `[]EachProbeOnce` and `[]DishHistoryTrue` for any
capacity, ring, windows and space of numbers with `Window`, `Delay` < `CheckEvery` <
`SeqSpace` (in the code `Window` is 10 probes, `CheckEvery` 100 and `SeqSpace` 65536;
`Delay`, how late an answer may be, is the network's), and any number of probes,
samples, reboots, restarts and changes of interface.  `PlaceInv` says that no probe
is in two places, the table, the queue, the batch, those waiting and those lost with
a process or a full queue; `CoverInv` that each is somewhere.  Sending needs that the
next number is free, and receiving that the number of an answer names its own probe;
both fail for arbitrary numbers and hold because of `NumberInv`: a mark, that is a
probe and its number as long as either is pending or an answer to it is on its way,
has the number that counts from the opening of the present socket, or belongs to the
socket before it, whose numbers are in step with each other and greater than any the
new socket can reach while the mark lasts.  `PendingInv` bounds how long that is.  An
interface that changes just after the numbers have wrapped breaks this
(`ambiguous`); from then on only the places are claimed.  For the dish, `RingInv`
gives what each cell holds that has not been overwritten, and `LastInv` that what lies
below the last position read was stored or is in `missed`.

Every safety property that a passing run checks is a theorem.  Only model-checked are
the liveness properties, since fairness and `ENABLED` are out of the prover's reach.

## 6. Plan

What would come next:

1. `TunnelWatchdog` and `WifiSwitch`: restart counter, cool-down and restore timer
   over crashes of the scripts.
2. The pages `probe.html` and `nodes.html`, whose polls are of the same kind as
   `EventFeed`'s.

## 7. Not modelled

Timestamps and the arithmetic on them (the round-trip formula, offsets), because
no property of the control flow depends on them; decoding of frames and the
airtime formula of `e2e_logger`, which is floating-point arithmetic, and its
connection to the broker; radio and satellite data; the list of recent
deduplication ids in `on_message`; the pages' drawing and the pages other than
`index.html`; ChirpStack, MQTT and PostgreSQL, which are other programs; the
configuration; the tunnel watchdog, the wifi switch and the one-shot maintenance
and backup scripts, which are sequential and meet the rest only through the state
of the network.  Their hazards are listed in `PROJECT.json` without a property.
