# Romi Hub: TLA+ verification

Romi is a server monitor: one Hub (Rust, `server/`), an agent on every machine
(Rust, `agent/`), a public page and an admin panel (TypeScript, `web/` and
`admin/`).  The Hub keeps everything in one embedded database file.  This
directory models the parts of the Hub, of the agent and of the two pages whose
correctness depends on interleavings, failures and orders of events; the modules are
checked with TLC on small instances, and the properties that matter most are
proved with TLAPS for every size.

## 1. Inventory

| Component | State | Operations | What is hard | Module |
|---|---|---|---|---|
| Writer queue (`db/mod.rs`) | bounded channel, deferred slot, batch, generation, counters | `submit`, `write`, `write_batch`, `replace`, `close`, `writer_loop`, `run_batch`, `run_alone`, `run_one`, `run_replace`, `resolve` | stamps that go stale in the queue, shared transactions that fail, shutdown racing callers | `WriterQueue` |
| Write guard (`db/mod.rs`, `db/schema.rs`) | cached nodes, assignments, newest stamps; id counters; the tables they describe | `insert_metric`, `insert_ping`, `accumulate`, `create_node`, `delete_node`, `save_ping_task`, `delete_ping_task`, `prune`, restore, `reload_guard` | the cache moves before the commit does; no foreign keys | `WriteGuard` |
| File switch (`db/backup.rs`, `db/mod.rs`) | the file and the one beside it, writer, prototype and reader handles, the gate, the process lock | `activate`, `reopen`, `read`, `close`, start | three file operations in a row, each may fail; crashes between them | `FileSwap` |
| Agent sessions (`agent_ws.rs`, `api.rs`) | the map of connected agents, each session's lock and retired flag, tokens | upgrade, `activate`, `serve`, `handle`, `release`, rotation, deletion, restore, `locate` | reports racing retirement, reconnects racing teardown, dead peers | `AgentSession` |
| Probe distribution (`agent_ws.rs`, `api.rs`, `agent/src/main.rs`) | the probe list, outbound queues, the agent's loops | `save_ping_task`, `delete_ping_task`, `push_ping_tasks`, `ping_tasks_message`, `respawn_ping_tasks` | the read and the send are separate steps; full queues | `ProbePush` |
| Outage and traffic alerts (`notify.rs`) | absence clocks, returns, traffic steps; `down_since` on disk | `watch`, `sweep` | memory and disk disagree after a restart; marks are written one by one | `OutageWatch` |
| Traffic accounting (`db/mod.rs`) | baselines, totals, month and day counters | `accumulate_on`, `set_traffic`, `all_traffic`, `period_start`, the agent's `epoch` and `totals` | reboots, shrinking counters, period boundaries, saturation | `Traffic` |
| Pages kept live (`web/src/lib/api.ts`, `admin/src/lib/api.ts`, both `App.tsx`, `Login.tsx`; `nodes`, `me`, `live_ws`, `stream_live`, `save_settings` of `api.rs`; `login`, `logout` of `auth.rs`) | stream, poll and reconnect timers of each run of the effect, React's state, requests in flight, the cookie, the Hub's sessions and public flag | `useNodes`, `loadMe`, sign-in, sign-out, change of credentials, refresh, the Hub's answers and ticks | answers that land out of order or after the page stopped, sessions that end under a stream, Hub restarts | `LivePanel` |
| Restore upload (`upload` in `admin/src/lib/api.ts`, `sections/data.tsx`; `db_restore`, `receive`, `append` in `api.rs`) | the browser's loop, the one upload file and who has it open, the archive being read | chunks, cancel, lost connections, rename, unpack, switch | a cancelled request that still arrives, two uploads on one file | `RestoreUpload` |
| Alert delivery (`notify.rs`) | bounded queue | `send`, `deliver` | at most once, full queue | planned |
| Housekeeping (`main.rs`) | `maintenance_last`, expiry dates, digest date | `housekeeping`, `automatic_maintenance`, `renew_online_nodes`, `expiry_digest` | partial failure, once a day across restarts | planned |
| Sign-in (`auth.rs`) | throttle, password gate (sessions: `LivePanel`) | `record_failure`, `locked` | lockout window, gate of one | planned |
| Panel API (`api.rs`) | registration window, live seats, snapshot cache | handlers | seats returned on every path, stale snapshot | planned |
| Country database (`geo.rs`) | reader, running download | `update`, `cancel`, `install` | cancellation racing installation | planned |
| Agent loop (`agent/src/main.rs`) | connection, back-off | `session`, `reconnect_wait` | silence detection, back-off reset | planned |

Section 7 lists what is not modelled and why.

How they interact.  HTTP and WebSocket handlers run on a thread pool and call
the database synchronously.  Every write is a job in the writer queue; the one
writer thread executes it, in a group commit if it is telemetry.  Reads take
the gate shared and use a pool of connections; a restore or a compaction is a
`replace` job that the writer runs, and only its file switch takes the gate
exclusively.  A connected agent is an entry of `App::agents`; the panel's
operations on nodes take `agents_admin`, retire the sessions concerned, and
run their database mutation while they hold the sessions' state locks.  A page
holds a stream the Hub pushes lists into every two seconds; while the stream is
gone it polls and reconnects every five, with whatever cookie the browser then
has, which other tabs may have changed.

## 2. Modules

Each module's header comment says what it leaves out.  `PROJECT.json` maps
every definition to its lines.

**WriterQueue** has one process per call (`Jobs`) and the writer.  A call goes
through `pc`: idle, stamped (the generation is read), counted, locked (the
sender's mutex), sent, waiting, done or rejected.  The writer takes a job,
collects a batch, executes, commits or rolls back and replays, and answers.
The operation counters are separate relaxed atomics, so each update of `submit`
and of `resolve` is a step of its own (`SendFails` and `Withdraw`, `Tally`,
`Resolve`), between any two of which `queue_stats` may read them.
`born` and `home` are history: the database a job was made for and the one it
committed into.  **AtomicWrites** is what callers may rely on, three states per
call; `WriterQueue` refines it (`ImplementsAtomicWrites`).

**WriteGuard** has the tables and the guard as records `db` and `guard`; a
transaction works on a copy, and a batch of up to `BATCH_OPS` telemetry
operations commits or rolls back as one, after which the guard is reloaded and
the operations replayed.  A restore takes any of a set of archives, keeps the
counters' floor, and reloads the guard, which may fail (`misled`).

**FileSwap** has the three file names (live, aside, staging) holding versions,
the handles as the version each is open on, the gate as the readers inside and
a fence, and the steps of `activate` with every outcome of every file operation.
`MaxFaults` and `MaxCrashes` bound the failures.

**AgentSession** has a process per connection from the upgrade to the end of
`serve`, and one panel operation at a time (`agents_admin`).  `stray` records
writes by a session that was no longer entitled to make them.

**ProbePush** has editors (panel handlers), the sessions of one node, the
outbound queue, the socket's window and the agent's probe loops with a
generation number per loop, which tells a restarted loop from a kept one.
Handlers overlap as they like; `overlapped` is history, the sessions for which
an edit was saved while another handler held the list it had read.

**OutageWatch** has the nodes' rows, `Watch`, and history variables for what
was announced.  A sweep is one step, since it samples its inputs at the start
and nobody else writes the mark; a failing write cuts it at any node, and a
failing read of the traffic leaves it to go on without (`Completes`).  Each node
has its own billing period, which ends or is moved by an edit of the reset day,
and its counters belong to the period they were stamped with (`Reached`).  The
grace and percentage settings are constants and every node has an allowance;
nodes are not deleted, and a restore, which may replace the marks, is not
modelled here.

**Traffic** has one node's row of `traffic`, the machine's kernel counters, boot
and counted interfaces, a calendar of months of any lengths, and as history the
bytes that really crossed the interfaces and what was booked on each day.  A
report is one step (the writer's transaction), in one direction for both.  A
restore of an older row is not modelled: it is a row like any other, with an
older baseline.

**LivePanel** has one tab, either page, and the Hub as far as the tab can see
it.  A run of `useNodes`' effect is a generation with its own `closed`, socket,
poll and reconnect, because what an old run left in flight still lands in the
one copy of React's state.  A request carries the cookie of the moment it was
sent, is answered from the Hub's state of a later one, and lands later still;
`calls` holds it.  React runs effects in the step that changes their
dependencies (`Asked`).  `astray` and `late` are history, for the exceptions in
section 3, and `signed` is the session the page signed in to.  People, other tabs, the network and restarts share one bound,
`MaxEvents`.

**RestoreUpload** has the browser's `upload` and the Hub's `db_restore`, one
process each per attempt, over inodes and the one name they meet under.  A
request the browser gave up on goes on at the Hub (`cut`): it may never arrive,
break off, be dropped with its handler or complete.  The archive is unpacked
piece by piece while others may still write to it.  A restore ends every
session but the caller's, also those of uploads that have not begun (`kicked`).
The switch itself is
`FileSwap`'s and works or fails as a whole.

Every module defines `TypeOK`; a run checks it where the types say more than
the shape of the state (the channel's and the batch's limits, the watcher's
clocks), elsewhere it documents the variables.

The `MC*` modules instantiate constants and symmetry.

## 3. Runs

See `PROJECT.json` for every run's properties.  Runs that pass:

| Run | Instance | Shows |
|---|---|---|
| `queue_safety` | 3 calls, channel 2, batch 2 | no write straddles a restore; replies are true; channel order; the counters between their updates; refinement of `AtomicWrites` |
| `queue_live` | 2 calls, channel 1, batch 2 | calls return, close drains |
| `session_safety` | 2 nodes, 2 connections, 2 tokens, 2 databases | entitlement, order of reports, the map |
| `session_live` | 1 node, 2 connections, 2 databases | operations finish, retired sessions end |
| `swap_safety` | 2 readers, 3 versions, 2 faults, 2 crashes | readers, handles, rollback, lock; a switch keeps the served file on disk at every step |
| `guard_safety` | 1 node, 1 probe, 2 stamps, batch 3, 2 archives | keys never clash, no orphans, fresh ids |
| `push_safety` | 2 handlers, 2 connections, 1 probe with 2 specifications | current list, timers, a begun push takes effect |
| `watch_safety` | 1 node, 9 sweeps, 2 days on which a period may begin, 1 fault | alerts alternate, grace, flapping, steps |
| `traffic_safety` | 1 interface, 2 bytes, 2 upheavals, 3 days over a month end | exactly what crossed is booked; the figures are the calendar's |
| `upload_safety` | 2 uploads of 2 files, 5 pieces in chunks of 2, 2 faults | a cancelled restore changed nothing; who starts over with a session is refused nothing |
| `panel_live` | 1 tab of either page, 2 events, 2 requests in flight | timers and sockets are never doubled or left behind; a page keeps trying; what is shown is live and entitled in the end; who has signed in gets the panel |

Why the bounds suffice: each is the smallest at which the hazard's actors all
exist.  Three jobs are a batch of two and a job set aside behind them, or a
replacement with one job on either side.  Two connections of one node are a
reconnect; two nodes are needed for a restore to hold two session locks.  Three
versions are an original and two switches, two faults one in the switch and one
in its way back.  One node id and one probe id suffice for an id issued twice
and for an orphan, since both are about one id before and after a deletion and
a restore; two stamps are an old and a new row, a batch of three a duplicate
plus one more.  One probe with two specifications can be added, changed and
removed; the agent's limit is not reached with it, and no push changes one probe
and keeps another, which the theorem covers (two probes under a limit of one
pass as well, with one editor, in more states than a routine run has time for).
Nine sweeps are an outage, a return and a second outage that outlasts
`FLAP_GRACE`.  In `session_live` one token is issued, so a node is deleted and
not rotated; rotation takes its locks as deletion does.  In `traffic_safety` the months have three,
two and three days and the days are those around the second month's end, so
that a reset day of three is clamped; `i64::MAX` is two, so that a correction
and two bytes exceed it; two upheavals are an interface that leaves and
returns, or a reboot after a reset.  In `upload_safety` five pieces in chunks of
two are a first, a middle and a short last chunk; two uploads are an abandoned
attempt and the next, or two operators.  (Three uploads pass as well, with
smaller files, outside the five minutes of a routine run.)  In `panel_live` two
events are a session that ends and a lost stream, a sign-out elsewhere and a
sign-in, a restart and a lost request; two requests in flight are what it takes
for answers to cross.  The invariants of `LivePanel` are proved for any number.
Where a theorem exists the bound does not
matter.

The run in which the code does something else than it says (`findings` in
`PROJECT.json`):

| Run | Property | What happens |
|---|---|---|
| `swap_crash` | `ServedOnDisk` | the file set aside is deleted by the switch after a crash |

Three more such behaviours are in the models and have no run of their own:

* a ping whose send fails leaves `serve` without `release` (`SendFails` of
  `AgentSession`), so a machine that left the network stays online until
  another session replaces its entry, which the comment at
  `server/src/agent_ws.rs:297` says the ping is there to prevent;
* two panel edits at once: one handler reads the list, the other saves, reads
  and sends, and the first sends its older list last.  Nothing in `api.rs` orders
  the handlers of `save_ping_task` and `delete_ping_task`, and the agent keeps the
  older list until the next edit or reconnect, against the comment at
  `server/src/agent_ws.rs:613`.  `AgentRunsCurrentList` excepts exactly these
  sessions (`overlapped`); without the exception `push_safety` is violated;
* a traffic step announced before a restart is announced again when the first
  sweep afterwards fails to read the traffic: `all_traffic` then yields nothing
  (`db/mod.rs:1197`) and `primed` is set all the same, although the comment at
  `server/src/notify.rs:491` has that sweep record the steps already reached.
  Without the exception below TLC shows it in six steps.

`Accounting` also makes plain what `queued` counts: every call from its increment
in `submit`, those still blocked on the full channel included, where the comments
at `db/mod.rs:398` and `db/mod.rs:792` speak of operations accepted and not yet
answered.

What the passing properties except, and why:

* `WriteGuard`: states after a restore whose guard reload failed (`misled`).  The
  code logs the failure and goes on with a cache of the replaced database.
* `WriterQueue` takes a job's execution to be all or nothing.  `save_facts`
  (`db/mod.rs:1126`) runs alone, outside a transaction, and its UPDATE stands when
  the SELECT after it fails: that caller is told of a failure whose write took
  effect, and `AnswerIsTruth` does not speak of it.
* `AgentSession`: a loop blocked in a send to a peer that does not read is not
  modelled, so `RetiredEnds` speaks of loops whose sends complete or fail.
* `ProbePush`: overlapping edits, as above, and a session whose queue was full
  when a list was pushed (`missed`) or whose list could not be read and was sent
  empty (`blank`).  `EditTakesEffect` asks that the current list run at some moment;
  an older one that overwrites it afterwards is `AgentRunsCurrentList`'s concern.  The comment at
  `server/src/agent_ws.rs:624` leaves a full queue to the silence detection,
  but while the loop waits in a send to a peer that reads slowly its heartbeat
  does not run either: the session lives on with the older list.
* `OutageWatch`: a node whose mark was written by a sweep that failed at a later
  node (`muted`).  Its outage is never announced and its return is, although
  the comment at `server/src/notify.rs:543` says that a return is announced only
  after an offline alert.  It takes two nodes; without the exception TLC shows
  it with `Last = 2`.
* `OutageWatch`, traffic steps: `StepsOnce` forgets what was announced when a
  correction takes the counter below it, when the reset day is edited (edited
  there and back, the old period's counters show again and are announced again),
  and when the first sweep of a process records nothing, for want of a channel or
  because the read failed.  The history `crossed` is cleared in just these steps.
* `AgentSession`: the country lookup (`locate`) runs beside its session and is
  not part of `ReportsStayEntitled`.  It can write after a restore retired its
  session, although the comment at `server/src/api.rs:1467` says that no old
  agent write can outlive the restore.
* `Traffic`: after an edit of the reset day the month may show less than was
  booked in the period, until the next period or correction; it never shows
  more.
* `LivePanel`, the panel: a list that lands after the 401 that stopped it
  (`late`).  `receive` does not look at `closed`, so the panel is shown again,
  marked connected, and nothing updates it until a reload.
* `LivePanel`, the status page: it asks `/me` once, when `closed` becomes true.
  When that answer is lost, overtaken by an older one or belied a moment later
  (`astray`), the page stays on a list that stopped updating, which the comment
  at `web/src/App.tsx:69` says it does not.
* `LivePanel` also has, and its properties allow: a panel that is stopped by its
  own change of credentials, when a poll with the old cookie meets the dropped
  sessions, and asks for a sign-in although its new cookie is good (the comment
  at `server/src/api.rs:1655` has the caller not "logged out by their own
  change"); a status page that stays on its notice after it was opened again,
  until a reload; a stream that goes on serving its own session after the
  browser's cookie moved on.
* `RestoreUpload`: a restore empties the session table, so whoever starts over
  from a page it signed out, the page whose last answer was lost included, is
  refused until they sign in (`kicked`).  `Genuine` also asks for a whole archive to
  its last piece, where the code does not look at the trailer of the gzip stream.
* `RestoreUpload`: `RetryWorks` speaks of uploads that meet no other.  Two that
  meet splice, and although the digests let only a whole backup through, the one
  told "restored" need not be the one whose file went in; the comment at
  `server/src/api.rs:1415` expects a failed upload.

Deadlock is checked except in `ProbePush`, `RestoreUpload` and `LivePanel`, where
edits, uploads and events are bounded and a system in which nobody does
anything more is simply idle.

Each property has a mutant, a variant of a mapped definition with a plausible
bug under which TLC finds the property violated; the variants stand next to the
definitions they replace, marked "Mutant".

## 4. Fairness

`WriterQueue`: weak fairness of the writer's thread and of every call's own
steps, strong fairness where a call competes for the sender's mutex or for room
in the channel (the channel and the mutex serve waiters; a caller is not
overtaken for ever).  `close` is not forced to happen.  `AgentSession`: weak
fairness of a session's task, of the report it runs and of the panel's
operation once begun; strong fairness for taking a lock that is free again and
again.  Peers, network events and new operations are not fair: an agent may
keep silent for ever.  `ProbePush`: weak fairness of handlers, of the serve loop
and of an agent that is reading; edits, connections and freezes are not fair.
`LivePanel`: weak fairness of the timers, of the Hub's answers, handshakes and
ticks, of what is on its way to the page, and of the Hub's restart (its service
manager starts it again).  People, other tabs and failures owe nothing.

## 5. Proofs

Every safety property the runs check is proved, for every value of the
constants.  Each proof module opens with its argument.

`WriterQueueProofs`, for any set of jobs, any channel size and any batch size.
`QueueTypes` (`TypeOK`) and `WritesNeverStraddle` (`NoStraddle`): `NoStraddle`
speaks of files and only of committed jobs, the code compares generations.
`StampInv` ties the two together, `HeldInv` says that what travels to the writer
was built, and `BatchInv` which jobs the writer holds at each of its steps and
which of them it has compared.  `RepliesAreTrue` (`AnswerIsTruth`),
`CommitsFollowTheChannel` (`CommitOrder`) and `CountersLeadReplies` (`Accounting`)
rest on `Way`: the channel takes a job once, what is queued, set aside or in the
batch was sent and is not answered, what the writer is about to reply is what
the log says, and in `Precedes`, the order in which the channel took the jobs, the log
comes before everything undecided, the batch before the job set aside, and that
before the queue.  So an undecided job is not in the log and a commit only
appends to the order.  `Refinement` (`ImplementsAtomicWrites`) uses all of it: a
commit is the moment the abstract writes take effect, a batch of several maps
to a step that applies them together, everything else to a call, a return or a
stutter.

`AgentSessionProofs`, for any number of nodes, connections, rotations, deletions
and restores: `ReportsNeverStray` (`ReportsStayEntitled`), `OneReporter`
(`OneReporterPerNode`), `ServedIsOnline` (`ServedMeansOnline`) and
`OnlineIsEntitled` (`OnlineMeansEntitled`).  None is inductive.  A session that is
handling a frame is in the map, or awaited by the operation that took it out
(`ServedInv`); whom an operation awaits is still entitled, and one per node
(`WaitInv`); an operation changes the database only when it awaits nobody, and
then for the nodes it took out of the map (`OpInv`); the state lock is a frame's
exactly while the frame is handled (`LockInv`).

`WriteGuardProofs`, for any number of nodes, probes and stamps, any batch size
and any archives: `NeverClashes` (`TelemetryNeverClashes`), `ForeignKeysHold`
(`NoOrphans`) and `IdsNeverReturn` (`IdsAreFresh`).  They rest on `Consistent`, a
relation between a database and the cache: the rows are related, the cache knows
exactly the nodes and assignments, and no row is newer than the stamp cached for
its key.  It has to hold of the committed database and of the one an open
transaction sees, with the same cache (`CacheInv`), because a stamp may run ahead
of the table but never fall behind it.  That the newest of a set of stamps
exists (`NewestIsUpper`) is derived from the well-foundedness of the naturals.

`ProbePushProofs`, for any number of connections, probes and edits, any queue
and any window, with any number of panel handlers at once.  `CurrentListRuns`
(`AgentRunsCurrentList`): `PipeInv` follows a list through the queue, the hands of the
serve loop and the connection: the last one on that way, or what the agent runs
when there is none, is the database's, unless a handler has yet to push one.
`HoldInv`, the list a handler holds is still the current one, is where an edit
saved meanwhile matters, and why `overlapped` is excepted.  `TimersKeepRunning`
(`TimersSurvive`) has no such exception: a loop was started by a list already
applied (`TimerInv`), so a loop that starts again is told from one that goes on.

`FileSwapProofs`, for any number of readers and any bounds on faults and
crashes: the type invariant, `ReadersSafe` (`ReadersSeeLive`), `HandlesTogether`
(`HandlesAgree`), `RollbackWorks` (`FailureKeepsOriginal`), `LockIsLast`
(`LockCoversHandles`) and `SwitchesKeepData` (`SwitchKeepsServed`).  The
strengthening says, for every step of `activate`, where each handle is
(`HandlesInv`), that the steps between closing and reopening hold the gate with no
reader inside (`ReaderInv`), that the lock is held whenever a handle is open
(`LockInv`), where the original is while fewer than two operations have failed
(`RollbackInv`), and under which name the version in service lies whatever has
failed (`ServedInv`).

`NodeProofs` has the theorems of `OutageWatch` and of `Traffic`.  It extends both,
which is why the specification of `Traffic` and its parts carry its name.

Of `OutageWatch`, for any number of nodes, sweeps, faults, periods and grace
settings: `WatchTypes` (`TypeOK`), and four action properties that relate a step to
what earlier sweeps, of this process or another, have said.
`AlternationHolds` (`AnnouncementsAlternate`) rests on `MarkIsWord`: outside `muted`
a node is marked on disk exactly when the last announcement about it was its
outage.  `GraceHolds` (`GraceRespected`) rests on `AbsentSinceSighted`: an absence
clock began after the last sweep that saw the node and after the process did.
`FlappingStaysQuiet` (`FlappingIsQuiet`) rests on `FlapInv`: since this process
announced an outage, the node has returned and the absence counted now is
younger than that, or it is still marked and the absence announced still
counted; a write that fails between the clock and the mark falls into the first
case.  `StepsAnnouncedOnce` (`StepsOnce`) rests on `StepInv`: no announced step lies
above the counter, and once the watcher has swept, the step it recorded in the
node's present period covers all that were announced.

Of `Traffic`, for any finite set of interfaces, any calendar, reset days,
corrections and largest figure: `TrafficTypes`, `OnlyWhatCrossed`
(`BooksOnlyWhatCrossed`), `AllThatCrossed` (`BooksAllThatCrossed`) and `FiguresHold`
(`FiguresMatchCalendar`).  The last speaks of `period_start`, as the code does;
`PeriodIsLatestReset` says that this is right: it is the last reset day that has
come, moved to the end of a month too short for it, and no other lies between
it and the day.  A reading and a ledger are sums over sets of any size, so
the module first derives what a sum does when one value changes, an element is
taken out or a day is added (`SumFollows`, `SumTakesOut`).  Induction is by the
smallest subset a fact could fail for (`Smallest`), from the well-foundedness of
the naturals, since the induction theorems of the library take the predicate as
a parameter, which the installed provers cannot instantiate.  Booking rests on
`CountersInv`: under the row's boot, the interfaces of the row's epoch have climbed
by at most what crossed since its report (`NoneTwice`), because an interface made
anew only lowers their sum and a reboot ends the boot; and by exactly that
while no upheaval came between and all interfaces count (`NoneLost`).  The figures
rest on `FiguresInv`: nothing is booked ahead of today (`FutureIsEmpty`), the day's
figure is today's entry or the entry is empty (`DayFigure`), and the month is at
most what was booked since its start, and, before any edit of the reset day,
all of it, or nothing was booked since the period began (`MonthFigure`).  Midnight
is where these meet: by `PeriodOvernight` a period goes on or begins with the new
day itself, in months of any lengths, so no day falls between two periods.

`LivePanelProofs`, for any number of events and of requests in flight:
`TimersNeverDouble` (`OneOfEach`), `NeverGivesUp` (`KeepsTrying`) and
`StopMeansSignIn` (`StoppedAsksSignIn`).  They hold only together (`RunOK`, per run
of the effect): a reconnect replaces no socket because it is armed only where
the socket is gone; it may fail to make one because the poll is armed beside
it; a frame cannot bring a stopped panel back because only the current run has
a socket, and none once it is closed.  `Budget` pays for every run of the effect
with an event.

`RestoreUploadProofs`, for any number of uploads and files, any file and chunk
size and any number of faults.  `CancelledMeansUnchanged` (`CancelHolds`) follows
the last piece of a file.  `Progress`: an upload is committed exactly when its
last request is on its way, and one that is or may be cancelled has not sent
it.  `Sound`: wherever the last piece of a file is found, on the disk or unpacked,
however files were spliced, cut back and grown around it, some upload of that
file is committed.  `StartingOverWorks` (`RetryWorks`) follows an upload that met
nothing: while its page waits nobody else has a request under way (`Alone`), and
the disk holds exactly the pieces it has sent (`Kept`), so none of its offsets is
refused; one that starts from an ended session gets no further than its first
request (`Stands`).

Assumptions: the named `ASSUME` on each module's constants, which TLC evaluates
in every run.

Model-checked only:

* Liveness (`ShownIsLive`, `SignInResumes`, `EveryCallReturns`, `CloseDrains`,
  `OperationsFinish`, `RetiredEnds`, `EditTakesEffect`): fairness and `ENABLED` are
  outside the prover's reach.

## 6. Plan

1. Models, in this order: `AlertDelivery` (queue, retries, full queue),
   `Housekeeping` (renewal, maintenance, digest once a day, first run), the
   throttle and the password gate, `LiveSeats` and the registration window of
   `api.rs`, `CountryDb` (download, cancel, install), `AgentLoop`
   (silence and back-off), then a module composing `AgentSession` with
   `WriterQueue`'s abstract `AtomicWrites`.
2. Proofs: the safety properties of every new model, with the models; those of
   the existing ones are proved (section 5).

## 7. Not modelled

* The Rust code of section 1 marked "planned".
* The archive format and the staging build of a restore (their outcome is an
  input of `RestoreUpload`, `FileSwap` and `WriteGuard`), schema DDL, the rest of
  `agent/src/collect.rs` (reads `/proc`), `distribution.rs` and `frontend.rs`
  (static files): I/O without state of its own.
* The rest of the pages.  Of the about 7,300 lines of TypeScript in `web/`,
  `admin/` and `shared/`, the code that keeps state across requests is `useNodes`,
  `App`, `Login` and `upload`, which are modelled; the other sections are forms
  over one request each, and drawing (charts, globe, tables, translations), in
  which nothing interleaves.
* Everything else in JavaScript in the repository, about 45,000 lines, is not
  part of the running system: the vendored skills under `.agents/`, the design
  prototypes under `designs/`, build and end-to-end test scripts.  A count of
  JavaScript lines therefore says little about this project: the Hub and the
  agent, where the state is, are Rust.
* Installers, release scripts, benchmarks.
