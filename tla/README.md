# A TLA+ model of the JARVIS daemon

JARVIS is a local agent daemon. A client (CLI, HUD, chat) starts *runs*; a
driver task takes each run through a closed state machine, calling a language
model and tools; calls that policy does not simply allow wait for a person; all
of it is recorded in SQLite, can be stopped at any time, and must survive the
death of the process. Around that core the daemon starts runs by itself
(schedules, mail and file triggers, webhooks), tells the owner what happened
(an event stream, announcements, approval cards in a chat) and holds sign-ins to
remote servers. This directory models the core, the way the daemon shuts down
and these services, checks them with TLC on small instances and proves all of
their safety properties with TLAPS for every instance.

## 1. Inventory

| part | code (under `src/`) | state it keeps | operations | what is hard |
|---|---|---|---|---|
| run driver | `apps/jarvisd/src/executor.rs`, `crates/jarvis-core/src/run.rs` | the loop's counters and the call it resumes | drive, advance, check for Stop, generate, tool round, park, resume, settle | each write is a read, an await and a guarded update; two drivers of one run; a Stop between any two statements |
| run repository | `crates/jarvis-storage/src/run_repository.rs`, `session_repository.rs` | `agent_runs` | insert, transition, settle, request cancellation of a family, settle parked, withdraw approvals, recover | one transaction per operation, several operations per request |
| tool pipeline and ledger | `apps/jarvisd/src/tool_pipeline.rs`, `tool_call_repository.rs`, `tool_outcome.rs` | `tool_calls` | admit, hold, authorize, submit, record, resume, settle orphans | exactly the effect may not be repeated; a crash between submit and report |
| approvals | `apps/jarvisd/src/gateway.rs`, `run_service.rs`, `approval_repository.rs` | `approvals` with the held arguments | create, link, attach, decide, lapse, withdraw, release, continue | decidable before the run is parked; decision, release and continuation are three tasks |
| startup recovery | `apps/jarvisd/src/lib.rs` | none | orphaned calls, arguments, runs, withdrawals, in that order, before the listener binds | must account for every point at which the process could have died |
| work admission | `crates/jarvis-core/src/work_admission.rs` | phase, number of permits | admit, reserve, commit, close, drop | work is published under one permit and executed under another |
| stop, restart, drain | `apps/jarvisd/src/stop.rs`, `settings_service.rs`, `shutdown.rs`, `shutdown_repository.rs` | none of their own | check and decide; signal, cancel, read, settle, certify | readings at different moments have to add up to one fact |
| coding jobs, managed processes | `code_delegate_async.rs`, `delegated_task_repository.rs`, `process_tools.rs` | `delegated_tasks`, a process registry | create, launch, queue, dispatch, poll, finish, stop, resume; start, supervise, clean up | permit gaps; a failed cleanup during cancellation; a Stop that signals nobody |
| sub-agents | `delegate.rs`, `dispatch.rs`, `session_repository.rs` | `parent_run_id`, family stops | admit, wait, deliver | Stop of a family against an admission |
| run events, SSE, the console's follow loop | `run_event_repository.rs`, `sse.rs`, `hud/hud.js` | `run_events`; a cursor per connection | append, settle with the terminal event, connect, resume, page, close | every read of the stream is its own statement; lost connections; an early close |
| schedules | `schedule_service.rs`, `schedule_repository.rs`, `core/schedule.rs`, `resume.rs` | `schedules` rows with `next_fire_at`, `last_run_id` | read due, claim, start, record, pause, resume, delete; continue after a restart | a death between claim, start and record; stale rows of a pass |
| announcements | `schedule_service.rs` (`ResultWatcher`) | what was seen, pending, asked, in memory | look at tasks, runs, approvals; hold in quiet hours | restart, failed reads, the end of quiet hours |
| triggers | `trigger_service.rs`, `trigger_repository.rs` | `triggers`, `trigger_events` | claim a poll, list, baseline, claim an event, start, record | the poll works on a stale row; a bounded list; budget read once |
| webhooks | the same two files | reservations in `trigger_events` | look up, check the hold, reserve, start | concurrent retries with one id; clocks read before the transaction |
| approvals over Telegram | `telegram.rs` | an offset file, the cards that were sent, the tapped approvals | poll, save the offset, decide a tap, edit a card; send and retire cards | two tasks edit one card; replayed updates; lost calls |
| sign-in to a remote MCP server | `mcp_oauth_account.rs`, `mcp_oauth_service.rs`, `mcp_secrets.rs` | two private files; epoch, pending sign-in and block flag in memory | save app, begin, complete, refresh, disconnect | late answers over awaits, failed writes, a death after a refresh token was sent |
| other chats, MCP host and server | `inbound_approvals.rs`, `mcp_host.rs`, `mcp_serve.rs` | waiting questions, connections | issue, answer, call | not modelled |

The parts interact through the database (every writer re-reads and guards its
update with the state and version it read), through `tokio::spawn` (a decision
spawns the release, the release spawns the continuation) and through the shared
admission gate. Voice, documents, web, connectors, model providers, the
sandbox, the CLI and the HUD are I/O, parsing or presentation and are not
modelled; `PROJECT.json` lists each with its reason.

What makes the parts correct:

* a tool call has its effect at most once, never without the consent it was held
  for, never after a Stop that came before its submission, and its record never
  lies about it, across deaths and concurrent resumes;
* settled runs, decided approvals and resolved calls stay as they are;
* a stopped run settles; after a restart nothing is left half-way;
* a parked run is carried on when its question is answered, by one driver;
* a drain that reports success, or a Stop that is accepted, interrupts and
  leaves nothing; a drain ends; a failed cleanup is reported;
* a due time, a message or a delivery starts at most one run, within its budget,
  whatever fails or dies between its claim and its start;
* a stopped coding job starts no agent it had not started, ends, and never reads as
  completed;
* a run moves only under an event of its own, whatever its drivers lose; log and
  row agree on whether and how it ended; a console that follows it is shown the log
  in order, without a gap, to the end; a result or a question is announced, once;
* an update of the chat is handled once, a card says what happened and is never
  left with live buttons by both of its keepers;
* a grant that would be used is of the newest consent and was not consumed.

## 2. Modules

| module | what it is |
|---|---|
| `RunTables` | the two closed transition tables (`RunState`, `ToolOutcome`) |
| `HeldCalls` | runs, tool calls, approvals, Stop, death and recovery, composed: the same rows are written by all of them |
| `EffectGate` | the abstract promise of the tool-call ledger; `HeldCalls` implements it |
| `MCHeldCalls` | the instances of `HeldCalls` |
| `HeldCallsProofs` | type correctness of `HeldCalls` |
| `HeldCallsLedgerProofs` | the inductive invariant `LedgerInv` and the four safety invariants |
| `HeldCallsGateProofs` | the refinement and the action properties, a restart's among them |
| `Shutdown` | admission gate, stop and restart requests, drain |
| `MCShutdown` | the instances of `Shutdown` |
| `ShutdownProofs` | type correctness, the quiescence invariant and its consequences, failed cleanups |
| `RunLog` | the row and the event log of one run, the drivers and others that write them |
| `RunStream` | the stream of that log and the console that follows it |
| `Announcements` | the result watcher |
| `CodingJobs` | coding jobs handed to an agent: launch, queue, Stop, worker, restart |
| `MCFollowing` | the instance of the last four |
| `FollowingProofs` | the proofs about the last five |
| `Schedules` | scheduled tasks |
| `Triggers` | one mail or file trigger |
| `Webhooks` | concurrent deliveries to one webhook |
| `Telegram` | the chat bridge and the approval watcher |
| `OAuthAccount` | the sign-in of one remote server |
| `MCAutomation` | the instance of the last five |
| `SchedulesProofs` | the proofs about `Schedules` |
| `TriggersProofs` | the proofs about `Triggers` and `Webhooks` |
| `AutomationProofs` | the proofs about `Telegram`, `OAuthAccount` and `MCAutomation` |

### HeldCalls

Rows are variables indexed by run or call (`runState`, `runCancel`, `outcome`,
`linked`, `apState`, `apArgs`); `lapsed` stands for time passing `expires_at`.
`held` is policy's verdict on the call. A task of the daemon occupies a slot of
`Tasks`: `kind` says whether it drives a new run (`fresh`), a continued one
(`resumed`), serves a client's own call (`client`), releases an approved call
(`release`) or settles a run whose driver failed (`abandon`); `pc` says where it
is. What was spawned and not yet polled is in `drives`, `releases`, `denials`;
the rest of a Stop request is in `stopping` and `withdrawing`.

An action is one statement or transaction, and everything its task does up to
the next await is part of it. `advance` and `settle` are two actions each: the
re-read (`Advance`, `Settle`) and the guarded update (`Transition`,
`SettleRun`). `fresh[t]` is the version guard: it is true between a task's read
of the run and the next write of that row by anyone (`BumpVersion`), so the
version counter itself, which is unbounded, is not needed. Parking writes three
states one after the other (`todo`). `record_hold` is three actions. Startup is
a sequence of stages (`boot`), and clients are served only after the last.

Abstractions: model turns end in one of four ways whatever was said; policy
either allows or holds (a denied call never reaches the ledger); arguments are
present or absent; the adapter performs the effect or not and reports
truthfully or says it does not know, which is what the adapters' contract
(`ToolOutcome`) asks of them; rate-limit waits are model turns a Stop can cut
short. `Parent` gives families of depth one, which is what
`check_delegated_admission` enforces. A failing database is not modelled in this
module: every statement either runs or the daemon dies around it.

History variables: `effects` counts what the adapter did, `barred` collects the
calls a Stop found not yet submitted.

### EffectGate

A call passes a gate once, with consent if consent was asked for and not after
revocation; its effect happens at most once and only behind the gate; one
verdict closes it. The refinement maps `outcome` to the gate (`gateOf`), policy's
hold and the approval to consent (`consentOf`) and `barred` to `revoked`.

### Shutdown

A job is a run, a run without an executor (`undriven`), the continuation of a
parked run, a coding job or a managed process. `stage` follows its publisher and
worker, `row` its durable or registered state. `Holders` are the jobs whose
stage holds a permit, so the gate's counter is derived, and the two permits of a
job (publication, execution) with the gap between them are visible. Requests go
through `Reserve`, `CheckWork`, `Decide` (`RefuseManaged`, `CommitStop`,
`CommitRestart`) or `Abandon` (client gone, state unreadable). A round of `drain_work` is one action per await in the order of
`Following`; `DrainGivesUp` is the grace period and every error return. A Stop
by signal is `BeginDrain` at any moment.

Abstractions: runs are reduced to new, working, parked and settled, since
`HeldCalls` has the detail; the permit of a tool call belongs to the run or
process it serves; a poisoned lock is left out.

`MCShutdown` puts several instances into one run: `cast` names who takes part in a
behaviour. The request scenes are every two of run, continuation and process beside
a Stop and a restart that are not forced; the drain scene is a run nobody drives, a
coding job and a process beside a forced Stop, without the grace period, whose end
would end a drain anywhere. Three jobs beside two requests are left to the proofs
(`ReservationSound`, `AcceptanceSound`, for any number of both).

### RunLog

`row` is the run's state, `log` its events (the position is the sequence). Each of
`Drivers` is a task in `drive_run`: it looks at the run (`DriverLooks`), reads it
again on the way into `advance` or `settle` (`DriverReads`), appends the event
(`DriverAppends`) and then writes the row (`DriverWrites`), each its own statement.
The write is guarded by the state and version that were read: `fresh` says that the
row was not written since, so the unbounded counter is not needed, and `legal` that
the transition table has the move. Nothing keeps a second driver away: `Resume`
spawns one for any run it finds parked, also while the driver that parked it has
still to look again (`held_second`). A driver whose append or write is refused, or
whose statement fails, ends (`DriverErrs`); that of a new run then settles the run
as failed if the table lets it (`DriverAbandons`, `fail_if_unfinished`), that of a
continued one only logs. `settle_run` writes row and terminal event in one
transaction; `append_run_event` refuses a settled run. A Stop's mark does not move
the version and is left to `HeldCalls`; here a driver may settle any run it found
working, and a parked one it holds no decided call for. `since` is history: the length of the
log at the last move.

So an event of a move may stay in the log although its driver lost the write: with
two drivers the log may say working over a parked row, without a death or a failure.
What `StreamExplainsMoves` says is that no such old event can pass for the event of
a later move, and that no move is made without one.

### RunStream

A stream is a cursor with a buffer (`conn`): it delivers what is buffered, reads a
page, then the highest sequence, then the last event, each a step, and closes on
what `run_has_settled` concludes. `client` is the loop of `hud.js`: it resumes
from its last sequence and gives up after four connections. A client may start from
a position it holds (`held`), also one past the end, which the server refuses.
`ShownWithoutGap` says that nothing is skipped and that nothing but the held event
comes again; that even this event should not come again is
`ContinuesFromTheNext`, which `stream_repeat` refutes (section 4).

### Schedules

`tasks` is the table, `pass` the scheduler's own state: the due rows it read,
those it claimed with a compare-and-set on `next_fire_at`, the run it started and
has not recorded. The owner pauses, resumes and deletes between any two steps. A
restart interrupts runs and continues the newest of each session. Cadences are
an interval and a one-off; the clock counts intervals of the tick. `Reenable` makes
one step of the two statements of `set_schedule_enabled`, a read of the row and an
update without a guard (`schedule_repository.rs:285-305`): that is exact for an owner
who sends one request at a time, which the module assumes, and says nothing of two
requests for one task at once.

### Announcements

`watch` is `ResultWatcher`. `Look` is one look: it notes the tasks whose last run
changed, the recent triggered runs, what is finished among the pending ones and
the waiting approvals; any of its reads may fail (`blind`). One window of quiet
hours comes and goes.

### CodingJobs

`job` is the row of each call (one by the unique index on `origin_call_id`),
`worker` the spawned task with what it is about to save, `signal` the permit of
its `Notify`. `CreateTask` is the transaction that checks the call and the Stop of
its family; a worker that is not spawned yet is at `launch`, which is the gap
between row and registration. `StopFamily` only marks rows; `StopJob` also signals
a registered worker; `Poll` is the 100 ms tick that reads the mark. `TakeSlot`
waits for the only slot, `Dispatch` is `mark_delegated_task_running`, `Save` the
saving of the result with its fallback, and `DaemonRestarts` a death with the
settlement of rows at the next start. `barred` is history: the jobs and calls a
Stop found before they were dispatched. What an agent does is an outcome, of which
`spoiled` stands for an error or a failed cleanup; `Shutdown` has the admission
gate, which here may refuse at any time. A repeated call gets its row back and
changes nothing, so it is no action.

### Triggers and Webhooks

A poll is claimed with the row as it was (`poll.baselined`), lists the newest
`ListLimit` messages that match, and then either records them as a baseline or
claims, starts and records them one by one within the day's budget. A message
may stop matching (read, moved) and an older one so enter the list. `backlog` is
history: what existed at creation or at a resume with no poll in hand. In
`Webhooks` each request reads the trigger and the clock, then reserves its id and
its place in the rolling window in one transaction, then starts a run; senders
retry. Deleting a trigger is two statements, events first.

### Telegram

The bridge takes updates in order: it truncates and writes the offset file, then
handles the update; a tap decides the approval, answers the tap and edits the
card. The watcher reads the pending approvals, sends a card for a new one and
retires the card of one that is gone, unless its id is in the set of tapped
ones. Each call to the service or to storage is a step and may fail, a send also
after it arrived. `serve` ends when the token is changed or removed or the service
answers 401, and aborts the watcher; `run` starts both anew, with the offset from
its file and nothing known of the cards that were sent (`ServeEnds`, for the same
bot). It counts as one of the faults `CardHasAKeeper` excuses.

### OAuthAccount

`setupFile` and `grantFile` are the two secrets, each with the random binding of
the setup it belongs to (the number of the owner's act stands for it). A write is
atomic but may report failure after it took effect; a removal fails without an
effect. `operation` is the task that holds the operation lock and what it read;
the owner's `SaveSetup` and `Disconnect` do not wait for it. `consent` is history:
the last act that successfully ended what was there. `spent` are refresh tokens
sent and not renewed by an answer.

### Composition

The rows that runs, calls, approvals, Stop and recovery share are one module,
`HeldCalls`; publishers, workers and requests share the admission gate in
`Shutdown`. The eight services above share no state with each other: they meet
the core only by starting a run, or by being started from a call, one atomic step, so
`MCAutomation` and `MCFollowing` put several of them into one instance with a
variable `focus` that says which one a behaviour explores. This is the union of
their state spaces and not their product, which would show nothing more.

## 3. Runs

All runs set `CHECK_DEADLOCK FALSE`: when every run is settled, or the daemon
has drained, nothing is left to do.

| run | instance | checks | shows |
|---|---|---|---|
| `held_one` | 1 run, 1 call, 2 tasks, 1 model turn a driver, 1 death, fair (151,000 states) | `TypeOK`, `LedgerInv`, `EffectAtMostOnce`, `HeldEffectApproved`, `OutcomeTruthful`, `SettledForever`, `RecordsFinal`, `RestartAccounts`, `ImplementsGate`, `StopSettles` | the ledger's promises under every interleaving of two tasks, decisions, resumes, Stop and a death at every point; a stopped run settles |
| `held_family` | parent and sub-agent, the sub-agent's call made by a client, 2 model turns (2.0 million states) | `BarredHaveNoEffect` | Stop of a parent against the admission of its child |
| `shutdown` | two of run, continuation, process beside a Stop and a restart; undriven run, coding job, process beside a forced Stop, fair (2:40 min) | `ReservationStands`, `AcceptedInterruptsNothing`, `DrainCertifiesQuiescence`, `CleanupFailureReported`, `DrainEnds` | what a request reads stays true until it decides; success of a drain means quiescence and clean cleanup, and the drain ends without its deadline |
| `automation` | see below (949,000 states) | `AutomationTypeOK`, `FireAtMostOnce`, `FiresSpaced`, `PileUpBounded`, `EventStartsOnce`, `BacklogStartsNothing`, `DailyBudgetKept`, `DeliveryStartsOnce`, `RollingBudgetKept`, `UpdateHandledOnce`, `CardTellsTheTruth`, `CardHasAKeeper`, `UsableGrantIsLive` | nothing is started or handled twice, budgets hold, cards are truthful, no late answer restores a grant |
| `following` | see below, fair (256,000 states) | `FollowingTypeOK`, `ShownWithoutGap`, `DoneSawTheEnd`, `SettledIsInTheLog`, `StreamExplainsMoves`, `ToldOnce`, `StopIsFinal`, `FollowsToTheEnd`, `ResultAnnounced`, `ApprovalAnnounced`, `StoppedJobEnds` | a run's moves are explained by its log whichever drivers overlap; what the owner is shown and told; a Stop of coding jobs is final and reaches them |
| `held_wakeup`, `held_second`, `held_restart`, `held_foreign`, `shutdown_refusal`, `trigger_backlog`, `stream_repeat` | the smallest instances | one property each | disagreements, section 4 |

The instances of `automation`: one repeating task and one one-off over four
ticks of an interval of two, three runs, one death, one failed statement and two
requests of the owner; three messages, one of them there at the start, a budget
of one run a day with two starts a poll, two acts and one miss; three deliveries
under two ids, a window of one instant and a budget of one; one approval, two
updates, one death and one failed call; two apps, five acts of the owner, two
refresh tokens, two failed writes and two deaths. Those of `following`: two drivers
over a log of seven events, one failed statement and one death; a client at position
0 or 2 of a log of five events in pages of two that one driver writes, four
connections, one fault and one death; one task and two runs, a look at one recent run, one restart
and one look with failed reads; two coding calls of one run or of two, one spell of
failing statements and one restart.

Why the bounds are enough. Two task slots let any two of driver, second driver,
release, client resume and client call overlap; three add no new pair, and the
invariants relate at most two tasks and one call. One call is enough for the
ledger, whose guards mention one call only; two calls matter where the decision
on one acts on the run of the other, which is `held_foreign`. One death is
enough because recovery removes all volatile state: a second death starts from a
state the first could have reached. The theorems remove these bounds for every
safety property listed in section 5. In `Shutdown` one job of each kind shows
every permit gap, and two requests every race for the reservation. Task slots
are interchangeable, so safety runs use symmetry over them; the liveness runs do
not. In `automation` each fault bound leaves room for the fault and for the
retry after it, and the owner's acts for an act, its reversal and one more; two
ids with three deliveries give a duplicate and a competitor for the budget; two
tokens give one that is consumed and its successor. In `following` two drivers show
a lost write with its event left behind, and seven events leave room for a move,
parking, continuation and a second parking with such an event in between; the
theorems have any number of both. The console reads the log and nothing else of the
run, so it is explored beside one driver; a log of five is longer than two pages, so a stream meets a full page, a short page and the end,
and four connections are the code's own limit; two coding jobs are one that holds
the slot and one behind it, in one family or in two.

Fairness. `held_one` assumes that tokio polls every runnable task (weak
fairness of each task's steps), that a spawned driver is polled although other
work keeps coming (strong fairness of `BeginDrive`, because slots stand for an
unbounded pool), that request handlers and startup run to their end. Nobody is
obliged to decide, resume, stop or die. The drain scene of `shutdown` assumes the
same of workers and of the drain, that a process dies once it is signalled and a coding
agent once its task is cancelled (both trees are killed; an agent has no
deadline unless its owner gave one), and that a notified Stop starts the drain;
a person's request or the end of a process or agent by itself is not assumed; in the
request scenes only the grace period is bound to end.
Model turns end, because the transport has a read timeout. `following` assumes
that an open stream is polled, that the console connects again while it has
attempts left, that a dead daemon is started again, that the scheduler keeps
looking, that quiet hours end; of coding jobs, that a worker and its timer are polled, that
setting up a job ends, and that a signalled agent is killed, but not that an agent
ends by itself, that the queue moves or that anybody stops anything. A run is not obliged to go on: `FollowsToTheEnd`
speaks of a settled run. `LossesLeft` counts the connections a fault may cost, so
that a console is only promised the end while it had attempts for it.

## 4. Where the code and its words disagree

Each of these runs states a sentence of the repository and TLC refutes it; the
quotations are in `PROJECT.json`.

* `held_wakeup` (`ParkedIsWaiting`): a decision taken after `create_approval` and
  before the run is parked is recorded but continues nothing; the run then parks
  with nothing left to decide.
* `held_second` (`OneModelCall`): a decision between the parking write and the
  driver's next read gives the run a second driver; the domain does not refuse
  it, and both have a model call in flight.
* `held_restart` (`RestartLeavesNoOrphan`): a death after a decision, or after
  the released call ran, and before the continuation leaves a parked run that
  recovery keeps and no process will advance.
* `held_foreign` (`ContinuesOnItsOwnCall`): the decision on a client's call
  un-parks a run that waits on a call of its own.
* `shutdown_refusal` (`RefusalDisruptsNothing`): a run whose driver is polled
  while an ordinary Stop checks is turned away and failed, and the Stop is then
  refused because of that run.
* `stream_repeat` (`ContinuesFromTheNext`): `sse.rs:10-11` and
  `docs/api/contracts.md:169-170` promise a resumed stream from the event after the
  held one; the query is `sequence >= ?2` (`run_event_repository.rs:321`) with the
  held sequence itself, so that event is sent again on every reconnection, and the
  console shows it again. `NoGap` proves that it is the only one.
* `trigger_backlog` (`BacklogStartsNothing`): with more existing messages than one
  look lists, an older one surfaces when a newer one is read or moved, and starts
  a run. `BacklogLeftAlone` proves that this is the only way.

In the first five the safety promises of section 5 still hold: no effect is repeated,
unapproved or misrecorded.

Smaller ones, modelled as the code has them and stated by no run:

* ADR-0236 says that a queued coding job rejected at dispatch is recorded as
  failed; `run_recorded_task` returns a cancelled outcome instead (`Dispatch`).
* `sse.rs:31-34` says a stream is closed after its terminal event; a settlement
  between the page and the last-event read closes it before (`sse.rs:258-278`).
  The console comes back, which costs one of its four connections.
* The comments of `advance` and `settle` (`executor.rs:3186-3190`, `3223-3230`) say
  that a cancellation request advances the row's version; `request_run_cancellation`
  leaves it alone (`run_repository.rs:878`).
* `advance` appends the event before the guarded move (`executor.rs:3212-3220`), so
  a driver that loses to a second one leaves an event no move answers.
* `delete_trigger` removes events and trigger in two statements; a poll or
  delivery in hand between them starts a handled event again
  (`trigger_repository.rs:334-355`). Hence `removal = "none"` in the properties.
* A poll in hand at a resume keeps the `baselined` it was claimed with
  (`trigger_repository.rs:357-394`), so it may start what arrived while paused.
* `claim_due_schedules` that fails half-way loses the fires it had claimed.
* A second tap on a card overwrites "Approved" with "That is no longer waiting"
  (`telegram.rs:1020`); a storage failure during a tap retires the card although
  the approval waits; "a crash loses one message and never repeats one"
  (`telegram.rs:658`) fails for a death between truncation and write of the offset,
  which repeats updates (`badWrites` counts it); a send that arrived but was reported lost makes two
  cards, of which one keeps its buttons; cards sent before a restart, or before `serve` ended and began anew, are
  never retired. `CardTellsTheTruth`, `CardHasAKeeper` and `UpdateHandledOnce` say what
  holds around these.
* Results that finish around a restart, and those of continuations, are never
  announced; a failed `find_run` drops a pending result; an approval the first
  look could not read is announced again.
* A disconnect while a refresh has the grant blocked finds no grant and returns
  `Ok(true)` (`mcp_oauth_account.rs:408-426`); the settings page then says that
  the provider confirmed a revocation, although none was asked for.
* A launch that is cut off between the row and its worker (the row cannot be read
  back, the request is dropped) leaves a queued job nobody works on and a Stop cannot
  end; the next start settles it (`Forsaken`). ADR-0237 says so of a crash only.
* A question that lapses undecided leaves its run parked until somebody stops it
  (`approval.rs:675`); the code documents the wait as durable.
* A restart helper that dies after its launch leaves the gate closed
  (`settings_service.rs:600`; `HelperStops` may not wake the daemon).

## 5. Proofs

`tlapm` checks every theorem to its leaves, and every safety invariant and action
property of the passing runs is stated by one. They hold for any bounds and, unless
said otherwise, for finite or infinite sets of runs, calls, tasks, jobs and requests,
under the named assumptions of the modules, which say that the constants have their
types (a parent is a run or none, a budget is positive, forced requests are
requests; messages, deliveries and runs with ids are numbered 1 to n). Beyond
types: the tables of `Schedules` have finitely many tasks, since a pass lists the due
ones; a log has room for its first event and a settlement (`MaxEvents` is at least
2); no watched task has the name `none` or `trigger`, which mark runs of no task.

### The core

* `TypeCorrect`: `Spec => []TypeOK` for `HeldCalls`. `TypeOK` alone is not
  inductive: a step that indexes a row by `tRun[t]` or takes `Head(todo[t])` needs
  `TasksOK`, so the two are proved together.
* `LedgerCorrect`: `Spec => []LedgerInv`. `LedgerInv` is a conjunction of
  `AdmissionInv` (nobody else has a call while its row is inserted),
  `ConsentInv` (about to be authorized means approved), `ExecutionInv` (between
  authorized and the report one task has the call, and the count of effects
  agrees with the row), `RevocationInv` (what bars a call is durable: its run is
  marked, or it can never be created) and `RecoveryInv` (no task exists while
  startup settles rows). At-most-once needs `ExecutionInv` because two resumes may
  both stand before `authorized`, and only the table lets one through;
  `RevocationInv` needs the case of a child that does not exist yet, which the
  admission check closes.
* `AtMostOneEffect`, `ConsentBeforeEffect`, `TruthfulOutcomes`, `StopBarsEffects`
  follow from `LedgerInv`.
* `SettledRunsStay`, `RecordsStay`: the action properties, from the same
  invariant, action by action.
* `RestartAccounted`: `Spec => RestartAccounts`. `StartupInv` says what each stage of
  startup leaves true for the next (past the first no call is in flight, past the
  third no run is interrupted); it survives because before the listener binds only
  startup, time and another death act (`NotServing`). `HeldArguments` says that
  arguments are held only for a question that is open or was answered yes; without
  it the last stage, which looks at those two only, could leave some behind.
* `ResumedByDecision`: a parked run leaves `awaiting_approval` only as `cancelled` or
  after a person answered one of its questions. `DrivenAlone`: two tasks drive a run
  at once only after such an answer, which is what stays true of the single driver
  `held_second` refutes. Both rest on `DriverInv`, checked by TLC on the instances
  `one` and `family` before it was proved: whatever continues a run descends from a
  decision (`DecisionInv`); a run has one driver no decision spawned (`OneStarter`);
  while nothing is decided that driver of a parked run is on its way out
  (`ParkedInv`), which needs parking to be the last write of an errand (`TaskFits`).
* `GateImplemented`: `Spec => ImplementsGate`. Initial states map to initial
  states; each action maps to an `EffectGate` step or a stutter; `LedgerInv`
  supplies the guards (a hand-over finds the gate open, not revoked, with
  consent).

### Shutdown

* `ShutdownTypes`: `TypeOK` of `Shutdown`, with the fact that a finishing coding
  job has a verdict.
* `ReadingsStayTrue`: `Spec => []QuiescenceInv`. The argument is one lemma,
  `JobsOnlyShrink`: while the gate is not open no job can come to hold a permit
  unless it held one, and once no permit is held no row can become unfinished.
  So what a drain or a request has read in the order permits, rows, processes
  is still true when it acts.
* `DrainSound`, `ReservationSound`, `AcceptanceSound` follow from it.
* `CleanupReported`: a worker that met a failed cleanup keeps its row open, and a
  process its registration, until the report is written (`ReportedLater`). A drain
  that found neither therefore comes after the report (`NothingHidden`).

### Following

* `LogAndRowAgree`: every step of any number of drivers is one of four (`RowStep`):
  it leaves row and log alone, appends a non-terminal event to an open run, moves an
  open run the log has announced, or settles it with the terminal event.
* `MovesExplained`: that a move is announced is what `Sound` says of each driver: one
  about to write, with a version that still matches, has its event in the log after
  the last move. An append keeps that for all of them, a write of the row takes the
  matching version from all others (`StaleKeeps`), and a driver that lost reads again
  before it writes. A daemon that is down has no drivers (`DownIsIdle`), so recovery
  cannot overtake one.
* `DoneIsTheEnd`: `ConnInv` says that a stream buffers only sequences the log has,
  which `DoneSawTheEnd` needs because the client decides on what was delivered and
  not on the row.
* `NoGap`: `SeenInv` is the property with what the client remembers of the events
  it was shown; it is not inductive without `FlowInv`, which says that an open
  stream goes on exactly where the client stands, and that a repeat has been paid
  for by a lost connection before it happens.
* `AnnouncedOnce`: `ToldInv` says of every run the watcher follows or has announced
  that no task's row and no list of recent runs brings it up again, which needs
  that runs get their ids in order and that a row names a run of its own
  (`MadeInv`). `AskedInv` does the same for approvals, per failed look.
* `StopSound`: `JobsInv` ties each job's row to its worker (`InStep`) and says of a
  call that was stopped before its agent started that its row can not be marked
  running, also when the row does not exist yet (`Barred`).
* `FollowingTypes`, `FollowingIsSafe`: the same for the instance that is run, the
  moves of the row included.
  Its fairness is not that of the parts, since a behaviour explores one of them;
  no safety proof uses fairness.

### Automation

* `FiresOnce`, `FiresApart`: `FireInv` orders the fires there were, the claims in
  hand and `next_fire_at`: a claim has moved its task past the time it claimed
  (`Claimed`), until its start no fire is as late (`Waiting`), and the next fire is
  past every fire (`Ahead`). The properties speak of runs only and say nothing about
  a pass that stands between a claim and a start.
* `PileUpSound`: `PileInv` counts the runs of a task that go on. The check before a
  start sees the last recorded run only, so the invariant excuses that run, or the
  one about to be recorded, and charges every other to a death or to a statement
  that failed. The check, the start and the recording are three steps, and the
  bound is a different one between them.
* `DeliveriesStartOnce`: `DedupeInv`; a request about to start holds its id alone.
  `RollingBudgetSound`: the rolling window is inductive by itself, because a
  reservation counts every other one since a minute before its own instant, later
  ones included; the proof splits on whether a window contains the new one.
* `EventsStartOnce`, `BudgetKept`, `BacklogLeftAlone`: `OnceInv` (what started is
  claimed, and the poll at a start holds a claim nobody else acts on), `BudgetInv`
  (recorded runs plus the poll's unused allowance stay within the budget; a start
  without a recording is a miss or in hand) and `BacklogInv` (once baselined, what
  is old and still matches is claimed). The last needs the hypothesis
  `ListLimit >= Cardinality(Messages)`; the run `trigger_backlog` shows that it
  cannot be dropped.
* `UpdatesOnce`: `FreshAt` says, by the place of the bridge, which updates the
  offset in memory, the offset in the file and the service would give again, and
  that each of those was handled only as often as a write of the offset failed.
* `CardsAreTrue`, `CardsAreKept`: `WatcherInv` and `TapInv` say where the two tasks
  are and what the approval was when they last saw it; a tap that decided finds its
  own decision when it edits the card. `KeeperInv` adds that, while nothing died or
  failed, a tapped card is under a tap in hand or has lost its buttons.
* `GrantsAreLive`: `UsableGrantIsLive` alone is not inductive, since the block flag
  dies with the daemon. `LiveInv` says it of the file without the flag
  (`FileLive`), that a pending sign-in and an operation at the epoch of the memory
  are of the newest consent (`PendingLive`, `OperationLive`), and that there is no
  grant file while a refresh is under way. Every stamp in a file was drawn before,
  so a new binding matches no old grant.
* `AutomationTypes`: the types of the five services do not stand alone (the run to
  record, the event in hand, the tapped card), so they follow from each service's
  invariant; those of the sign-in also need `StampInv`, that every stamp is one of
  the owner's acts. `AutomationIsItsParts`: every behaviour of the instance is one of
  each service, so the theorems above hold of what the run `automation` explores.

### Only model-checked

Liveness (`StopSettles`, `DrainEnds`, `FollowsToTheEnd`, `ResultAnnounced`,
`ApprovalAnnounced`, `StoppedJobEnds`), since fairness and `ENABLED` are outside the
prover; and the refuted sentences of section 4, which are false.

## 6. Not modelled

In the modelled parts: database errors inside a running daemon in `HeldCalls`,
usage accounting, policy evaluation, delegation limits, waiting for sub-agents,
verification rounds, the batch of parallel reads; what a coding agent does, its
worktree and its activity log; daily wall-clock cadences and time zones; what project a task or trigger
belongs to (a fire or delivery may be held for one); poll intervals and the day's
end of a trigger's budget; two requests at once that turn one scheduled task on or
off; pairing, unpairing, a change to another bot and what a chat message starts; the
expiry of tokens (a grant may be due at any time), discovery and the wire of the
sign-in; the retention of old events.

`PROJECT.json` lists the parts left out altogether with the reason for each.
Most of the repository is I/O, parsing, presentation or configuration: memory,
skills, knowledge and entities are single-transaction repositories with ranking;
documents, web and connectors are parsers and HTTP clients; voice and phone are
audio pipelines; the sandbox is made of operating-system mechanisms; the CLI, the
HUD and the diagnostics format what others know. The models therefore cover a
small share of all lines, and the parts where several actors, faults and restarts
meet. The GitHub and Google accounts have sign-in code of their own, close to the
modelled one but not the same, and are not claimed.

## 7. Plan

1. `RunTables`, `HeldCalls`, `EffectGate`: the core (done, proved).
2. `Shutdown` (done, proved).
3. `RunLog`, `RunStream`, `Announcements`, `Schedules`, `Triggers`, `Webhooks`, `Telegram`,
   `OAuthAccount`, `CodingJobs` (done, proved).
4. Sharper theorems about the disagreements of section 4: the condition under which
   each refuted sentence holds. Done for `trigger_backlog` (`BacklogLeftAlone`),
   `held_second` (`DrivenAlone`) and `stream_repeat` (`NoGap`), open for the others.
5. `Delegation`: sub-agents: admission limits, duplicate dispatch by origin call,
   waiting and delivery of results. Properties: limits never exceeded by concurrent
   admissions, one child per origin call, every waiter is answered.
6. Inbound approvals over other chats: the list of waiting questions and its drop
   guard.
