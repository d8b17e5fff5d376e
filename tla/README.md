# Fleet: a verification of its concurrent parts

TLA+ modules, TLC configurations and TLAPS proofs for the parts of the fleet
that decide who works on what, how often, and when it is over (kernel, workers,
task chain), for what they spend and who may (models, usage, pools, approvals),
for what records and shows it (event journal, mail watcher, live channel to the
page), and for the files the console keeps (settings, models and keys, the plan
and its progress, install jobs). Paths are
relative to the repository (`fleet/...`); `PROJECT.json` maps every definition
to the lines it models.

    tlc -workers 2 -config Rework.cfg MCKernel     # a run
    tlapm KernelProofs.tla                         # a proof module

Contents: 1 the system, 2 the modules, 3 the runs, 4 fairness, 5 the proofs,
6 what the code does otherwise than it says, 7 what is not modelled, 8 the plan.

## 1 The system

The repository holds two generations of one idea, a fleet of coding agents
worked through command line tools. Both are live in the code.

**The kernel** (`fleet/kernel`). A SQLite database `kernel.db` with the tables
goals, todos, attempts, quota, outbox, and one class, `Kernel`, through which
everything writes. A *todo* is the unit of work; a worker claims it, holds a
lease on it, and writes back one of four verdicts. A todo that failed is not
repaired: it is `superseded`, and a *successor* carries its `lineage_id` on.

| component | state | operations | talks to |
|---|---|---|---|
| Kernel `kernel/kernel.py`, `state.py`, `store.py` | the tables; per todo its status, holder, lease, lineage, packet | create_goal..., freeze_goal, create_todo, claimable, claim, renew_lease, requeue_expired_leases, mark_running, mark_verifying, transition, reopen, propose_plan_diff, apply_plan_diff, set_quota | called in process by workers, `fleet next`, `fleet writeback`, the console |
| Worker loop `runner/worker.py`, `runner/gates.py`, `harness/runner.py` | the todo of its turn | run_loop: claimable, claim, run the harness with a heartbeat, verify, write back | Kernel, Planner, a harness process |
| Planner `planner/service.py`, `steer.py`, `schema.py` | the plan or change it received | run_plan_todo, apply_plan, run_steer_todo, validate_diff | Kernel, a model |
| Host protocol `cli/main.py` | none beyond the todo id a session holds | cmd_next, cmd_writeback | Kernel, the verify commands |
| Console API `console/kernel_api.py` | an idempotency cache | goal, freeze, reopen, decide, create todo | Kernel |
| Export `kernel/export.py` | the outbox table, a JSONL file | pending, append, mark published | Kernel |

**The task chain** (`fleet/core`, `fleet/manager`, `fleet/rel`, the console
server). A table of tasks with a state machine of ten states, worked by
scheduling loops inside the server and by threads that requests start.

| component | state | operations | talks to |
|---|---|---|---|
| State machine, rows `core/state_machine.py`, `core/db.py` | state and rework_count of each task | transition_and_log, bump_rework | every thread |
| Scheduler `manager/scheduler.py`, `dag.py` | the control bus (mode, confirmations), the list of a tick | run_loop, schedule_once, collect_drafts, get_ready_tasks | Dispatcher, Reviewer |
| Dispatcher, reviewer, rework `manager/dispatcher.py`, `reviewer.py`, `rework_manager.py` | the task of the thread | dispatch, run_to_completion, review, handle_rework, confirm_release | harness, gate, model |
| Reliability `rel/retry_timer.py`, `recovery.py`, `watchdog.py`, `archive.py` | restart counts, archives | scan, restart, rotate | the rows, the server process |

**What both spend.** A role has a chain of models; a router walks it and leaves
events; scans turn events into usage rows and pools.

| component | state | operations | talks to |
|---|---|---|---|
| Models `models/pool.py`, `router.py`, `retry.py`, `transport.py`, `executors/direct.py`, `cli/clients.py` | the chain of a role, attempts of a call | chain_for, call, classify, chat transport | providers, the event log |
| Governance `governance/*` | tables of usage, budgets, approvals | record_usage, scan_events_file, BudgetManager (load, check, consume, limit, reset, sync), request, approve, reject, expire | the event log, the console |

**What records and shows it.**

| component | state | operations | talks to |
|---|---|---|---|
| Event log, archive `core/events.py`, `rel/archive.py` | events.jsonl, a gz per month, a cache and a lock per process | append, rotate_events, read_all | every thread |
| Mail watcher `notify/triggers.py`, `smtp.py`, `launcher` | the line it has handled, in memory and in a file | watch_events_loop | the event log, SMTP |
| Console server `console/server.py` | sessions, connections, cursor of the pump | ws_endpoint, _event_pump, switch, unlock, lock, /api/events | the page, the event log |
| Web page `console/web/src` (useWebSocket, stores auth, plan, task, connection) | a cursor per project, rows, plan, socket, timers | connect, catchUp, switchProject, load | the server |

**The files of the console.**

| component | state | operations | talks to |
|---|---|---|---|
| Settings `core/config.py`, `console/config_api.py` | .env, the parse in memory with its time | load, save of a list, save of a section | every thread |
| Models and keys `core/fleet_toml.py`, `console/config_api.py`, `quickstart_api.py` | fleet.toml, the secrets file, the environment of each process | put, secret put, planner_status, key lookup | workers, router |
| Plan and progress `core/plan.py`, `manager/intake.py` | plan.json beside the rows | update_task, sync_task_state, compute_progress | task chain, page |
| Install job `setup/core.py`, `console/setup_api.py` | the single flight, the job's thread and file | start_install, _run_job | the page, installers |

Not under these heads: notification mails and templates, launcher and intake
texts, executors that start command line tools, memory files, roots, paths,
reports, the SQL migrations. Section 7.

### Where it is hard

* **A read before the transaction.** Each thread has a connection with
  `isolation_level="IMMEDIATE"`: the transaction begins at the first write, so
  the SELECT with which `claim`, `transition` and others check their row runs
  before it, and the UPDATE names the row by its id alone.
* **Leases and late answers.** A harness or a gate runs for minutes; the lease
  may lapse, the todo be taken back and claimed by another, before the answer
  comes. `transition` never asks who writes.
* **Crashes.** A worker is killed between any two kernel calls; only the lease
  ends its claim. The server is killed with its loops, mode and confirmations,
  which are in memory only.
* **A lineage must end.** Attempts are counted per claim, reworks by attempts,
  and leases that lapse, reopenings and plan changes lie in between.
* **Plan changes while work goes on.** An approved change adds, cancels and
  modifies todos that a worker may have picked a moment ago.
* **Two reviewers of one task.** `bump_rework` writes its target without
  asserting the edge, whatever the state has become.
* **A task that nobody takes up.** Each state of the chain must be listed by
  somebody after a crash, a block or a release.
* **A chain of models.** Skipped, hard failed, softly failed and exhausted
  candidates have to be told apart, or a role is BLOCKED with models untried.
* **Money and the clock.** Pools are loaded, charged, raised and reset by
  threads that read and write in separate transactions; an approval is decided
  by people and by its expiry.
* **A log that is cut.** Rotation moves rows to the archive month by month and
  then replaces the log, while others append and the mail watcher counts lines.
* **A page that was away.** Connections break, the server restarts, answers
  come late and out of order, while the user turns to another project.
* **A file changed by several.** plan.json is loaded, changed and saved whole
  by each thread; .env is patched by line and read through a cache.

### What must be true

Kernel: a todo in flight has one holder, one lease, one open attempt; what is
settled stays settled; a claim is not taken over; a lineage is one chain and
ends within its limit; work is charged once; a goal closes with its last todo.
Workers: the todo of a turn is the worker's own until it writes back;
dependencies are done before work starts; no todo stays in flight for ever; a
worker ends only when killed. Hosts: they write back only what they hold.
Task chain: ended tasks stay ended, reworks are bounded, dependencies come
first, and every waiting task comes to its review. Spending: BLOCKED means that
every candidate was tried as often as it should be; an event is counted once; a
charge is not lost; an approval is decided once. Journal: no row is lost,
numbers only grow, an archive cut off is mended, nobody waits for its lock for
ever. Page: no hole behind the cursor, the plan is that of the project shown,
what happens is shown in the end. Files: what was saved is read, the planner
stays bound while there is a model, a new key is used, a progress counts every
task once and adds up to 100 %, an install job ends.

## 2 The modules

| module | what it models |
|---|---|
| `Kernel` | the tables and the calls of class Kernel, each call one step |
| `KernelCalls` | the same calls as two steps, the read and the transaction, made by several threads |
| `Turns` | worker processes, the planner's turns, host sessions and the user over the calls of Kernel |
| `WorkItems` | abstract: a piece of work is queued, held, waiting, and ends once |
| `KernelItems` | the refinement mapping from lineages of Kernel to WorkItems |
| `Tasks` | the task chain of the console server |
| `TaskLife` | abstract: a task is planned, opened, sent back a bounded number of times, and ends once |
| `Spend` | router, model events, usage scans, pools, approvals |
| `Journal` | the event log, its rotation into archives, the mail watcher |
| `EventLog` | abstract: one log to which rows are added, numbered one after the other |
| `Channel` | server, network and page of the live channel |
| `EnvFile` | the .env file and its cache |
| `FleetToml` | fleet.toml, secrets and what processes make of them |
| `PlanFile` | plan.json beside the rows, and the progress computed from both |
| `Setup` | the install job |
| `Desk` | the last four as one system, the files of the console |
| `KernelProofs` | theorems about Kernel: types, claims, goals, charges, lineages, and that Kernel implements WorkItems |
| `CallsProofs` | theorems about KernelCalls: what is left of them when calls interleave |
| `TurnsProofs` | theorems about Turns, and that what is proved of Kernel holds there |
| `TasksProofs`, `SpendProofs`, `JournalProofs`, `ChannelProofs`, `DeskProofs` | theorems about Tasks, Spend, Journal, Channel, Desk |
| `MCKernel`, `MCKernelCalls`, `MCTurns`, `MCTasks`, `MCSpend`, `MCJournal`, `MCChannel`, `MCDesk` | small instances |

`Turns` and `KernelCalls` extend `Kernel` and use its guards (`CanClaim`, ...)
and its transactions (`ClaimTx`, ...); no call is modelled twice. `Tasks` is a
system of its own: the task chain and the kernel share no state. `Spend`,
`Journal` and `Channel` take what the others produce (an event happens, a call
is made) as a choice: they read nothing else of them. `Desk` composes the four
files: they share a process and no data, so that a behaviour of `DeskSpec`
changes the one that the variable `part` names, and the composition is the sum
of the four, not their product.

**Kernel.** `todos`, `goals`, `quota` are the tables, `created` the number of
rows inserted (ids are given out in order), `rounds` the rows of attempts per
lineage. A row keeps the columns the calls decide by: `lease` is
`claim_expires_at` seen from now (0, ahead, past), `openAttempts` the attempts
without `ended_at` (2 stands for more), `gen` the length of the successor_of
chain (history), `diff` and `decision` the plan change kept in the packet.
One action per method: `CreateGoal` is create_goal and create_goal_draft,
`CreateGoalWithPlan`, `FreezeGoal`, `CreateTodo`, `Claim`, `RenewLease`,
`RequeueExpiredLeases`, `MarkRunning`, `MarkVerifying`; transition is one
action per verdict (`WriteDone`, `WriteSuccessor`, `WriteWaiting`); `Reopen`,
`ProposePlanDiff`, `ApplyPlanDiff`, `SetQuota`. `LapseLease` and `NewDay` are
time. Abstracted: texts, timestamps (claimable lists by created_at and then by
id, which holds the millisecond and a counter: the order of creation, but for
two todos of one millisecond), the kind and role filters of claimable (no
caller passes them), outbox rows. The requirement texts of a
draft are not kept: `CanFreeze` asks only that the goal is not frozen. Todos
that a plan change adds get an id of their own as lineage, as create_todo gives
them. `set_quota` is called by nothing under `fleet/` but the tests; it is
modelled (here, and as `Operate` of the user of Turns) because the limits it
sets are read by claimable.

**KernelCalls.** `pending[c]` is the call whose read thread `c` has made and
whose transaction it has not: which todo, and what the transaction takes from
the read (the todos found expired, whether the lineage was exhausted, the plan
change, whether the todo was in flight). `CommitOn` applies the transaction to
the row as it is by then. `Die` kills the caller in between.

**Turns.** `turn[p]` is what a process knows: what it does next, the todo it
picked and the content it read then, the verdict it will write, what remains of
a plan. The steps are the kernel calls of `run_loop` in their order: `Poll`
(claimable, with the leases it takes back), `TakeClaim`, `StartRunning`,
`Heartbeat`, `StartVerifying`, `Gate`, `Write` for executable todos;
`RenewOnce`, `ReceivePlan`, `CreatePlanned` (one create_todo per task),
`EndPlan`, `ReceiveDiff`, `ChangePlan`, `NoAnswer`, `NoPlanner` for the
planner. A host session is `ReadWriteback`, `MarkWriteback`, `GateWriteback`,
`Write`, `GiveUp`. A KernelError ends a worker (`Fail`): `run_loop` does not
catch it. The outcomes of harness, gate and model are choices; a plan is
received only if it is a `ValidPlan` (tasks that can be verified, files, no
cycle of dependencies). `User` is the console, one action per route:
`GoalsCreate`, `GoalsFreeze`, `SteerCreate`, `AddTodo`, `TodosReopen`,
`PlanDecide`; `Operate` and `NewDay` are limits and midnight. A lease lapses in this module only when nobody attends to the todo,
unless the instance is `Slow`: the default lease is minutes long and the
harness renews it, but a host session and a long gate do not.

**Tasks.** `tasks` are the rows; `threads` the loops `"project"` (launched by
the chat) and `"global"` (FLEET_SCHEDULER=1) and the threads `Hand` that
requests start; `bus` the ControlBus; `up` whether the server runs. A loop
goes through `Tick`, `Collect`, `ListReady`, `ListSubmitted`, `Take`; the
thread that has a task goes through `Dispatch`, `Start`, `Return`, `Review`, `Gate`,
`Judge` or `GateFailed`, `HandleRework`. Each is one `transition_and_log` or
one list read, in the order of the code, so that other threads act in between.
`Move` is transition_and_log: the edge is legal, or the exception goes to
`Persist` (a loop) or to the requester. `NoAdapter` blocks a task that nobody
can be found to run; `Verdicts` and `Rework` are what the reviewer may answer.
`ApiMode` and `ApiConfirm` are the routes to the bus. `Request` releases and redispatches a
blocked task or runs one to completion, `Release` creates the successor of an
escalated task, `StuckScan` blocks a task that stays in DOING, `Crash` and
`Restart` are the server's. The initial state is a project just launched.
Abstracted: one project; REWORK is never stored, as bump_rework writes the
state after it; the round cap of run_to_completion (the threshold ends it
first); the files a task may write are a set, empty for no restriction.
`LifeOf` maps a row to a life of TaskLife: DRAFT is planned, READY to REWORK and
BLOCKED are open, with rework_count as its tries, ESCALATED is given up, DONE
and PARTIAL are its end.

**Spend.** `threads[t]` is what a thread was called for and has read; `events`
are the model:call rows, each with the pools it names; `usage` the rows of
governance_usage, `budgets` the pool of each level, `approval` its status.
`RouteStart`, `RouteSkip`, `RouteTry` are one walk of ModelRouter.call, a try
per step; `Signal` and `KindOf` what the transport and classify make of an
answer; `RouteOk` and `RouteBlocked` the ends, the direct executor's second
event and its retry by the dispatcher included. `ScanStart`, `ScanLine`,
`ScanEnd` are scan_events_file a line at a time; `LoadStart`, `Load`,
`LoadDefault` the read and the write of a pool's first load; `Consume`,
`SetLimit`, `Reset` the statements; `SyncStart`, `SyncSum`, `SyncRaise`
sync_from_events; `RequestApproval`, `Decide`, `ExpireList`, `Expire` the
approvals. `spent`, `scanned`, `wins`, `assured` are history. Abstracted: a
call costs one token; one task, one project, one day; one approval.

**Journal.** `hot` and `gz` hold rows with the number the code gave them;
`cache` and `lock` are per process, as `_CACHE` and `_LOCK` are. `Stamp`,
`Number`, `Write` are append: the time is taken before the lock, number and
write under it. `Scan`, the marker (the same three steps), `Rescan`, `Archive`
per month and `Replace` are rotate_events; `Lines` reads rows in the order of a
field, as the code sorts them by time or by number. `WatchStart`, `WatchLook`,
`WatchHandle`, `WatchSave` are watch_events_loop. `Kill` ends the server at any
step and may tear the gz member being written; `KillWatch` the launcher.

**Channel.** `server` has the session and the connection of the page's token
and the cursor of the pump, `wire` what is under way, `page` the variables of
useWebSocket and of the auth store, `store` the cursors, rows and plan,
`fetches` the catch-ups in flight. One action per handler of the server (`Pump`,
`Accept`, `ServeSwitch`, `Launch`), per callback of the page (`Open`, `Refused`,
`Drop`, `Reconnect`, `Offline`, `Online`, `Deliver`, `Poll`, `FetchReply`,
`FetchFails`, `PlanReply`, `Switched`, `SwitchFails`, `SwitchEnds`) and per act
of the user (`Unlock`, `Lock`, `AskSwitch`, `Reload`). `Broadcast` puts a
message on the wire if the connection is bound to its project; `CreateSession`
and `DestroySession` are the server's half of unlock and lock; `Events` is what
/api/events answers. An answer of /api/events
holds the log as it was at some moment since the request. `store.whole` is
history: it is FALSE once a catch-up failed or came from before a switch.
Abstracted: one page, what an event says but for its kind; waiting times.

**EnvFile.** `env` is the file: the keys of one list section by index and field,
and for each scalar setting its line, with the title it stands under. A load is
four steps (`LoadStat`, `LoadRead`, `LoadTime`, `LoadValues`), because the code
sets the cache's time and its values one after the other; `SaveList` and
`SaveScalar` patch lines. Two saves may have one modification time (`Tick`).
`GroupIndexed` and `PatchedList` are _group_indexed and the patch of a list.

**FleetToml.** `models`, `roles` are the file, `secrets` the secrets file,
`environ` the environment of each process. `ConfigPut` is one request of the
page: merge, prune the models that went, bind the planner if it has none, and
write the file (`SaveToml`); `LoadConfig` is what a reader finds in it.
`SecretPut` writes the file and the console's environment; `Start` starts a
process. `TomlChain`, `PlannerStatus`, `KeyUsed` are what readers compute. A role
is bound to a set of models: their order says who is asked first, planner_status
asks for any. Of models of one priority any may be the best.

**PlanFile.** `rows` are the tasks of the database, `plan` the file, `writers`
what each thread has read. `CreateTask` and `Transition` write the row;
`LoadPlan` and `SavePlan` are the rest of update_task and sync_task_state;
reading may fail and yields the empty skeleton. `Plan` is what a file may hold:
stages of different names, which find_stage keeps, weights absent or any.
`Distribute` is the method of
largest remainders over tenths of a percent: who gets one tenth more is said by
how many are `Ahead` with a larger fraction. It is exact where _distribute_pct
rounds floats. `Completed` adds the stage of the tasks that no stage lists,
`Counted` and `Tracked` are the stages and entries whose tasks the database has,
`Leaves` the tasks of each stage with their shares, `ComputeProgress` the answer.
A plan written by hand lists a task once, in the stage it is created in
(section 6 says what happens otherwise).

**Setup.** `running` is the single flight, `runners` the threads, `jobs` what
each job's file ends with. `InstallAsk` claims, `InstallBreaks` is a manifest
that cannot be read after the claim, `JobBegin`, `JobStep`, `JobDone`, `JobEnd`,
`JobRelease` are _run_job with a write in each; writes fail while `full`.
`StepOk` says what becomes of a component as the code is (section 6).

Definitions whose name has an underscore (`CanClaim_Unchecked`) are mistakes
the code could have made at that place; they are used by nothing but the
sensitivity tests of the properties: each property of each passing run is
violated once one of them is put in the place of the definition it varies.

## 3 The runs

Passing runs (`-workers 2`; distinct states):

| run | instance | shows | states |
|---|---|---|---|
| `rework` | `Kernel`, one goal, two workers, 5 todos, lineage limit 4, limits 0 and 1, a change that adds, cancels and modifies | TypeOK, ClaimConsistent, LineageIsChain, LineageBounded, GoalCloses, SettledFinal, ChargedOnce, NoTakeover; a lineage implements a work item (LineageIsWorkItem) | 152 k |
| `calls_lineage` | `KernelCalls`, two threads, limit 2 | LineagePaid although reads and transactions are apart | 594 k |
| `turns_steer` | `Turns`, two workers, auto mode, plan, steer and user | TurnIsOwn, DepsRespected | 3.0 M |
| `turns_end` | `Turns`, a worker, a host session, a crash, step mode, lapsing leases | EveryTurnEnds | 295 k |
| `turns_quota` | `Turns`, two workers, 3 todos of one role, limits set, new days, reopened todos | OverrunBounded | 766 k |
| `tasks` | `Tasks`, two dependent tasks and a successor, the project loop, a redispatching thread, both modes, a crash | TasksTypeOK, ReworkBounded, DependenciesFirst, FinalIfOneReviewer, ChainMoves; a row implements a life (LifeIsKept) | 61 k |
| `spend` | `Spend`, two threads, five mixes of jobs, a chain with a model bound twice, one missing, one without a key | SpendTypeOK, BlockedIsHonest, CountedOnce, DayIsExact, DecidedOnce | 914 k |
| `journal` | `Journal`, two appenders, the rotation, the watcher, two months, two kills | JournalTypeOK, RotationMends, SavedIsSent, LockIsReleased; hot file and archives are one log that only grows (LogOnlyGrows) | 123 k |
| `channel` | `Channel`, two projects, one act of the user, one fault, two catch-ups in flight | ChannelTypeOK, NoGap, PlanIsOurs, EventsArrive | 265 k |
| `desk` | `Desk`: each of the four files by itself | DeskTypeOK, SavedIsRead, PlannerIsReady, KeyIsFresh, ProgressIsWhole, InstallEnds | 383 k |

Runs that TLC refutes, each a statement of the repository (section 6):
`turns_resident` (Resident) and `turns_rework` (DependentsProceed).

What the properties say and why they may fail:

* `ClaimConsistent`: status, holder, lease and open attempts are written by
  seven different exits of flight; each must leave all four in agreement.
* `LineageBounded`: no lineage has more than `lineage_limit` todos. The code
  compares *attempts*, counted at each claim; reopening, lapsed leases and
  write-backs add attempts without todos. `LineagePaid` says why the bound
  holds all the same: each todo but the newest has cost an attempt.
* `LineageIsChain`: no two reworks of one todo, and only the newest can move.
* `SettledFinal`, `ChargedOnce`, `NoTakeover`: over steps; a write-back, a
  plan change, a lapsed lease and a reopening could each break them.
* `GoalCloses`: the last todo may settle in three different calls, only some of
  which close the goal; none of them is missed.
* `LineageIsWorkItem`: whatever todos it takes, a lineage behaves as one piece
  of work: taken only when queued, held by one worker, reworked at most
  LineageLimit - 1 times, ended once.
* `TurnIsOwn`, `DepsRespected`: a worker acts on what it read when it picked.
* `OverrunBounded`: the quota is read when a todo is listed and charged when it
  is done, and what is in flight is counted by nobody. While a limit stays, what
  is used and what is picked and still to be charged may pass it only by what
  the other processes had picked before: with N processes a limit of L admits
  at most L + N - 1, through reopened todos, new days and lapsed claims.
* `EveryTurnEnds`: kill-safety, for every todo and every cause.
* `ReworkBounded`: the count of a task passes the threshold only with its
  escalation, a successor's inherited count included.
* `DependenciesFirst`: from its start to its end a task has done dependencies,
  through releases, blocks, reworks and restarts.
* `FinalIfOneReviewer`: stale answers of a second harness, of the stuck scan
  or of a released task do not move an ended task, as long as one thread
  reviews (see section 6 for two).
* `LifeIsKept`: whatever threads, blocks, releases and restarts a task goes
  through, it is opened once, sent back or given up by its count alone, ends
  once, and a successor goes on counting where the escalated task stopped.
* `ChainMoves`: every new, ready, running or submitted task is taken up.
* `BlockedIsHonest`: what a blocked role reports is what was done: every
  candidate of the chain, in order, skipped if it has no key, tried once after
  a hard answer and as often as the policy allows after a soft one. The chain
  is filtered, loses duplicates and is replaced for the planner, and the
  counters live in two nested loops.
* `CountedOnce`: one usage row per event, although scans start at the top
  every time, overlap, and look before they insert.
* `DayIsExact`: the pool of the day, which every charge names and which others
  load, limit and reset meanwhile, holds the sum of the charges. It holds when
  the pool has its row from the start; see section 6 for the first load.
* `DecidedOnce`: at most one of two people and the clock is told that its
  decision stands, and who was told "approved" is not overruled.
* `RotationMends`: a kill between two months of a rotation, or before the log
  is replaced, leaves rows twice; the next rotation that ends leaves each
  exactly once.
* `LogOnlyGrows`: Journal implements EventLog, with the hot file and the archives
  together as its log. A rotation, cut off or not, takes out no row and changes
  none, no step but an append adds one, and the number of a new row is the next
  one, also after a rotation that emptied the hot file and after the cache of the
  numbers was dropped. A row that a kill left in both files counts once. That
  each id is there (`NothingLost`) and that a new number is above all others
  (`SeqGrows`) follow from it; they are stated and proved on their own and not
  run again.
* `SavedIsSent`: until a rotation a kill of the launcher mails twice, not never.
* `LockIsReleased`: a rotation that fails on a torn archive still releases the
  lock each appender waits for.
* `NoGap`: the cursor of a project never passes an event that is neither shown
  nor being fetched, with live events and answers in any order. Its condition
  `whole` names the three ways in which the code does leave a hole (section 6).
* `PlanIsOurs`: late answers of plan requests never show another project's plan.
* `EventsArrive`: through lost connections, retries, polling, restarts and
  reloads, what happens in the project on screen is shown in the end.
* `SavedIsRead`: the next load returns what the page saved last, whatever
  length the list had, and whatever the cache holds, saves of one time included.
* `PlannerIsReady`: no order of adding, removing, binding and unbinding models
  leaves the planner without one while there is one; once every key was saved,
  no process finds a model without key.
* `KeyIsFresh`: the console uses the value saved last, over restarts.
* `ProgressIsWhole`: with updates of plan.json lost and reads of it failing, an
  answer counts each task of the database once, the tenths add up to 1000, and
  all done is 100 %.
* `InstallEnds`: whichever write fails, a job whose thread began ends, says how
  if it can, and gives the single flight back.

The type invariants hold what keeps each state well formed too: a role of
fleet.toml names only models there are, stages have different names, the thread
of an install job holds the single flight.

Bounds. `rework`: LineageLimit 4 is the code's default, a fifth todo can hold a
second lineage or would be the illegal rework; `rounds` saturates at MaxRounds,
one above the limit, which is all that Exhausted and LineagePaid compare.
Where a todo steers, the constraint SmallWhenSteered keeps to three todos (the
steer todo, the one it cancels, the one it adds), one worker, one round of each
and no limits: a change meets todos in every state, and what several rounds or
workers add to it is the theorems' part. `calls_lineage`: a race needs two
callers; the first may do all a worker does, the second what the console and a
second worker do; MaxClaims 2 equals the limit. Goals: todos of different
goals interact only through directories, quota and dependencies, so one goal
loses no interleaving of those, and the theorems of section 5 hold for any
number of goals. `turns_steer`: plan todo, planned task, steer todo and a
dependent are four todos; no crash there, since `turns_end` has it and TurnIsOwn
says nothing of a dead worker. `turns_quota`: a limit of 1 and two processes is
the smallest overrun; the third todo is the one that must not be picked any
more; there are no crashes and no slow leases, since a claim that ends without
a write-back charges nothing. `tasks`: the threshold 1 gives one rework and
one escalation, the third row is the successor; one confirmation waiting, one
crash. A larger instance (`Stages`, four rows: two tasks that write the same
files, a third after both, a successor) passes too; it takes over four minutes
and is not listed.

`spend`: the mixes put together the jobs that share a table, three or more at a
time; two threads are enough since a statement is atomic and each thread does
one job after another; two answers and two charges give one success after a
failure, and two charges in a race with a third writer; two attempts tell
"once" from "as often as allowed". `journal`: four rows are two of the past
month, the marker and one after it; two kills are one in a rotation and one in
the rotation that mends it. `channel`: two events are one missed and one live
after it, which is what a hole takes; two catch-ups overlap; PollAfter 2 goes
through a retry into polling; one act and one fault race. `desk`: lists of none
to three items grow and shrink past each other; three saves; two models with
two keys, of which one is set in the environment; three tasks in two stages of
unlike weight, one of them without an entry; three install jobs, of which one
is refused, with a disk that fills and empties again.

`CHECK_DEADLOCK FALSE` is set where the bounds let an instance stop: users who
ask for nothing more, calls, rows or crashes used up. `rework` checks
it.

## 4 Fairness

Turns: weak fairness of every step of a worker process (`Advance`; a process
that is not dead goes on, harness and model calls have timeouts) and of the
clock (`Lapse`). Nothing is assumed of the user, of host sessions, of crashes
not happening, or of dead workers being restarted; EveryTurnEnds has as its
condition that some worker keeps running, since only a worker's claimable takes
leases back.

Tasks: weak fairness of every thread's `Advance` and of the stuck scan, which
the maintenance thread calls every minute. Nothing is assumed of the user, of
the launch of the loop or of the server being started again; ChainMoves is
conditional on the project's loop running in auto mode from some time on, and
on the task not being contended for ever: the code lists ready tasks in order,
and nothing stops two conflicting tasks from following one another before a
third.

Journal: weak fairness of the steps of a thread after it has stamped its row
and of the rotation: a thread that runs goes on, and the lock is held over file
operations only. Nothing is assumed of kills, which are bounded.

Channel: weak fairness of the pump, of accepting a connection (the loop of the
server), of the callbacks and the timers of the browser, and of each request:
the browser has an answer for it or an error. Nothing is assumed of the
user or of the network coming back: EventsArrive asks for it.

Desk: weak fairness of each step of an install thread that was started; nothing
of the requests, the disk or kills.

## 5 The proofs

What each theorem is about, and under which hypotheses. The assumptions on the
constants are those the modules state (`KernelAssumption`, ...).

* `Spec` of `Kernel`: any finite or infinite sets of workers, goals, contents
  and limits, any lineage limit and number of rows.
* `CallsSpec` of `KernelCalls`: the same, with any number of threads, each of
  which commits on the tables as the others have left them since its read, or
  dies before it does.
* `TurnsSpec` of `Turns`: any number of workers, host sessions, todos and
  crashes, any mode, any leases that lapse. For OverrunBounded the processes are
  finitely many, since it counts them.
* `TasksSpec` of `Tasks`: any plan whose tasks depend on earlier ones, any
  threshold, any threads that release and redispatch, any number of crashes.
  The types hold for any number of reviewers, the rest where one thread reviews
  (`OneReviewer`: FLEET_SCHEDULER off and no request runs a task to completion;
  section 6 shows that it is needed).
* `SpendSpec` of `Spend`: any chains, answers, retry limits, mixes of jobs and
  numbers of threads, calls and charges.
* `JournalSpec` of `Journal`: any number of threads, rows, months and kills,
  where one process writes the log (`Outside = {}`; section 6 shows that two
  give one number twice).
* `ChannelSafety` of `Channel`: any number of projects, events, faults and
  requests in flight; but for the types, where a locked page is unlocked on the
  project it shows (`~AnyProject`; section 6).
* `DeskSpec` of `Desk`: any loads, sections, processes, models, keys, tasks,
  plans written by hand (`Plan`: any weights and stages, each task once and in
  the stage it is created in), components and requests. SavedIsRead holds
  where no save overtakes a load and the file has a title for every section
  (`WholeFile`; section 6 shows what happens without either).

| theorem | says |
|---|---|
| `TypeCorrect` (KernelProofs) | `[]TypeOK` |
| `ClaimsAreConsistent` (KernelProofs) | `[]ClaimConsistent` |
| `WorkIsChargedOnce` (KernelProofs) | `ChargedOnce` |
| `GoalsAreClosed` (KernelProofs) | `[]GoalCloses` |
| `SettledStaysSettled` (KernelProofs) | `SettledFinal` |
| `ClaimsAreNotTakenOver` (KernelProofs) | `NoTakeover` |
| `ReworkIsPaid` (KernelProofs) | `[]LineagePaid` |
| `ReworkEnds` (KernelProofs) | `[]LineageBounded` |
| `ReworkIsAChain` (KernelProofs) | `[]LineageIsChain` |
| `KernelImplementsWorkItems` (KernelProofs) | `LineageIsWorkItem`: Kernel implements WorkItems |
| `CallsAreTyped` (CallsProofs) | KernelCalls: `[]TypeOK` |
| `CallsPayForRework` (CallsProofs) | KernelCalls: `[]LineagePaid` |
| `CallsEndRework` (CallsProofs) | KernelCalls: `[]LineageBounded` |
| `NobodyWorksTooEarly` (TurnsProofs) | `[]DepsRespected` |
| `WorkersOwnTheirTurns` (TurnsProofs) | `[]TurnIsOwn` |
| `TurnsKeepTheTables` (TurnsProofs) | the six invariants of Kernel hold in Turns |
| `TurnsKeepTheRules` (TurnsProofs) | SettledFinal, ChargedOnce, NoTakeover hold in Turns |
| `TurnsImplementWorkItems` (TurnsProofs) | LineageIsWorkItem holds in Turns |
| `OverrunIsBounded` (TurnsProofs) | `OverrunBounded`, for a finite number of processes |
| `TaskTypes` (TasksProofs) | `[]TasksTypeOK`, any number of reviewers |
| `ReworkStops` (TasksProofs) | one reviewer: `[]ReworkBounded` |
| `EndedTasksStay` (TasksProofs) | `FinalIfOneReviewer` |
| `DependenciesComeFirst` (TasksProofs) | one reviewer: `[]DependenciesFirst` |
| `TasksHaveOneLife` (TasksProofs) | one reviewer: `LifeIsKept`, Tasks implements TaskLife |
| `SpendIsTyped` (SpendProofs) | `[]SpendTypeOK` |
| `BlockedTellsTheTruth` (SpendProofs) | `[]BlockedIsHonest` |
| `EventsAreCountedOnce` (SpendProofs) | `[]CountedOnce` |
| `TheDayIsExact` (SpendProofs) | `[]DayIsExact` |
| `ApprovalsAreDecidedOnce` (SpendProofs) | `[]DecidedOnce` |
| `JournalTypes` (JournalProofs) | one process: `[]JournalTypeOK` |
| `NoRowIsLost` (JournalProofs) | one process: `[]NothingLost` |
| `NumbersGrow` (JournalProofs) | one process: `SeqGrows` |
| `TheLogOnlyGrows` (JournalProofs) | one process: `LogOnlyGrows`, Journal implements EventLog |
| `RotationIsMended` (JournalProofs) | one process: `[]RotationMends` |
| `WhatIsSavedWasSent` (JournalProofs) | one process: `[]SavedIsSent` |
| `ChannelTypes` (ChannelProofs) | `[]ChannelTypeOK` |
| `NothingIsMissed` (ChannelProofs) | no unlocking elsewhere: `[]NoGap` |
| `ThePlanIsOurs` (ChannelProofs) | no unlocking elsewhere: `[]PlanIsOurs` |
| `KeysAreFresh` (DeskProofs) | `[]KeyIsFresh` |
| `SavedSectionsAreRead` (DeskProofs) | no save during a load, no title missing: `[]SavedIsRead` |
| `ThePlannerIsReady` (DeskProofs) | `[]PlannerIsReady` |
| `ProgressStaysWhole` (DeskProofs) | `[]ProgressIsWhole` |
| `SharesAreExact` (DeskProofs) | what `Distribute` gives to positive weights adds up to the total, and never less to the heavier |
| `DeskIsTyped` (DeskProofs) | `[]DeskTypeOK` |
| `OneInstallAtATime` (DeskProofs) | `[]SetupTypeOK`, the single flight |

The arguments:

* **TypeInv == TypeOK /\ ClaimConsistent**, the two proved together. Every
  action writes rows by one of the row operators (`Claimed`, `Requeued`,
  `Ended`, ...); one lemma (`UpdateTypes`) says for each that, under the guard
  of its call, it keeps a row well formed and its claim columns in agreement,
  and the step for an action cites it. ClaimConsistent needs the guards: that a
  claim leaves one open attempt holds because an open todo has none.
* **LineageInv** adds LineagePaid, LineageBounded and LineageIsChain.
  LineageBounded is not inductive: `WriteSuccessor` compares rounds with the
  limit, the bound is about generations. LineagePaid is the link: a todo in
  flight of generation n has at least n attempts in its lineage, so if rounds
  is below the limit then n is, and n + 1 is at most the limit. That a claim
  pays for the generation it holds is again LineagePaid (an open todo of
  generation n has n - 1 attempts before it) and the counter never falls.
* **GoalInv** adds that every row belongs to a goal that exists (GoalsOwn):
  without it a goal could be created over finished work and be active with
  nothing left to do. The steps are split into those that settle no todo and
  touch no goal (`Quiet`, one lemma) and the few that do (`Loud`: a new todo or
  goal, done, a successor, a decision), each with its own argument that it
  closes the goal when it settles the last todo.
* The action properties follow from the step lemmas: a settled row is no
  operand of any transaction's guard, and a row in flight changes its holder
  only through Claim, whose guard it does not satisfy.
* **Kernel implements WorkItems.** The state of a piece of work is that of the
  newest todo of its lineage, so the mapping looks at all rows for the one of
  greatest `gen`, which exists and is unique by LineageIsChain (`NewestExists`,
  by a least number, and `NewestIs`). A step of Kernel is taken apart into what
  it does to a row that stays (`RowMove`, `ClaimMove`) and the rows it adds
  (`NewRows`); `RowItem` maps a move of the newest row to a step of the work or
  to none, a new row either begins another piece or is the successor of a todo
  in flight that the same step drops (`DroppedInFlight`), which is the rework
  of the work, allowed as long as LineageBounded holds. The work moves at once
  with the row: `LineageMoves` has one case per kind of step.
* **CallsPaid** is about calls whose read is not in their transaction. There
  ClaimConsistent and LineageIsChain fail (a claim is taken over, a todo gets
  two successors), so the step lemmas of Kernel, which rest on them, cannot be
  used, and the transactions are gone through again on a row of any status.
  What remains true is what no transaction undoes: a row keeps its generation
  and lineage, and attempts are never forgotten (`Grows`). So what a thread
  `Knows` from its read is still so when it commits: its todo exists, the
  attempt that brought it into flight is counted (a mark may bring a todo
  back into flight that was taken back meanwhile, but that attempt was paid
  for), and there is room for its successor. Two successors of one todo have
  the same generation, which is why the limit holds although the chain forks.
* **From Kernel to Turns.** The step lemmas about Kernel are stated for `Call`,
  which is Next without the bounds on its operands: any todo, any plan change,
  any limit. `TurnIsCall` says that a step of Turns is a Call or leaves the
  tables alone, with the types of what a process remembers (`TurnTyped`) as its
  condition; so all the invariants of Kernel, and the refinement, hold in Turns
  too, and need no second proof.
* **TurnsInv**: DepsRespected is not inductive, since a todo is picked in one
  call and claimed in another, which does not look at dependencies. `PickedReady`
  fills the gap: a todo that is picked exists and its dependencies are done.
  They stay done, whatever the others do in between, and no call changes what a
  todo depends on, plan changes included (`DepsKept`); nothing but a claim
  brings a todo into flight (`OtherCallsStart`).
* **OwnInv** is TurnsInv with `Owns`, that every process past its claim, a host
  session too, holds its todo under a live lease, and `Apart`, that no two hold
  the same one. TurnIsOwn speaks of the workers alone, but a session that could
  write back the todo of a worker would take it away, so that what sessions own
  is needed.
* **QuotaInv** is TurnsInv with `OnRows`: what a process works on is a todo
  that exists. So it keeps its role, whatever becomes of the row (`RowStays`),
  and what is still to be charged to a key (`Charging`) changes with what the
  processes work on alone. A step lets todos go (`Sheds`), or one process adds
  one that it has just picked, when there was quota left (`WorkSteps`); in the
  first case the set shrinks, and who charges leaves it in the same step
  (`QuotaOfTurns`), so that the sum does not grow; in the second `used` is below
  the limit and at most all processes charge.

* **TasksInv**. None of the three properties of Tasks is inductive. What they
  share is `Solo` (only the project's loop is ever past `running`) and
  `ReviewOpen`: the task under judgement has not ended. It may have left
  REVIEWING - a second thread whose start or harness failed blocks it - but an
  ended task can only come from the one judge, so the verdict, which
  bump_rework writes over any state, finds a task that was not yet escalated
  and a count within the limit. `ClearedFirst` strengthens DependenciesFirst
  from states to threads: whatever a thread holds or has listed, and every task
  that was ever begun, BLOCKED included, has its dependencies done; without
  the threads an item listed a tick ago, without BLOCKED a release could start
  a task too early. A step is taken apart into what it does to the rows
  (`TaskStep`: a legal edge, a bump, a successor) and what the thread does next
  (`ThreadStep`); one lemma per action puts it in this form, and `RowsFollow`
  and `Preserved` do the rest once for all. Done dependencies stay done because
  ended tasks stay (`ClearedStays`), so the three must be proved together.
* **Tasks implements TaskLife.** The task under judgement has been begun and has
  not ended or been given up (`ReviewOpen`), so that a verdict, which bump_rework
  writes over any state, is a step of an open life; and a legal edge leaves the
  life as it is, opens it or finishes it (`MovedLife`, `BumpedLife`,
  `ReleasedLife`). A release of an escalated task fills a row that was absent, which
  is Succeed only because the row takes over the count.

* **SpendInv** is one invariant of tables and threads. A thread may act on what
  it read long ago, so each fact about a table is paired with what a thread
  past its read knows: a scan that stands at line n has every event up to n in
  usage (`ThreadOK`, from which CountedOnce follows when it ends); a thread that
  found no row is not at the pool of the day when that one has a row, and sync,
  which writes back a stale sum, never gets as far as the day (DayIsExact);
  the report of a route has one entry per candidate passed, with the attempts
  the policy allows (`Honest`, BlockedIsHonest). `StepsKeep` says once for all
  that the other threads keep what they know, because events and usage only
  grow; each action then owes its own row and its own table.
* **TypesInv** (Tasks) is the one invariant that holds for any number of
  reviewers: what a thread has in hand or has listed is a row of the table, and
  rows are never deleted.
* **JournalInv** splits the facts about files from what each party knows.
  Files: every id ever written is in the hot file or the archive of its month
  (`Present`), copies are equal (`Copies`), the hot file is in order. Who numbers
  or archives holds the lock, and a cache that has the size of the file has its
  last number (`LockOK`): from these SeqGrows. The rotation: the marker is above
  all that is to go, what it has read to keep, to move and has moved make up the
  file (`Splits`), so that cutting the file loses nothing, and Archive and Replace
  leave the log of EventLog as it was (`ArchivedLog`, `ReplacedLog`). `TwicePast`: what a
  kill leaves in both files is of a past month, and is still there for the next
  rotation to see, which is why that one mends it. The watcher's lines are the
  beginning of the file while nothing has left it (`WatchOK`). Sorting is
  described by what the result is (`Lines`: a file with these rows, in order of
  the field), so that no induction over a sort is needed.
* **ChannelInv** are the types with what bounds them by the log: cursors, the
  pump and messages are never past its end.
* **GapInv**, from which NoGap: while no catch-up has failed (`whole`), what is
  behind the cursor is shown or being fetched, and behind the start of each
  catch-up under way as well (`Rests`), since the one it overlaps may end first;
  on an open connection each event that the cursor might jump over comes before
  it on the wire (`InOrder`), and what the pump has passed is on the wire, shown
  or being fetched (`PumpKeepsUp`). The wire is read from the front and written
  at the back, so its lemmas are about Tail and Append alone.
* **PlanInv** needs nothing of the channel but three facts: a step of the
  connection keeps the project of the page (`PageKept`), asking for a plan
  clears the one shown (`StoreKept`), and every step that turns the page asks.
* **KeyInv** says that a key saved is in the file, and that the console's
  environment has the same value or none; a restart takes it from the file.
  **SetupInv** says that only the job with the single flight has a thread.
* **TomlInv** says that a role names only models there are and that the planner
  names one as long as there is one: what a request removes is pruned from every
  role, and the planner that this leaves empty is bound again (`Bindings`).
  PlannerIsReady follows because a key saved is in the file (`given`).
* **EnvInv** says that the file holds what was saved (`FileHolds`: the keys are
  those of the list saved last, each line stands under its own title) and that
  the cache holds the file when it has the file's time, unless a load stands
  between setting the one and the other (`CacheHolds`); that load has the file's
  values in hand. SavedIsRead then takes two lemmas about lists: the items
  grouped from the keys of a list are the list (`ListGrouped`), and the keys of
  one list patched to another are those of the other, whatever their lengths
  (`ListPatched`), which needs that the indices patched by are the file's.
* **PlanInv** (of plan.json) says that the file, and what each thread has read
  of it, is a plan: entries change in place or at the end of a stage, and a
  stage is added only when none has its name, so a save of what was read long
  ago, or of the empty skeleton, writes a plan. An entry is enrolled in the
  stage its task is created in, where it is updated if it is there already, so
  the file lists a task once in its only stage.
* **ProgressIsWhole** follows from PlanInv by what the operators compute.
  `Total` is a sum over the positions of a function with gaps; since the
  library's induction theorems take an operator, each fact about it is proved by
  the least position at which it would fail (`Inductive`, from WFMin). Of
  `Distribute`: the floors leave over less than one tenth for each weight; the
  rank of a position (how many are ahead of it) is an injection into
  0..n-1, hence hits each number below what is left exactly once, so that the
  shares add up (`SharesAreExact`). A heavier weight has a larger floor, or an
  equal floor and a larger fraction, so it is ahead.
  The tenths of a stage are then those its tasks add up to, the stages add up to
  1000, and the stage of the orphans has what no other stage lists.

Model-checked only:

* Liveness (EveryTurnEnds, ChainMoves, EventsArrive, LockIsReleased,
  InstallEnds): fairness and ENABLED are out of the prover's reach.
* The other properties of Kernel are proved for atomic calls only: under
  KernelCalls NoTakeover, ClaimConsistent, LineageIsChain, SettledFinal,
  ChargedOnce and GoalCloses all fail (section 6).

## 6 What the code does otherwise than it says

Runs of the project that TLC refutes:

| run | statement | what happens |
|---|---|---|
| `turns_resident` | the worker loop is resident | after a proposal in step mode the loop writes needs_user again, the KernelError ends it |
| `turns_rework` | work goes on after a rework | a dependent waits for the superseded id, which is never done |

The lines are quoted in `PROJECT.json` under `findings`. Statements that TLC
refutes as well once the property named is put in a cfg; each is stated in its
module and is not a run of its own:

| property | cfg to start from | what happens |
|---|---|---|
| NoTakeover (Kernel) | CallsLineage.cfg | two sessions read the same open todo, both transactions update it by id: the second takes it over (`cli/main.py:521` says claims exclude each other) |
| SettledFinal, ChargedOnce (Kernel) | CallsLineage.cfg | two threads read one todo that is verifying; the second write-back lands on what the first has settled, and `done` twice is charged twice (`kernel/kernel.py:735`: charged when it is verified and written back) |
| GoalCloses (Kernel) | CallsLineage.cfg, with a steer todo, a change that cancels, approval and finish | the steer todo is done by a session that holds it while an approval of its change is under way; the approval read it as in flight, so that cancelling the last open todo does not close the goal |
| HostWritesOwn (Turns) | TurnsEnd.cfg | the lease lapses during the gate, another claims, the write-back of the host lands |
| EdgesAreKept (Tasks) | Tasks.cfg | bump_rework writes ASSIGNED over DOING: the task was blocked during its review, released, and runs in a second harness when the verdict of the review comes (`core/db.py:3`: an illegal transition raises and is not written) |
| TerminalFinal (Tasks) | Tasks.cfg, Enabled = TRUE | with FLEET_SCHEDULER=1 two loops review one task, the late rework verdict overwrites DONE (`core/state_machine.py:79`: no edge out of a final state) |
| ReviewResumes (Tasks) | Tasks.cfg | nothing lists a task in REVIEWING after a restart (`rel/recovery.py:7` says the review goes on) |
| NothingLost (Channel) | Channel.cfg | a failed catch-up is only logged; the next live event moves the cursor past the hole (`useWebSocket.ts:8` says no event is lost) |
| PlanIsOurs (Channel) | Channel.cfg, AnyProject = TRUE | a page locked on one project and unlocked on another keeps plan and rows of the first |
| EventsAreMailed (Journal) | Journal.cfg | after a rotation the watcher's line number points past the end of the shorter file: new events are not mailed |
| NothingLost, SeqGrows, LogOnlyGrows (Journal) | Journal.cfg, one thread in Outside | two processes give the same number, and a rotation drops what the other process appended meanwhile |
| EveryPoolIsExact (Spend) | Spend.cfg | the first load of a pool writes the default over the row a charge has made (`governance/store.py:259` says that increments lose nothing) |
| SavedIsRead (EnvFile) | Desk.cfg, Titles <- OldTitles | a section whose title is missing in an old file: the setting goes to the end, under another title, and is never read |
| SavedIsRead (EnvFile) | Desk.cfg, Slow = TRUE | a save between a load's read and its update of the cache leaves old values under the new time (`core/config.py:3` says there is no cache to go stale) |

Seen while modelling. *Kernel:* a mark that commits after the lease was taken
back leaves a todo in flight without a lease, which no call takes back; two
requests freeze one draft and create two plan todos; two write-backs of one
todo charge twice; a plan change that cancels a todo strands its dependents; a
proposal put back is decided again and its additions inserted twice; a limit on
the key `global` counts only todos without a role. *Tasks:* a released task runs
beside its first harness after the stuck scan blocked it.

*Spend:* sync_from_events writes back a stale sum and limit; nothing makes
(level, scope) unique; a reset of a pool without row inserts the limit 0, which
means none; a direct executor's call leaves two model:call events and is
counted twice, a router's event names no task, the planner's client leaves
none; scans read the hot log only, so what was rotated unscanned is never
counted; `approve` on a lost race answers "reject" for what is stored
"approve", check_expired reports an approval as expired that was approved in
time; nothing outside governance calls check or consume; a missing key found
by the transport counts as transient; a direct route that is blocked is routed
again by the dispatcher.

*Channel:* `launch:*` events go out as progress and their row is not shown
until a catch-up; a catch-up in flight across a switch brings rows of the old
project; a launch by chat leaves the connection bound to the old project; a lost
reply to a switch leaves server and page on different projects; a lock during
a switch can leave the page unlocked without a token; the list of the task page
takes rows that were caught up twice.

*Journal:* a torn archive makes every later rotation and read_all raise;
rotate_events says that it holds the lock throughout, its first scan and the
marker do not; the head of the module says the hot file keeps what follows the
marker, the code keeps all rows of the month; a kill while archive_evidence
removes a directory lets the next run overwrite the zip with what is left.

*Files:* sparse list indices bring an item back; a field that an item lacks is
that of the item before it at the index; the secrets cache goes by modification
time; a worker keeps a key that was replaced until it is restarted; a stale
page can bind a role to a model that has gone. `_private_npm` adds a string to
a path and raises, a script is left to the user and reported as skipped, which
counts as failed, other kinds of the manifest are unknown: every job that has
something to do fails. A manifest that cannot be read after the claim keeps the
single flight taken; a killed process leaves the job's file at running; the
flight is per process. A task entered by hand under another stage counts twice;
with weights far apart a task has the share 0.0, so 100 % can come before all
is done; a read of plan.json that fails once is saved as an empty plan by the
next writer.

## 7 What is not modelled

* Outbox export: export_events has no caller. A kill between its append and its
  update would export an event twice.
* Idempotency keys and the clarification of a draft (console API): planned.
* Pure functions validate_plan, detect_cycles, determine_verdict: planned as
  operators checked against definitions.
* Archive of a task's evidence, the restart budget of the watchdog (Restart may
  or may not come), recovery.py (no caller outside its tests).
* Executors that start a tool and parsers of what it prints, the gate's checks,
  the reviewing prompt: choices of outcome where they are called.
* Which event makes which mail, throttling, templates and SMTP; the chat and
  file routes; types, views and mock of the page.
* In setup: detection, node binaries, migration of old files. Launcher and
  intake texts, memory files, roots, paths, reports: text and files of one actor.

## 8 The plan

Order: what decides about work first, then what it costs, then what records and
shows it, then the files. All modules of that order exist; what is to come:

1. Properties over the modules there are: two harnesses on one task (Tasks);
   the directories two workers share, tasks planned twice after a kill, a proposal applied twice
   (Turns); a switch while a chat launches (Channel).
2. A second project in Tasks: one queue of confirmations serves all loops, and
   release does not ask which files the running tasks write.
3. Requests over Kernel's goals: idempotency keys, drafts, requirements appended
   while the draft is frozen. The outbox, if it gets a caller.
4. Pure functions in one run over bounded inputs.
5. Proofs: what is left of GoalCloses and ChargedOnce under KernelCalls, where
   both fail as they stand: a todo is charged at most once for each thread that
   read it in flight.
