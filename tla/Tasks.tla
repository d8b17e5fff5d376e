-------------------------------- MODULE Tasks --------------------------------
(***************************************************************************)
(* The task chain of the console server, beside the kernel: the tasks of   *)
(* one project with the state machine of fleet/core, worked by scheduling  *)
(* loops and by threads that console requests start (fleet/manager), and   *)
(* watched by the stuck scan (fleet/rel).                                  *)
(*                                                                         *)
(* Every state change is one transition_and_log, which reads the state,    *)
(* refuses an edge that TRANSITIONS does not have and writes.  Between two *)
(* of them a thread runs a harness, a gate or a model for minutes, and     *)
(* other threads, the user and the scan act.                               *)
(***************************************************************************)
EXTENDS Integers, Sequences

CONSTANTS
  Plan,        (* the tasks of the project: a sequence of [deps, files]     *)
  MaxTask,     (* bound: number of tasks with their successors              *)
  Threshold,   (* REWORK_ESCALATE_THRESHOLD                                 *)
  Hand,        (* threads that console requests may start                   *)
  Requests,    (* what they do: "dispatch" a released task, or "complete"   *)
  Enabled,     (* FLEET_SCHEDULER=1                                         *)
  Modes,       (* modes the user may choose: auto, step                     *)
  MaxConfirms, (* bound: confirmations waiting                              *)
  MaxCrashes   (* bound: crashes of the server                              *)

Task == 1..MaxTask

ASSUME TasksAssumption ==
  /\ MaxTask \in Nat /\ Plan \in Seq([deps : SUBSET Task, files : SUBSET STRING])
  /\ Len(Plan) <= MaxTask
  /\ \A n \in DOMAIN Plan : \A d \in Plan[n].deps : d < n
  /\ Threshold \in Nat /\ MaxConfirms \in Nat /\ MaxCrashes \in Nat
  /\ Requests \subseteq {"dispatch", "complete"} /\ Enabled \in BOOLEAN
  /\ Modes \subseteq {"auto", "step"} /\ Modes # {}
  /\ Hand \cap {"project", "global"} = {}

VARIABLES
  tasks,    \* the rows of the table tasks
  threads,  \* what each thread is doing
  bus,      \* ControlBus
  up,       \* the server runs
  crashes

taskVars == <<tasks, threads, bus, up, crashes>>

Terminal == {"DONE", "PARTIAL", "ESCALATED"}
State == {"DRAFT", "ASSIGNED", "DOING", "SUBMITTED", "REVIEWING", "REWORK", "BLOCKED"} \cup Terminal

(* TRANSITIONS.                                                            *)
Edges == [DRAFT |-> {"ASSIGNED"},
          ASSIGNED |-> {"DOING", "BLOCKED"},
          DOING |-> {"SUBMITTED", "BLOCKED"},
          SUBMITTED |-> {"REVIEWING", "BLOCKED"},
          REVIEWING |-> {"DONE", "PARTIAL", "REWORK", "BLOCKED"},
          REWORK |-> {"ASSIGNED", "ESCALATED"},
          BLOCKED |-> {"ASSIGNED"},
          DONE |-> {}, PARTIAL |-> {}, ESCALATED |-> {}]

(* of: the tasks this one is a successor of (T01-R1-R1 is one of T01-R1    *)
(* and of T01).  base: the rework count it was created with (history).     *)
Row(deps, files, of, rework) ==
  [state |-> "DRAFT", rework |-> rework, base |-> rework,
   deps |-> deps, files |-> files, of |-> of]
NoRow == [Row({}, {}, {}, 0) EXCEPT !.state = "absent"]

Loop   == {"project", "global"}
Thread == Loop \cup Hand

(* pc     what the thread does next                                        *)
(* task   the task it works on, job: "dispatch" stops once it is submitted *)
(* listed, submitted: what a loop has listed and not yet taken             *)
(* once   the tick is a step: it takes one item                            *)
(* seen   the state the review started from                                *)
Off  == [pc |-> "off", task |-> 0, job |-> "none", listed |-> {}, submitted |-> {},
         once |-> FALSE, seen |-> "none"]
Idle == [Off EXCEPT !.pc = "idle"]

Mine(p)   == tasks[threads[p].task]
At(p, pc) == threads[p].pc = pc

Become(p, thread) == threads' = [threads EXCEPT ![p] = thread]
Go(p, pc)         == Become(p, [threads[p] EXCEPT !.pc = pc])

(* A thread is done with its task.                                         *)
Leave(p) ==
  IF p \in Loop
  THEN Become(p, [threads[p] EXCEPT !.pc = "next", !.task = 0, !.job = "none", !.seen = "none"])
  ELSE Become(p, Off)

(* An exception: a loop persists it, a request answers with it.            *)
Raise(p) == IF p \in Loop THEN Go(p, "persisting") ELSE Become(p, Off)

(* assert_transition.                                                      *)
Legal(from, to) == to \in Edges[from]

Set(t, to) == tasks' = [tasks EXCEPT ![t].state = to]

(* transition_and_log.                                                     *)
Move(p, to, next) ==
  \/ Legal(Mine(p).state, to) /\ Set(threads[p].task, to) /\ next
  \/ ~Legal(Mine(p).state, to) /\ UNCHANGED tasks /\ Raise(p)

-----------------------------------------------------------------------------
(* What is ready.                                                          *)

InState(state) == {t \in Task : tasks[t].state = state}

Satisfied_Ended(d) == tasks[d].state \in Terminal
Satisfied(d) ==
  \/ tasks[d].state = "DONE"
  \/ \E u \in Task : d \in tasks[u].of /\ tasks[u].state = "DONE"

(* No range is no restriction: two such tasks may run side by side, but    *)
(* none of them beside a restricted one.                                   *)
Conflict(a, b) ==
  \/ a \cap b # {}
  \/ (a = {}) # (b = {})

Contended(t) == \E u \in InState("DOING") \ {t} : Conflict(tasks[t].files, tasks[u].files)

Ready(t) ==
  /\ tasks[t].state = "ASSIGNED"
  /\ \A d \in tasks[t].deps : Satisfied(d)
  /\ ~Contended(t)

Oldest(S) == {t \in S : \A u \in S : t <= u}

-----------------------------------------------------------------------------
(* A scheduling loop: run_loop, schedule_once.                             *)

Tick_Unasked(p) ==
  /\ p \in Loop /\ At(p, "idle")
  /\ bus' = IF bus.mode = "step" THEN [bus EXCEPT !.confirms = @ - 1] ELSE bus
  /\ Become(p, [Idle EXCEPT !.pc = "collecting", !.listed = InState("DRAFT"),
                            !.once = bus.mode = "step"])
  /\ UNCHANGED tasks
Tick(p) ==
  /\ p \in Loop /\ At(p, "idle")
  /\ bus.mode = "step" => bus.confirms > 0
  /\ bus' = IF bus.mode = "step" THEN [bus EXCEPT !.confirms = @ - 1] ELSE bus
  /\ Become(p, [Idle EXCEPT !.pc = "collecting", !.listed = InState("DRAFT"),
                            !.once = bus.mode = "step"])
  /\ UNCHANGED tasks

(* collect_drafts; an exception ends the tick.                             *)
Collect(p) ==
  /\ At(p, "collecting")
  /\ \E t \in Oldest(threads[p].listed) :
       IF Legal(tasks[t].state, "ASSIGNED")
       THEN Set(t, "ASSIGNED") /\ Become(p, [threads[p] EXCEPT !.listed = @ \ {t}])
       ELSE UNCHANGED tasks /\ Become(p, Idle)
  /\ UNCHANGED bus

ListReady(p) ==
  /\ At(p, "collecting") /\ threads[p].listed = {}
  /\ Become(p, [threads[p] EXCEPT !.pc = "listing", !.listed = {t \in Task : Ready(t)}])
  /\ UNCHANGED <<tasks, bus>>

ListSubmitted_ReadyOnly(p) == At(p, "listing") /\ Go(p, "next") /\ UNCHANGED <<tasks, bus>>

(* A step takes the first submitted task, or else the first ready one.     *)
ListSubmitted(p) ==
  LET submitted == InState("SUBMITTED")
      ready == threads[p].listed
      list == IF ~threads[p].once THEN <<ready, submitted>>
              ELSE IF submitted = {} THEN <<Oldest(ready), {}>>
              ELSE <<{}, Oldest(submitted)>>
  IN
  /\ At(p, "listing")
  /\ Become(p, [threads[p] EXCEPT !.pc = "next", !.listed = list[1], !.submitted = list[2]])
  /\ UNCHANGED <<tasks, bus>>

(* The ready tasks come first, then the submitted ones.                    *)
Take(p) ==
  LET ready == threads[p].listed
      submitted == threads[p].submitted
  IN
  /\ At(p, "next")
  /\ \/ ready = {} /\ submitted = {} /\ Become(p, Idle)
     \/ \E t \in Oldest(ready) :
          Become(p, [threads[p] EXCEPT !.pc = "dispatching", !.task = t,
                       !.job = "dispatch", !.listed = @ \ {t}])
     \/ ready = {} /\ \E t \in Oldest(submitted) :
          Become(p, [threads[p] EXCEPT !.pc = "dispatching", !.task = t,
                       !.job = "complete", !.submitted = @ \ {t}])
  /\ UNCHANGED <<tasks, bus>>

(* _persist_dispatch_failure.                                              *)
Persist(p) ==
  /\ At(p, "persisting")
  /\ IF Legal(Mine(p).state, "BLOCKED") THEN Set(threads[p].task, "BLOCKED") ELSE UNCHANGED tasks
  /\ Leave(p)
  /\ UNCHANGED bus

-----------------------------------------------------------------------------
(* dispatch.                                                               *)

Dispatch(p) ==
  LET state == Mine(p).state IN
  /\ At(p, "dispatching")
  /\ \/ state = "DOING" /\ Leave(p) /\ UNCHANGED tasks
     \/ /\ state = "SUBMITTED" /\ UNCHANGED tasks
        /\ IF threads[p].job = "complete" THEN Go(p, "reviewing") ELSE Leave(p)
     \/ state = "DRAFT" /\ Move(p, "ASSIGNED", Go(p, "prepared"))
     \/ state = "ASSIGNED" /\ Go(p, "prepared") /\ UNCHANGED tasks
     \/ state \notin {"DOING", "SUBMITTED", "DRAFT", "ASSIGNED"} /\ Raise(p) /\ UNCHANGED tasks
  /\ UNCHANGED bus

(* No adapter of the task, its role, the chain of the role or the fallback *)
(* can be resolved: _block.                                                *)
NoAdapter(p) == Move(p, "BLOCKED", Leave(p))

(* The baseline is captured and the row read again.                        *)
Start(p) ==
  /\ At(p, "prepared")
  /\ IF Mine(p).state = "DOING" THEN Leave(p) /\ UNCHANGED tasks
     ELSE NoAdapter(p) \/ Move(p, "DOING", Go(p, "running"))
  /\ UNCHANGED bus

(* The harness returns.  A task blocked meanwhile counts as failed, and to *)
(* block it again is not legal.                                            *)
Return(p) ==
  /\ At(p, "running")
  /\ \/ Move(p, "BLOCKED", Leave(p))
     \/ /\ Mine(p).state \notin {"BLOCKED", "ESCALATED"}
        /\ Move(p, "SUBMITTED", IF threads[p].job = "complete" THEN Go(p, "reviewing") ELSE Leave(p))
  /\ UNCHANGED bus

-----------------------------------------------------------------------------
(* review and the rework after it.                                         *)

Review(p) ==
  /\ At(p, "reviewing")
  /\ IF Mine(p).state \in {"SUBMITTED", "REVIEWING"}
     THEN Become(p, [threads[p] EXCEPT !.pc = "gating", !.seen = Mine(p).state])
     ELSE Raise(p)
  /\ UNCHANGED <<tasks, bus>>

(* The machine gate cannot run, or it passes or fails.                     *)
Gate(p) ==
  /\ At(p, "gating")
  /\ \/ Move(p, "BLOCKED", Leave(p))
     \/ \E next \in {"judging", "reworking"} :
          IF threads[p].seen = "SUBMITTED" THEN Move(p, "REVIEWING", Go(p, next))
          ELSE Go(p, next) /\ UNCHANGED tasks
  /\ UNCHANGED bus

(* resolve_rework_target.                                                  *)
ReworkTarget_Late(count) == IF count > Threshold + 1 THEN "ESCALATED" ELSE "ASSIGNED"
ReworkTarget(count) == IF count > Threshold THEN "ESCALATED" ELSE "ASSIGNED"

(* bump_rework: REVIEWING -> REWORK is checked, and only from REVIEWING;   *)
(* what it writes is the state after it.                                   *)
Bump(p) ==
  LET count == Mine(p).rework + 1 IN
  /\ Mine(p).state = "REVIEWING" => Legal("REVIEWING", "REWORK")
  /\ tasks' = [tasks EXCEPT ![threads[p].task].rework = count,
                            ![threads[p].task].state = ReworkTarget(count)]
  /\ Go(p, "handling")

(* _rework: a failed gate, or the verdict.                                 *)
Rework(p) == Bump(p)

(* The other verdicts; BLOCKED also stands for a receipt with two of them  *)
(* or none.                                                                *)
Verdicts == {"DONE", "PARTIAL", "BLOCKED"}

Judge(p) ==
  /\ At(p, "judging")
  /\ \/ \E verdict \in Verdicts : Move(p, verdict, Leave(p))
     \/ Rework(p)
  /\ UNCHANGED bus

GateFailed(p) == At(p, "reworking") /\ Rework(p) /\ UNCHANGED bus

(* handle_rework; then run_to_completion dispatches once more.  Its cap of *)
(* rounds is never met: the threshold ends it first.                       *)
HandleRework(p) ==
  /\ At(p, "handling")
  /\ CASE Mine(p).state = "ESCALATED" -> Leave(p)
       [] Mine(p).state = "ASSIGNED"  -> Go(p, "dispatching")
       [] OTHER                       -> Raise(p)
  /\ UNCHANGED <<tasks, bus>>

-----------------------------------------------------------------------------
(* The console and the stuck scan, while the server is up.                 *)

SetMode(mode) == bus' = [bus EXCEPT !.mode = mode] /\ UNCHANGED <<tasks, threads>>

Confirm ==
  /\ bus.confirms < MaxConfirms
  /\ bus' = [bus EXCEPT !.confirms = @ + 1]
  /\ UNCHANGED <<tasks, threads>>

(* The routes: the mode by either of its names; a confirmation of any task *)
(* or none is one item of the queue.                                       *)
ApiMode == \E mode \in Modes : SetMode(mode)
ApiConfirm == Confirm

Request_Completes(h, t) ==
  /\ At(h, "off") /\ tasks[t].state = "BLOCKED" /\ Set(t, "ASSIGNED")
  /\ Become(h, [Off EXCEPT !.pc = "dispatching", !.task = t, !.job = "complete"])
  /\ UNCHANGED bus

(* A blocked task is released and dispatched by a thread of its own, or    *)
(* any task is run to completion.                                          *)
Request(h, t) ==
  /\ At(h, "off") /\ tasks[t].state # "absent"
  /\ \E job \in Requests :
       /\ Become(h, [Off EXCEPT !.pc = "dispatching", !.task = t, !.job = job])
       /\ IF job = "dispatch" THEN tasks[t].state = "BLOCKED" /\ Set(t, "ASSIGNED")
          ELSE UNCHANGED tasks
  /\ UNCHANGED bus

Release_Forgetful(t) ==
  LET row == tasks[t] IN
  /\ row.state = "ESCALATED"
  /\ \E u \in Oldest(InState("absent")) :
       tasks' = [tasks EXCEPT ![u] = Row(row.deps, row.files, row.of \cup {t}, 0)]
  /\ UNCHANGED <<threads, bus>>

(* confirm_release: a successor with a new id, in the place of the task.   *)
Release(t) ==
  LET row == tasks[t] IN
  /\ row.state = "ESCALATED"
  /\ \E u \in Oldest(InState("absent")) :
       tasks' = [tasks EXCEPT ![u] = Row(row.deps, row.files, row.of \cup {t}, row.rework)]
  /\ UNCHANGED <<threads, bus>>

(* The chat starts the loop of the project if none runs.                   *)
Relaunch == At("project", "off") /\ Become("project", Idle) /\ UNCHANGED <<tasks, bus>>

(* A task stays in DOING for twice the limit.                              *)
StuckScan(t) ==
  /\ up
  /\ tasks[t].state = "DOING"
  /\ Set(t, "BLOCKED")
  /\ UNCHANGED <<threads, bus, up, crashes>>

-----------------------------------------------------------------------------
(* The server is killed, and started again.                                *)

Booted(resume) ==
  [p \in Thread |-> IF Enabled /\ (p = "global" \/ (p = "project" /\ resume)) THEN Idle ELSE Off]

Resumable == \E t \in Task :
  tasks[t].state \in {"DRAFT", "ASSIGNED", "DOING", "SUBMITTED", "REWORK"}

NewBus(mode) == [mode |-> mode, confirms |-> 0]

Crash ==
  /\ up /\ crashes < MaxCrashes
  /\ up' = FALSE /\ crashes' = crashes + 1
  /\ threads' = [p \in Thread |-> Off]
  /\ UNCHANGED <<tasks, bus>>

Restart ==
  /\ ~up /\ up' = TRUE
  /\ threads' = Booted(Resumable)
  /\ \E mode \in Modes : bus' = NewBus(mode)
  /\ UNCHANGED <<tasks, crashes>>

-----------------------------------------------------------------------------
(* The chat has launched the project.                                      *)
TasksInit ==
  /\ tasks = [t \in Task |->
       IF t \in DOMAIN Plan THEN Row(Plan[t].deps, Plan[t].files, {}, 0) ELSE NoRow]
  /\ threads = [Booted(TRUE) EXCEPT !["project"] = Idle]
  /\ \E mode \in Modes : bus = NewBus(mode)
  /\ up = TRUE /\ crashes = 0

Schedule(p) == Tick(p) \/ Collect(p) \/ ListReady(p) \/ ListSubmitted(p) \/ Take(p) \/ Persist(p)
Execute(p)  == Dispatch(p) \/ Start(p) \/ Return(p)
Assess(p)   == Review(p) \/ Gate(p) \/ Judge(p) \/ GateFailed(p) \/ HandleRework(p)

Advance(p) == (Schedule(p) \/ Execute(p) \/ Assess(p)) /\ UNCHANGED <<up, crashes>>

Console ==
  /\ up /\ UNCHANGED <<up, crashes>>
  /\ \/ ApiMode \/ ApiConfirm
     \/ \E h \in Hand, t \in Task : Request(h, t)
     \/ \E t \in Task : Release(t)
     \/ Relaunch

TasksNext ==
  \/ \E p \in Thread : Advance(p)
  \/ \E t \in Task : StuckScan(t)
  \/ Console \/ Crash \/ Restart

(* Threads go on while the server runs, harnesses, gates and models have   *)
(* timeouts, and the scan comes every minute.  Nothing is assumed of the   *)
(* user and of who starts the server.                                      *)
TasksSafety == TasksInit /\ [][TasksNext]_taskVars
TasksFairness ==
  /\ \A p \in Thread : WF_taskVars(Advance(p))
  /\ \A t \in Task : WF_taskVars(StuckScan(t))
TasksSpec == TasksSafety /\ TasksFairness

-----------------------------------------------------------------------------
(* Properties.                                                             *)

TasksTypeOK ==
  /\ \A t \in Task :
       /\ tasks[t].state \in State \cup {"absent"}
       /\ tasks[t].rework \in Nat /\ tasks[t].base \in Nat
       /\ tasks[t].deps \cup tasks[t].of \subseteq Task
  /\ \A p \in Thread : threads[p].task \in Task \cup {0}
  /\ bus.mode \in Modes /\ bus.confirms \in 0..MaxConfirms

(* As long as one thread reviews, nothing that was read before a release,  *)
(* a block or another run and is written after it moves a task that is     *)
(* done, partial or escalated.                                             *)
OneReviewer == ~Enabled /\ "complete" \notin Requests
FinalStays == \A t \in Task :
  tasks[t].state \in Terminal => tasks'[t].state = tasks[t].state
FinalIfOneReviewer == [][OneReviewer => FinalStays]_taskVars

(* A task is sent back Threshold times at most, a successor not once more  *)
(* than the count it inherited allows, and then it is escalated.           *)
ReworkBounded ==
  \A t \in Task :
    LET limit == IF tasks[t].base > Threshold THEN tasks[t].base ELSE Threshold IN
    /\ tasks[t].rework <= limit + 1
    /\ tasks[t].rework > limit => tasks[t].state = "ESCALATED"

(* What a task depends on is done, by itself or by a successor, from the   *)
(* moment the task is worked on, although releases, blocks and reworks     *)
(* come in between.                                                        *)
Fulfilled(d) == \E u \in Task : (u = d \/ d \in tasks[u].of) /\ tasks[u].state = "DONE"
DependenciesFirst ==
  \A t \in Task :
    tasks[t].state \in {"DOING", "SUBMITTED", "REVIEWING", "DONE", "PARTIAL", "ESCALATED"}
      => \A d \in tasks[t].deps : Fulfilled(d)

(* As long as one thread reviews, a task has the life that TaskLife says:  *)
(* opened once, sent back with each rework counted, and ended once, given  *)
(* up exactly when the count passes the threshold; its successor starts    *)
(* with that count.                                                        *)
StageOf(state) ==
  CASE state = "absent"            -> "absent"
    [] state = "DRAFT"             -> "planned"
    [] state = "ESCALATED"         -> "escalated"
    [] state \in {"DONE", "PARTIAL"} -> "done"
    [] OTHER                       -> "open"
LifeOf == [t \in Task |-> [stage |-> StageOf(tasks[t].state), tries |-> tasks[t].rework]]
Lives == INSTANCE TaskLife WITH life <- LifeOf
LifeIsKept == Lives!Spec

(* While the loop of the project runs in auto mode, a task that is new,    *)
(* ready, being done or submitted comes to its review or is blocked,       *)
(* unless conflicting tasks keep coming: whatever became of the thread     *)
(* that ran it before a crash or a release.                                *)
LoopStays == <>[](up /\ ~At("project", "off") /\ bus.mode = "auto")
Waits(t) == tasks[t].state \in {"DRAFT", "DOING", "SUBMITTED"} \/ Ready(t)
ChainMoves ==
  LoopStays => \A t \in Task : <>[]~Contended(t) => (Waits(t) ~> ~Waits(t))

-----------------------------------------------------------------------------
(* Statements of the repository that the code does not keep.               *)

(* "An illegal transition must raise and is not written" (the head of      *)
(* state_machine.py): states follow the edges, REWORK is passed through.   *)
Follows(from, to) ==
  \/ from = "absent" \/ Legal(from, to)
  \/ Legal(from, "REWORK") /\ Legal("REWORK", to)
EdgesAreKept == [][\A t \in Task :
  tasks'[t].state # tasks[t].state => Follows(tasks[t].state, tasks'[t].state)]_taskVars

(* "is_terminal: there is no edge out of it any more" (state_machine.py).  *)
TerminalFinal == [][FinalStays]_taskVars

(* "REVIEWING: judged again" after a restart (rel/recovery.py): once the   *)
(* loop of the project runs again, a task in review gets its verdict.      *)
ReviewResumes ==
  LoopStays => \A t \in Task : tasks[t].state = "REVIEWING" ~> tasks[t].state # "REVIEWING"

=============================================================================
