----------------------------- MODULE TasksProofs -----------------------------
(***************************************************************************)
(* Proofs about Tasks when one thread reviews: ended tasks stay ended,     *)
(* reworks are bounded, and dependencies come first, for every plan, every *)
(* threshold, any number of tasks and of threads that release them, and    *)
(* any number of crashes.                                                  *)
(***************************************************************************)
EXTENDS Tasks, TLAPS

(* A task that no judge works on: it is not there, was never begun or ended*)
Closed == Terminal \cup {"absent", "DRAFT"}

USE TasksAssumption DEF Task, Loop, Thread, Terminal, State, Closed

-----------------------------------------------------------------------------
(* The inductive invariant.                                                *)

TaskRow == [state : State \cup {"absent"}, rework : Nat, base : Nat,
            deps : SUBSET Task, files : SUBSET STRING, of : SUBSET Task]

Resting == {"off", "idle", "collecting", "listing", "next"}
Handed  == {"dispatching", "prepared", "running"}
Judging == {"gating", "judging", "reworking"}
Busy    == Handed \cup Judging \cup {"reviewing", "handling", "persisting"}

ThreadRow == [pc : Resting \cup Busy, task : Task \cup {0},
              job : {"none", "dispatch", "complete"},
              listed : SUBSET Task, submitted : SUBSET Task, once : BOOLEAN,
              seen : {"none", "SUBMITTED", "REVIEWING"}]

TablesOK ==
  /\ tasks \in [Task -> TaskRow]
  /\ threads \in [Thread -> ThreadRow]
  /\ bus \in [mode : Modes, confirms : 0..MaxConfirms]

(* Only the loop of the project reviews: what each thread may be doing.    *)
ThreadOK(p, thread) ==
  /\ thread \in ThreadRow
  /\ thread.pc \in Busy => thread.task \in Task
  /\ p = "global" => thread.pc = "off"
  /\ p \in Hand => thread.pc \in {"off"} \cup Handed /\ thread.job # "complete"
Solo == \A p \in Thread : ThreadOK(p, threads[p])

(* A task under judgement was begun and has not ended, although it may     *)
(* have been blocked.                                                      *)
JudgesOpen(thread, ts) == thread.pc \in Judging => ts[thread.task].state \notin Closed
ReviewOpen == JudgesOpen(threads["project"], tasks)

(* A task that was let through once has its dependencies done; so has one  *)
(* that a thread works on or has listed.                                   *)
Cleared(t) == tasks[t].state # "absent" /\ \A d \in tasks[t].deps : Fulfilled(d)
Begun(state) == state \notin {"absent", "DRAFT", "ASSIGNED"}
InHand(thread) ==
  (IF thread.pc \in Busy THEN {thread.task} ELSE {})
    \cup (IF thread.pc = "collecting" THEN {} ELSE thread.listed)
    \cup thread.submitted
ClearedFirst ==
  /\ \A t \in Task : Begun(tasks[t].state) => Cleared(t)
  /\ \A p \in Thread : \A t \in InHand(threads[p]) : Cleared(t)

(* What is listed exists.                                                  *)
DraftsExist == \A p \in Thread : \A t \in threads[p].listed : tasks[t].state # "absent"

TasksInv ==
  TablesOK /\ Solo /\ ReviewOpen /\ ReworkBounded /\ ClearedFirst /\ DraftsExist

-----------------------------------------------------------------------------
(* What a step does to the rows, and what a thread is doing after its step.*)

Moved(t, to) ==
  /\ Begun(to) => Cleared(t)
  /\ tasks[t].state \in State /\ to \in Edges[tasks[t].state] /\ to # "ESCALATED"
  /\ tasks' = [tasks EXCEPT ![t].state = to]
Bumped(t) ==
  /\ Cleared(t) /\ tasks[t].state \notin Closed
  /\ tasks' = [tasks EXCEPT ![t].rework = tasks[t].rework + 1,
                            ![t].state = ReworkTarget(tasks[t].rework + 1)]
Released(t, u) ==
  /\ tasks[t].state = "ESCALATED" /\ tasks[u].state = "absent"
  /\ tasks' = [tasks EXCEPT ![u] = Row(tasks[t].deps, tasks[t].files,
                                       tasks[t].of \cup {t}, tasks[t].rework)]
TaskStep ==
  \/ tasks' = tasks
  \/ \E t \in Task, to \in State : Moved(t, to)
  \/ \E t \in Task : Bumped(t)
  \/ \E t, u \in Task : Released(t, u)

EndsNothing ==
  \A t \in Task : tasks[t].state \notin Closed => tasks'[t].state \notin Closed

Continues(p, thread) ==
  /\ threads' = [threads EXCEPT ![p] = thread]
  /\ ThreadOK(p, thread)
  /\ \A t \in InHand(thread) : Cleared(t)
  /\ \A t \in thread.listed : tasks[t].state # "absent"
ThreadStep(p) ==
  /\ TaskStep
  /\ \E thread : /\ Continues(p, thread)
                 /\ IF p = "project" THEN JudgesOpen(thread, tasks') ELSE EndsNothing

(* What the threads are by the invariant.                                  *)
LEMMA ThreadFacts ==
  ASSUME TasksInv, NEW p \in Thread
  PROVE  /\ threads[p] \in ThreadRow /\ ThreadOK(p, threads[p])
         /\ p # "global" \/ threads[p].pc = "off"
         /\ threads[p].pc \in Busy => /\ threads[p].task \in Task /\ Cleared(threads[p].task)
                                      /\ Mine(p) \in TaskRow /\ Mine(p).state \in State
<1>1. threads[p] \in ThreadRow /\ ThreadOK(p, threads[p])
  BY DEF TasksInv, TablesOK, Solo
<1>2. threads[p].pc \in Busy => threads[p].task \in Task /\ Cleared(threads[p].task)
  BY <1>1 DEF TasksInv, ClearedFirst, InHand, ThreadOK
<1>3. threads[p].pc \in Busy => Mine(p) \in TaskRow /\ Mine(p).state \in State
  BY <1>2 DEF TasksInv, TablesOK, TaskRow, Mine, Cleared
<1> QED
  BY <1>1, <1>2, <1>3 DEF ThreadOK

(* Only the loop of the project has a tick, reviews and persists.          *)
LEMMA OnlyProject ==
  ASSUME TasksInv, NEW p \in Thread, threads[p].pc # "off", threads[p].pc \notin Handed
  PROVE  p = "project"
BY ThreadFacts DEF ThreadOK

LEMMA OffRow ==
  /\ Off \in ThreadRow /\ Idle \in ThreadRow
  /\ Off.pc = "off" /\ Off.job = "none" /\ Off.listed = {} /\ Off.submitted = {}
  /\ Idle.pc = "idle" /\ Idle.listed = {} /\ Idle.submitted = {}
<1>1. /\ Off \in ThreadRow /\ Off.pc = "off" /\ Off.job = "none"
      /\ Off.listed = {} /\ Off.submitted = {}
  BY DEF Off, ThreadRow, Resting
<1>2. Idle \in ThreadRow /\ Idle.pc = "idle"
  BY <1>1 DEF Idle, ThreadRow, Resting
<1>3. Idle.listed = Off.listed /\ Idle.submitted = Off.submitted
  BY <1>1 DEF Idle, ThreadRow
<1> QED
  BY <1>1, <1>2, <1>3

-----------------------------------------------------------------------------
(* The ways in which a thread that has a task goes on: it leaves the task  *)
(* or raises (Quits), or it goes to its next step (Stays).                 *)

Quits(p)     == \E thread : Continues(p, thread) /\ thread.pc \notin Judging
Stays(p, pc) == \E thread : /\ Continues(p, thread)
                            /\ thread.pc = pc /\ thread.task = threads[p].task

LEMMA GoStays ==
  ASSUME TasksInv, NEW p \in Thread, threads[p].pc \in Busy,
         NEW pc \in Busy, p = "project" \/ pc \in Handed, Go(p, pc)
  PROVE  Stays(p, pc)
<1> DEFINE thread == [threads[p] EXCEPT !.pc = pc]
<1>1. /\ thread \in ThreadRow /\ thread.pc = pc /\ thread.task = threads[p].task
      /\ thread.listed = threads[p].listed /\ thread.submitted = threads[p].submitted
      /\ thread.job = threads[p].job
  BY ThreadFacts DEF ThreadRow
<1>2. ThreadOK(p, thread)
  BY <1>1, ThreadFacts DEF ThreadOK, Busy, Handed, Judging
<1>3. InHand(thread) = InHand(threads[p])
  BY <1>1 DEF InHand, Busy, Handed, Judging
<1>4. threads' = [threads EXCEPT ![p] = thread]
  BY DEF Go, Become
<1> HIDE DEF thread
<1> QED
  BY <1>1, <1>2, <1>3, <1>4 DEF Stays, Continues, TasksInv, ClearedFirst, DraftsExist

LEMMA LeaveQuits ==
  ASSUME TasksInv, NEW p \in Thread, threads[p].pc \in Busy, Leave(p)
  PROVE  Quits(p)
<1>1. CASE p \in Loop
  <2> DEFINE thread == [threads[p] EXCEPT !.pc = "next", !.task = 0, !.job = "none", !.seen = "none"]
  <2>1. /\ thread \in ThreadRow /\ thread.pc = "next"
        /\ thread.listed = threads[p].listed /\ thread.submitted = threads[p].submitted
    BY ThreadFacts, ZenonT(40) DEF ThreadRow, Resting
  <2>2. ThreadOK(p, thread)
    BY <1>1, <2>1, ThreadFacts DEF ThreadOK, Busy, Handed, Judging
  <2>3. InHand(thread) \subseteq InHand(threads[p])
    BY <2>1 DEF InHand, Busy, Handed, Judging
  <2>4. threads' = [threads EXCEPT ![p] = thread]
    BY <1>1 DEF Leave, Become
  <2> HIDE DEF thread
  <2> QED
    BY <2>1, <2>2, <2>3, <2>4
    DEF Quits, Continues, TasksInv, ClearedFirst, DraftsExist, Judging
<1>2. CASE p \notin Loop
  <2>1. threads' = [threads EXCEPT ![p] = Off]
    BY <1>2 DEF Leave, Become
  <2>2. ThreadOK(p, Off) /\ InHand(Off) = {} /\ Off.listed = {} /\ Off.pc \notin Judging
    BY <1>2, OffRow DEF ThreadOK, InHand, Busy, Handed, Judging
  <2> QED
    BY <2>1, <2>2 DEF Quits, Continues
<1> QED
  BY <1>1, <1>2

LEMMA RaiseQuits ==
  ASSUME TasksInv, NEW p \in Thread, threads[p].pc \in Busy, Raise(p)
  PROVE  Quits(p)
<1>1. CASE p \in Loop
  <2>1. p = "project"
    BY <1>1, ThreadFacts DEF Busy, Handed, Judging
  <2>2. Go(p, "persisting")
    BY <1>1 DEF Raise
  <2>3. Stays(p, "persisting")
    BY <2>1, <2>2, GoStays DEF Busy
  <2> QED
    BY <2>3 DEF Quits, Stays, Judging
<1>2. CASE p \notin Loop
  <2>1. Leave(p)
    BY <1>2 DEF Raise, Leave
  <2> QED
    BY <2>1, LeaveQuits
<1> QED
  BY <1>1, <1>2

(* The rows of a step.                                                     *)
LEMMA SameTasks == tasks' = tasks => TaskStep /\ EndsNothing
BY DEF TaskStep, EndsNothing

LEMMA SetMoves ==
  ASSUME TasksInv, NEW t \in Task, NEW to \in State \ {"ESCALATED"}, tasks[t].state \in State,
         Legal(tasks[t].state, to), Begun(to) => Cleared(t), Set(t, to)
  PROVE  /\ TaskStep
         /\ tasks'[t].state = to
         /\ to \notin Closed => EndsNothing
<1>1. Moved(t, to)
  BY DEF Moved, Legal, Set
<1>2. tasks'[t].state = to /\ \A u \in Task : u # t => tasks'[u] = tasks[u]
  BY DEF TasksInv, TablesOK, TaskRow, Set
<1> QED
  BY <1>1, <1>2 DEF TaskStep, EndsNothing

(* A thread that moves its task and goes on or leaves.                     *)
LEMMA Combined ==
  ASSUME NEW p \in Thread, TaskStep, EndsNothing \/ p = "project",
         \/ Quits(p)
         \/ \E pc \in Busy \ Judging : Stays(p, pc)
         \/ /\ p = "project" /\ tasks'[threads[p].task].state \notin Closed
            /\ \E pc \in Judging : Stays(p, pc)
  PROVE  ThreadStep(p)
BY DEF ThreadStep, Quits, Stays, JudgesOpen

-----------------------------------------------------------------------------
(* The tick of the loop.                                                   *)

LEMMA TickStep ==
  ASSUME TasksInv, NEW p \in Thread, Tick(p)
  PROVE  ThreadStep(p)
<1>1. p = "project"
  BY OnlyProject DEF Tick, At, Handed
<1> DEFINE thread == [Idle EXCEPT !.pc = "collecting", !.listed = InState("DRAFT"),
                                  !.once = bus.mode = "step"]
<1>2. /\ thread \in ThreadRow /\ thread.pc = "collecting"
      /\ thread.listed = InState("DRAFT") /\ thread.submitted = {}
  BY OffRow DEF ThreadRow, Resting, InState
<1>3. ThreadOK(p, thread)
  BY <1>1, <1>2 DEF ThreadOK, Busy, Handed, Judging
<1>4. InHand(thread) = {} /\ JudgesOpen(thread, tasks')
  BY <1>2 DEF InHand, JudgesOpen, Busy, Handed, Judging
<1>5. \A t \in thread.listed : tasks[t].state # "absent"
  BY <1>2 DEF InState
<1>6. tasks' = tasks /\ threads' = [threads EXCEPT ![p] = thread]
  BY DEF Tick, Become
<1> HIDE DEF thread
<1> QED
  BY <1>1, <1>3, <1>4, <1>5, <1>6 DEF ThreadStep, TaskStep, Continues

LEMMA CollectStep ==
  ASSUME TasksInv, NEW p \in Thread, Collect(p)
  PROVE  ThreadStep(p)
<1>1. p = "project"
  BY OnlyProject DEF Collect, At, Handed
<1>2. PICK t \in Oldest(threads[p].listed) :
        IF Legal(tasks[t].state, "ASSIGNED")
        THEN Set(t, "ASSIGNED") /\ Become(p, [threads[p] EXCEPT !.listed = @ \ {t}])
        ELSE UNCHANGED tasks /\ Become(p, Idle)
  BY DEF Collect
<1>3. t \in threads[p].listed /\ t \in Task /\ tasks[t].state \in State
  BY ThreadFacts DEF Oldest, ThreadRow, TasksInv, TablesOK, TaskRow, DraftsExist
<1>4. CASE Legal(tasks[t].state, "ASSIGNED")
  <2> DEFINE thread == [threads[p] EXCEPT !.listed = @ \ {t}]
  <2>1. /\ thread \in ThreadRow /\ thread.pc = "collecting"
        /\ thread.listed \subseteq threads[p].listed
        /\ thread.submitted = threads[p].submitted
    BY ThreadFacts DEF ThreadRow, Collect, At
  <2>2. threads' = [threads EXCEPT ![p] = thread]
    BY <1>2, <1>4 DEF Become
  <2>3. ThreadOK(p, thread) /\ thread.pc \notin Judging
    BY <1>1, <2>1 DEF ThreadOK, Busy, Handed, Judging
  <2>4. InHand(thread) \subseteq InHand(threads[p])
    BY <2>1 DEF InHand, Busy, Handed, Judging
  <2>5. TaskStep
    BY <1>2, <1>3, <1>4, SetMoves DEF Begun
  <2> HIDE DEF thread
  <2> QED
    BY <1>1, <2>1, <2>2, <2>3, <2>4, <2>5
    DEF ThreadStep, Continues, JudgesOpen, TasksInv, ClearedFirst, DraftsExist
<1>5. CASE ~Legal(tasks[t].state, "ASSIGNED")
  <2>1. threads' = [threads EXCEPT ![p] = Idle] /\ TaskStep
    BY <1>2, <1>5, SameTasks DEF Become
  <2>2. ThreadOK(p, Idle) /\ InHand(Idle) = {} /\ Idle.listed = {} /\ Idle.pc \notin Judging
    BY <1>1, OffRow DEF ThreadOK, InHand, Busy, Handed, Judging
  <2> QED
    BY <1>1, <2>1, <2>2 DEF ThreadStep, Continues, JudgesOpen
<1> QED
  BY <1>4, <1>5

(* What is ready has its dependencies done: Satisfied is Fulfilled.        *)
LEMMA ReadyCleared ==
  ASSUME TasksInv, NEW t \in Task, Ready(t)
  PROVE  Cleared(t)
<1>1. tasks[t].deps \subseteq Task
  BY DEF TasksInv, TablesOK, TaskRow
<1>2. \A d \in tasks[t].deps : Fulfilled(d)
  BY <1>1 DEF Ready, Satisfied, Fulfilled
<1> QED
  BY <1>2 DEF Ready, Cleared

LEMMA ListReadyStep ==
  ASSUME TasksInv, NEW p \in Thread, ListReady(p)
  PROVE  ThreadStep(p)
<1>1. p = "project"
  BY OnlyProject DEF ListReady, At, Handed
<1> DEFINE ready == {t \in Task : Ready(t)}
           thread == [threads[p] EXCEPT !.pc = "listing", !.listed = ready]
<1>2. /\ thread \in ThreadRow /\ thread.pc = "listing" /\ thread.listed = ready
      /\ thread.submitted = threads[p].submitted
  BY ThreadFacts, ZenonT(40) DEF ThreadRow, Resting
<1>3. ThreadOK(p, thread) /\ thread.pc \notin Judging
  BY <1>1, <1>2 DEF ThreadOK, Busy, Handed, Judging
<1>4. \A t \in ready : Cleared(t)
  BY ReadyCleared
<1>5. InHand(thread) \subseteq ready \cup InHand(threads[p])
  BY <1>2 DEF InHand, Busy, Handed, Judging
<1>6. TaskStep /\ threads' = [threads EXCEPT ![p] = thread]
  BY SameTasks DEF ListReady, Become
<1> HIDE DEF thread, ready
<1> QED
  BY <1>1, <1>2, <1>3, <1>4, <1>5, <1>6
  DEF ThreadStep, Continues, JudgesOpen, TasksInv, ClearedFirst, Cleared

LEMMA ListSubmittedStep ==
  ASSUME TasksInv, NEW p \in Thread, ListSubmitted(p)
  PROVE  ThreadStep(p)
<1>1. p = "project"
  BY OnlyProject DEF ListSubmitted, At, Handed
<1>2. PICK listed \in SUBSET Task, submitted \in SUBSET Task :
        /\ listed \subseteq threads[p].listed /\ submitted \subseteq InState("SUBMITTED")
        /\ Become(p, [threads[p] EXCEPT !.pc = "next", !.listed = listed,
                                        !.submitted = submitted])
  <2> DEFINE waiting == InState("SUBMITTED")
             ready == threads[p].listed
  <2>1. waiting \subseteq Task /\ ready \subseteq Task
    BY ThreadFacts DEF InState, ThreadRow
  <2>2. Oldest(waiting) \subseteq waiting /\ Oldest(ready) \subseteq ready
    BY DEF Oldest
  <2>3. CASE ~threads[p].once
    BY <2>1, <2>3 DEF ListSubmitted
  <2>4. CASE threads[p].once /\ waiting = {}
    BY <2>1, <2>2, <2>4 DEF ListSubmitted
  <2>5. CASE threads[p].once /\ waiting # {}
    BY <2>1, <2>2, <2>5 DEF ListSubmitted
  <2> QED
    BY <2>3, <2>4, <2>5
<1> DEFINE thread == [threads[p] EXCEPT !.pc = "next", !.listed = listed,
                                        !.submitted = submitted]
<1>3. /\ thread \in ThreadRow /\ thread.pc = "next"
      /\ thread.listed = listed /\ thread.submitted = submitted
  BY ThreadFacts DEF ThreadRow, Resting
<1>4. ThreadOK(p, thread) /\ thread.pc \notin Judging
  BY <1>1, <1>3 DEF ThreadOK, Busy, Handed, Judging
<1>5. \A t \in InState("SUBMITTED") : Cleared(t)
  BY DEF InState, TasksInv, ClearedFirst, Begun
<1>6. InHand(thread) \subseteq InState("SUBMITTED") \cup InHand(threads[p])
  BY <1>2, <1>3 DEF InHand, Busy, Handed, Judging, ListSubmitted, At
<1>7. TaskStep /\ threads' = [threads EXCEPT ![p] = thread]
  BY <1>2, SameTasks DEF ListSubmitted, Become
<1> HIDE DEF thread
<1> QED
  BY <1>1, <1>2, <1>3, <1>4, <1>5, <1>6, <1>7
  DEF ThreadStep, Continues, JudgesOpen, TasksInv, ClearedFirst, DraftsExist

LEMMA TakeStep ==
  ASSUME TasksInv, NEW p \in Thread, Take(p)
  PROVE  ThreadStep(p)
<1>1. p = "project" /\ threads[p].pc = "next"
  BY OnlyProject DEF Take, At, Handed
<1>2. TaskStep
  BY SameTasks DEF Take
<1>3. CASE Become(p, Idle)
  <2>1. threads' = [threads EXCEPT ![p] = Idle]
    BY <1>3 DEF Become
  <2>2. ThreadOK(p, Idle) /\ InHand(Idle) = {} /\ Idle.listed = {} /\ Idle.pc \notin Judging
    BY <1>1, OffRow DEF ThreadOK, InHand, Busy, Handed, Judging
  <2> QED
    BY <1>1, <1>2, <2>1, <2>2 DEF ThreadStep, Continues, JudgesOpen
<1>4. ASSUME NEW t \in threads[p].listed \cup threads[p].submitted, NEW thread,
             Become(p, thread), thread \in ThreadRow,
             thread.pc = "dispatching", thread.task = t,
             thread.listed \subseteq threads[p].listed,
             thread.submitted \subseteq threads[p].submitted
      PROVE  ThreadStep(p)
  <2>1. ThreadOK(p, thread) /\ thread.pc \notin Judging
    BY <1>1, <1>4, ThreadFacts DEF ThreadOK, ThreadRow, Busy, Handed, Judging
  <2>2. InHand(thread) \subseteq InHand(threads[p])
    BY <1>1, <1>4 DEF InHand, Busy, Handed, Judging
  <2>3. threads' = [threads EXCEPT ![p] = thread]
    BY <1>4 DEF Become
  <2> QED
    BY <1>1, <1>2, <1>4, <2>1, <2>2, <2>3
    DEF ThreadStep, Continues, JudgesOpen, TasksInv, ClearedFirst, DraftsExist
<1>5. ASSUME NEW t \in Oldest(threads[p].listed),
             Become(p, [threads[p] EXCEPT !.pc = "dispatching", !.task = t,
                          !.job = "dispatch", !.listed = @ \ {t}])
      PROVE  ThreadStep(p)
  <2> DEFINE thread == [threads[p] EXCEPT !.pc = "dispatching", !.task = t,
                          !.job = "dispatch", !.listed = @ \ {t}]
  <2>1. t \in threads[p].listed /\ t \in Task
    BY ThreadFacts DEF Oldest, ThreadRow
  <2>2. /\ thread \in ThreadRow /\ thread.pc = "dispatching" /\ thread.task = t
        /\ thread.listed \subseteq threads[p].listed
        /\ thread.submitted = threads[p].submitted
    BY <2>1, ThreadFacts, ZenonT(40) DEF ThreadRow, Busy, Handed
  <2> HIDE DEF thread
  <2> QED
    BY <1>4, <1>5, <2>1, <2>2 DEF thread
<1>6. ASSUME NEW t \in Oldest(threads[p].submitted),
             Become(p, [threads[p] EXCEPT !.pc = "dispatching", !.task = t,
                          !.job = "complete", !.submitted = @ \ {t}])
      PROVE  ThreadStep(p)
  <2> DEFINE thread == [threads[p] EXCEPT !.pc = "dispatching", !.task = t,
                          !.job = "complete", !.submitted = @ \ {t}]
  <2>1. t \in threads[p].submitted /\ t \in Task
    BY ThreadFacts DEF Oldest, ThreadRow
  <2>2. /\ thread \in ThreadRow /\ thread.pc = "dispatching" /\ thread.task = t
        /\ thread.listed = threads[p].listed
        /\ thread.submitted \subseteq threads[p].submitted
    BY <2>1, ThreadFacts, ZenonT(40) DEF ThreadRow, Busy, Handed
  <2> HIDE DEF thread
  <2> QED
    BY <1>4, <1>6, <2>1, <2>2 DEF thread
<1> QED
  BY <1>3, <1>5, <1>6 DEF Take

-----------------------------------------------------------------------------
(* The steps on the task a thread has.                                     *)

(* A thread that moves its task and leaves, or fails to and raises.        *)
LEMMA MoveAndLeave ==
  ASSUME TasksInv, NEW p \in Thread, threads[p].pc \in Busy,
         NEW to \in State \ {"ESCALATED"}, to \notin Closed \/ p = "project", Move(p, to, Leave(p))
  PROVE  ThreadStep(p)
<1>1. CASE Legal(Mine(p).state, to) /\ Set(threads[p].task, to) /\ Leave(p)
  <2>1. TaskStep /\ (to \notin Closed => EndsNothing)
    BY <1>1, ThreadFacts, SetMoves DEF Mine
  <2> QED
    BY <1>1, <2>1, LeaveQuits, Combined
<1>2. CASE ~Legal(Mine(p).state, to) /\ UNCHANGED tasks /\ Raise(p)
  BY <1>2, SameTasks, RaiseQuits, Combined
<1> QED
  BY <1>1, <1>2 DEF Move

(* A thread that moves its task and goes on.                               *)
LEMMA MoveAndGo ==
  ASSUME TasksInv, NEW p \in Thread, threads[p].pc \in Busy,
         NEW to \in State \ Closed, NEW pc \in Busy,
         p = "project" \/ pc \in Handed, Move(p, to, Go(p, pc))
  PROVE  ThreadStep(p)
<1>1. CASE Legal(Mine(p).state, to) /\ Set(threads[p].task, to) /\ Go(p, pc)
  <2>1. TaskStep /\ EndsNothing /\ tasks'[threads[p].task].state = to
    BY <1>1, ThreadFacts, SetMoves DEF Mine
  <2>2. Stays(p, pc)
    BY <1>1, GoStays
  <2>3. CASE pc \notin Judging
    BY <2>1, <2>2, <2>3, Combined
  <2>4. CASE pc \in Judging
    <3>1. p = "project"
      BY <2>4 DEF Judging, Handed
    <3> QED
      BY <2>1, <2>2, <2>4, <3>1, Combined
  <2> QED
    BY <2>3, <2>4
<1>2. CASE ~Legal(Mine(p).state, to) /\ UNCHANGED tasks /\ Raise(p)
  BY <1>2, SameTasks, RaiseQuits, Combined
<1> QED
  BY <1>1, <1>2 DEF Move

(* A thread that only reads.                                               *)
LEMMA OnlyRead ==
  ASSUME TasksInv, NEW p \in Thread, threads[p].pc \in Busy, UNCHANGED tasks,
         \/ Leave(p) \/ Raise(p)
         \/ \E pc \in Busy \ Judging : (p = "project" \/ pc \in Handed) /\ Go(p, pc)
         \/ /\ p = "project" /\ Mine(p).state \notin Closed
            /\ \E pc \in Judging : Go(p, pc)
  PROVE  ThreadStep(p)
<1>1. TaskStep /\ EndsNothing
  BY SameTasks
<1>2. CASE Leave(p) \/ Raise(p)
  BY <1>1, <1>2, LeaveQuits, RaiseQuits, Combined
<1>3. ASSUME NEW pc \in Busy \ Judging, p = "project" \/ pc \in Handed, Go(p, pc)
      PROVE  ThreadStep(p)
  <2>1. Stays(p, pc)
    BY <1>3, GoStays
  <2> QED
    BY <1>1, <2>1, Combined
<1>4. ASSUME p = "project", Mine(p).state \notin Closed, NEW pc \in Judging, Go(p, pc)
      PROVE  ThreadStep(p)
  <2>1. Stays(p, pc)
    BY <1>4, GoStays DEF Busy
  <2>2. tasks'[threads[p].task].state \notin Closed
    BY <1>4 DEF Mine
  <2> QED
    BY <1>1, <1>4, <2>1, <2>2, Combined
<1> QED
  BY <1>2, <1>3, <1>4

LEMMA PersistStep ==
  ASSUME TasksInv, NEW p \in Thread, Persist(p)
  PROVE  ThreadStep(p)
<1>1. threads[p].pc \in Busy /\ Leave(p)
  BY DEF Persist, At, Busy
<1>2. CASE Legal(Mine(p).state, "BLOCKED")
  <2>1. Move(p, "BLOCKED", Leave(p))
    BY <1>1, <1>2 DEF Persist, Move
  <2> QED
    BY <1>1, <2>1, MoveAndLeave
<1>3. CASE ~Legal(Mine(p).state, "BLOCKED")
  <2>1. UNCHANGED tasks
    BY <1>3 DEF Persist
  <2> QED
    BY <1>1, <2>1, OnlyRead
<1> QED
  BY <1>2, <1>3

LEMMA DispatchStep ==
  ASSUME TasksInv, NEW p \in Thread, Dispatch(p)
  PROVE  ThreadStep(p)
<1>1. threads[p].pc \in Busy
  BY DEF Dispatch, At, Busy, Handed
<1>2. threads[p].job = "complete" => p = "project"
  BY <1>1, ThreadFacts DEF ThreadOK, Busy, Handed, Judging
<1>3. CASE UNCHANGED tasks /\ (Leave(p) \/ Raise(p) \/ Go(p, "prepared"))
  BY <1>1, <1>3, OnlyRead DEF Busy, Handed, Judging
<1>4. CASE UNCHANGED tasks /\ threads[p].job = "complete" /\ Go(p, "reviewing")
  BY <1>1, <1>2, <1>4, OnlyRead DEF Busy, Handed, Judging
<1>5. CASE Move(p, "ASSIGNED", Go(p, "prepared"))
  BY <1>1, <1>5, MoveAndGo DEF Busy, Handed
<1> QED
  BY <1>3, <1>4, <1>5 DEF Dispatch

LEMMA StartStep ==
  ASSUME TasksInv, NEW p \in Thread, Start(p)
  PROVE  ThreadStep(p)
<1>1. threads[p].pc \in Busy
  BY DEF Start, At, Busy, Handed
<1>2. CASE Leave(p) /\ UNCHANGED tasks
  BY <1>1, <1>2, OnlyRead
<1>3. CASE Move(p, "BLOCKED", Leave(p))
  BY <1>1, <1>3, MoveAndLeave
<1>4. CASE Move(p, "DOING", Go(p, "running"))
  BY <1>1, <1>4, MoveAndGo DEF Busy, Handed
<1> QED
  BY <1>2, <1>3, <1>4 DEF Start, NoAdapter

LEMMA ReturnStep ==
  ASSUME TasksInv, NEW p \in Thread, Return(p)
  PROVE  ThreadStep(p)
<1>1. threads[p].pc \in Busy
  BY DEF Return, At, Busy, Handed
<1>2. CASE Move(p, "BLOCKED", Leave(p))
  BY <1>1, <1>2, MoveAndLeave
<1>3. CASE threads[p].job = "complete" /\ Move(p, "SUBMITTED", Go(p, "reviewing"))
  <2>1. p = "project"
    BY <1>1, <1>3, ThreadFacts DEF ThreadOK, Busy, Handed, Judging
  <2> QED
    BY <1>1, <1>3, <2>1, MoveAndGo DEF Busy
<1>4. CASE Move(p, "SUBMITTED", Leave(p))
  BY <1>1, <1>4, MoveAndLeave
<1> QED
  BY <1>2, <1>3, <1>4 DEF Return, Move

LEMMA ReviewStep ==
  ASSUME TasksInv, NEW p \in Thread, Review(p)
  PROVE  ThreadStep(p)
<1>1. p = "project" /\ threads[p].pc \in Busy /\ threads[p].pc = "reviewing"
  BY OnlyProject DEF Review, At, Handed, Busy
<1>2. CASE Mine(p).state \in {"SUBMITTED", "REVIEWING"}
  <2> DEFINE thread == [threads[p] EXCEPT !.pc = "gating", !.seen = Mine(p).state]
  <2>1. /\ thread \in ThreadRow /\ thread.pc = "gating" /\ thread.task = threads[p].task
        /\ thread.listed = threads[p].listed /\ thread.submitted = threads[p].submitted
    BY <1>2, ThreadFacts, ZenonT(40) DEF ThreadRow, Busy, Judging
  <2>2. ThreadOK(p, thread)
    BY <1>1, <2>1, ThreadFacts DEF ThreadOK, Busy, Handed, Judging
  <2>3. InHand(thread) = InHand(threads[p])
    BY <1>1, <2>1 DEF InHand, Busy, Handed, Judging
  <2>4. threads' = [threads EXCEPT ![p] = thread]
    BY <1>2 DEF Review, Become
  <2>5. JudgesOpen(thread, tasks')
    BY <1>2, <2>1 DEF JudgesOpen, Review, Mine
  <2>6. TaskStep
    BY SameTasks DEF Review
  <2> HIDE DEF thread
  <2> QED
    BY <1>1, <2>1, <2>2, <2>3, <2>4, <2>5, <2>6
    DEF ThreadStep, Continues, TasksInv, ClearedFirst, DraftsExist
<1>3. CASE Mine(p).state \notin {"SUBMITTED", "REVIEWING"}
  BY <1>1, <1>3, OnlyRead DEF Review
<1> QED
  BY <1>2, <1>3

(* In review by the loop, the task has not ended.                          *)
LEMMA Reviewed ==
  ASSUME TasksInv, NEW p \in Thread, threads[p].pc \in Judging
  PROVE  p = "project" /\ threads[p].pc \in Busy /\ Mine(p).state \notin Closed
BY OnlyProject DEF TasksInv, ReviewOpen, JudgesOpen, Mine, Judging, Handed, Busy

LEMMA GateStep ==
  ASSUME TasksInv, NEW p \in Thread, Gate(p)
  PROVE  ThreadStep(p)
<1>1. p = "project" /\ threads[p].pc \in Busy /\ Mine(p).state \notin Closed
  BY Reviewed DEF Gate, At, Judging
<1>2. CASE Move(p, "BLOCKED", Leave(p))
  BY <1>1, <1>2, MoveAndLeave
<1>3. ASSUME NEW next \in {"judging", "reworking"},
             \/ Move(p, "REVIEWING", Go(p, next))
             \/ Go(p, next) /\ UNCHANGED tasks
      PROVE  ThreadStep(p)
  <2>1. next \in Judging /\ next \in Busy
    BY DEF Judging, Busy
  <2> QED
    BY <1>1, <1>3, <2>1, MoveAndGo, OnlyRead
<1> QED
  BY <1>2, <1>3 DEF Gate

LEMMA BumpStep ==
  ASSUME TasksInv, NEW p \in Thread, threads[p].pc \in Judging, Bump(p)
  PROVE  ThreadStep(p)
<1>1. p = "project" /\ threads[p].pc \in Busy /\ Mine(p).state \notin Closed
  BY Reviewed
<1>2. Bumped(threads[p].task)
  BY <1>1, ThreadFacts DEF Bump, Bumped, Mine
<1>3. TaskStep
  BY <1>1, <1>2, ThreadFacts DEF TaskStep
<1>4. Stays(p, "handling")
  BY <1>1, GoStays DEF Bump, Busy
<1> QED
  BY <1>1, <1>3, <1>4, Combined DEF Busy, Judging

LEMMA JudgeStep ==
  ASSUME TasksInv, NEW p \in Thread, Judge(p)
  PROVE  ThreadStep(p)
<1>1. threads[p].pc \in Judging
  BY DEF Judge, At, Judging
<1>2. ASSUME NEW verdict \in Verdicts, Move(p, verdict, Leave(p))
      PROVE  ThreadStep(p)
  <2>1. p = "project" /\ threads[p].pc \in Busy /\ verdict \in State \ {"ESCALATED"}
    BY <1>1, Reviewed DEF Verdicts
  <2> QED
    BY <1>2, <2>1, MoveAndLeave
<1> QED
  BY <1>1, <1>2, BumpStep DEF Judge, Rework

LEMMA GateFailedStep ==
  ASSUME TasksInv, NEW p \in Thread, GateFailed(p)
  PROVE  ThreadStep(p)
BY BumpStep DEF GateFailed, Rework, At, Judging

LEMMA HandleReworkStep ==
  ASSUME TasksInv, NEW p \in Thread, HandleRework(p)
  PROVE  ThreadStep(p)
<1>1. threads[p].pc \in Busy /\ UNCHANGED tasks
  BY DEF HandleRework, At, Busy
<1>2. Leave(p) \/ Raise(p) \/ Go(p, "dispatching")
  BY DEF HandleRework
<1> QED
  BY <1>1, <1>2, OnlyRead DEF Busy, Handed, Judging

LEMMA AdvanceStep ==
  ASSUME TasksInv, NEW p \in Thread, Advance(p)
  PROVE  ThreadStep(p)
BY TickStep, CollectStep, ListReadyStep, ListSubmittedStep, TakeStep, PersistStep,
   DispatchStep, StartStep, ReturnStep, ReviewStep, GateStep, JudgeStep, GateFailedStep,
   HandleReworkStep
DEF Advance, Schedule, Execute, Assess

-----------------------------------------------------------------------------
(* What follows from the step of a row.                                    *)

LEMMA EdgeStates ==
  ASSUME NEW from \in State, NEW to \in Edges[from]
  PROVE  to \in State /\ from \notin Terminal
BY DEF Edges

(* The row that a step writes, and that the others stay.                   *)
LEMMA MovedRow ==
  ASSUME TasksInv, NEW t \in Task, NEW to \in State, Moved(t, to)
  PROVE  /\ tasks' \in [Task -> TaskRow]
         /\ \A u \in Task : u # t => tasks'[u] = tasks[u]
         /\ tasks'[t].state = to /\ tasks[t].state \in State \ Terminal
         /\ \A f \in {"rework", "base", "deps", "files", "of"} : tasks'[t][f] = tasks[t][f]
<1>1. tasks[t] \in TaskRow /\ tasks \in [Task -> TaskRow]
  BY DEF TasksInv, TablesOK
<1>2. tasks'[t] = [tasks[t] EXCEPT !.state = to] /\ \A u \in Task : u # t => tasks'[u] = tasks[u]
  BY <1>1 DEF Moved
<1>3. [tasks[t] EXCEPT !.state = to] \in TaskRow
  BY <1>1, Zenon DEF TaskRow
<1>4. tasks' \in [Task -> TaskRow]
  BY <1>1, <1>3 DEF Moved
<1>5. tasks[t].state \notin Terminal
  BY EdgeStates DEF Moved
<1> QED
  BY <1>1, <1>2, <1>4, <1>5 DEF TaskRow, Moved

LEMMA BumpedRow ==
  ASSUME TasksInv, NEW t \in Task, Bumped(t)
  PROVE  /\ tasks' \in [Task -> TaskRow]
         /\ \A u \in Task : u # t => tasks'[u] = tasks[u]
         /\ tasks'[t].rework = tasks[t].rework + 1
         /\ tasks'[t].state = ReworkTarget(tasks[t].rework + 1)
         /\ \A f \in {"base", "deps", "files", "of"} : tasks'[t][f] = tasks[t][f]
<1>1. tasks[t] \in TaskRow /\ tasks \in [Task -> TaskRow]
  BY DEF TasksInv, TablesOK
<1> DEFINE count == tasks[t].rework + 1
           row == [tasks[t] EXCEPT !.rework = count, !.state = ReworkTarget(count)]
<1>2. count \in Nat /\ ReworkTarget(count) \in State
  BY <1>1 DEF TaskRow, ReworkTarget
<1>3. tasks' = [tasks EXCEPT ![t] = row]
  BY <1>1 DEF Bumped
<1> HIDE DEF count
<1>4. /\ row \in TaskRow /\ row.rework = count /\ row.state = ReworkTarget(count)
      /\ \A f \in {"base", "deps", "files", "of"} : row[f] = tasks[t][f]
  BY <1>1, <1>2 DEF TaskRow
<1> HIDE DEF row
<1>5. tasks' \in [Task -> TaskRow] /\ tasks'[t] = row /\ \A u \in Task : u # t => tasks'[u] = tasks[u]
  BY <1>1, <1>3, <1>4
<1> QED
  BY <1>4, <1>5 DEF count

LEMMA ReleasedRow ==
  ASSUME TasksInv, NEW t \in Task, NEW u \in Task, Released(t, u)
  PROVE  /\ tasks' \in [Task -> TaskRow]
         /\ \A v \in Task : v # u => tasks'[v] = tasks[v]
         /\ tasks'[u].state = "DRAFT" /\ tasks'[u].rework = tasks'[u].base
<1>1. tasks[t] \in TaskRow /\ tasks \in [Task -> TaskRow]
  BY DEF TasksInv, TablesOK
<1> DEFINE row == Row(tasks[t].deps, tasks[t].files, tasks[t].of \cup {t}, tasks[t].rework)
<1>2. row \in TaskRow /\ row.state = "DRAFT" /\ row.rework = row.base
  BY <1>1 DEF TaskRow, Row
<1>3. tasks' = [tasks EXCEPT ![u] = row]
  BY DEF Released
<1> HIDE DEF row
<1> QED
  BY <1>1, <1>2, <1>3

(* The bound on the rework count of a row.                                 *)
Limit(row) == IF row.base > Threshold THEN row.base ELSE Threshold
CountOK(row) == /\ row.rework <= Limit(row) + 1
                /\ row.rework > Limit(row) => row.state = "ESCALATED"

LEMMA CountsOK == ReworkBounded <=> \A t \in Task : CountOK(tasks[t])
BY DEF ReworkBounded, CountOK, Limit

(* What is done stays done, and so what has been let through stays so.     *)
LEMMA ClearedStays ==
  ASSUME TasksInv, TaskStep, NEW t \in Task, Cleared(t)
  PROVE  Cleared(t)'
<1> SUFFICES ASSUME TRUE PROVE /\ tasks'[t].state # "absent"
                               /\ \A d \in tasks'[t].deps : Fulfilled(d)'
  BY DEF Cleared
<1>1. \A u \in Task : tasks[u].state = "DONE" =>
        tasks'[u].state = "DONE" /\ tasks'[u].of = tasks[u].of
  <2>1. ASSUME NEW v \in Task, NEW to \in State, Moved(v, to)
        PROVE  \A u \in Task : tasks[u].state = "DONE" => tasks'[u] = tasks[u]
    BY <2>1, MovedRow
  <2>2. ASSUME NEW v \in Task, Bumped(v)
        PROVE  \A u \in Task : tasks[u].state = "DONE" => tasks'[u] = tasks[u]
    BY <2>2, BumpedRow DEF Bumped
  <2>3. ASSUME NEW w \in Task, NEW v \in Task, Released(w, v)
        PROVE  \A u \in Task : tasks[u].state = "DONE" => tasks'[u] = tasks[u]
    BY <2>3, ReleasedRow DEF Released
  <2> QED
    BY <2>1, <2>2, <2>3 DEF TaskStep
<1>2. tasks'[t].state # "absent" /\ tasks'[t].deps = tasks[t].deps
  <2>1. ASSUME NEW v \in Task, NEW to \in State, Moved(v, to)
        PROVE  tasks'[t].state # "absent" /\ tasks'[t].deps = tasks[t].deps
    BY <2>1, MovedRow DEF Cleared
  <2>2. ASSUME NEW v \in Task, Bumped(v)
        PROVE  tasks'[t].state # "absent" /\ tasks'[t].deps = tasks[t].deps
    BY <2>2, BumpedRow DEF Cleared, ReworkTarget
  <2>3. ASSUME NEW w \in Task, NEW v \in Task, Released(w, v)
        PROVE  tasks'[t].state # "absent" /\ tasks'[t].deps = tasks[t].deps
    BY <2>3, ReleasedRow DEF Cleared, Released
  <2> QED
    BY <2>1, <2>2, <2>3 DEF TaskStep, Cleared
<1>3. \A d \in tasks[t].deps : Fulfilled(d)'
  BY <1>1 DEF Cleared, Fulfilled
<1> QED
  BY <1>2, <1>3

LEMMA RowsFollow ==
  ASSUME TasksInv, TaskStep
  PROVE  /\ tasks' \in [Task -> TaskRow]
         /\ FinalStays
         /\ ReworkBounded'
         /\ \A t \in Task : Begun(tasks'[t].state) => Cleared(t)'
         /\ \A t \in Task : tasks[t].state # "absent" => tasks'[t].state # "absent"
<1>1. /\ \A t \in Task : CountOK(tasks[t])
      /\ \A t \in Task : Begun(tasks[t].state) => Cleared(t)
      /\ tasks \in [Task -> TaskRow]
  BY CountsOK DEF TasksInv, ClearedFirst, TablesOK
<1>2. CASE tasks' = tasks
  BY <1>1, <1>2, CountsOK, ClearedStays DEF FinalStays, ReworkBounded
<1>3. ASSUME NEW t \in Task, NEW to \in State, Moved(t, to)
      PROVE  /\ tasks' \in [Task -> TaskRow] /\ FinalStays
             /\ \A u \in Task : CountOK(tasks'[u])
             /\ \A u \in Task : Begun(tasks'[u].state) => Cleared(u)
             /\ \A u \in Task : tasks[u].state # "absent" => tasks'[u].state # "absent"
  <2>1. CountOK(tasks'[t])
    BY <1>1, <1>3, MovedRow DEF CountOK, Limit
  <2>2. tasks[t].state \notin Terminal /\ tasks'[t].state = to /\ to # "absent"
    BY <1>3, MovedRow
  <2>3. tasks' \in [Task -> TaskRow] /\ \A u \in Task : u # t => tasks'[u] = tasks[u]
    BY <1>3, MovedRow
  <2>4. Begun(to) => Cleared(t)
    BY <1>3 DEF Moved
  <2> QED
    BY <1>1, <2>1, <2>2, <2>3, <2>4 DEF FinalStays
<1>4. ASSUME NEW t \in Task, Bumped(t)
      PROVE  /\ tasks' \in [Task -> TaskRow] /\ FinalStays
             /\ \A u \in Task : CountOK(tasks'[u])
             /\ \A u \in Task : Begun(tasks'[u].state) => Cleared(u)
             /\ \A u \in Task : tasks[u].state # "absent" => tasks'[u].state # "absent"
  <2>1. CountOK(tasks'[t])
    <3>1. tasks[t].rework \in Nat /\ tasks[t].base \in Nat
      BY <1>1 DEF TaskRow
    <3>2. tasks[t].state # "ESCALATED"
      BY <1>4 DEF Bumped
    <3> QED
      BY <1>1, <1>4, <3>1, <3>2, BumpedRow DEF CountOK, Limit, ReworkTarget
  <2>2. tasks[t].state \notin Terminal /\ Cleared(t)
    BY <1>4 DEF Bumped
  <2>3. tasks'[t].state # "absent"
    BY <1>4, BumpedRow DEF ReworkTarget
  <2>4. tasks' \in [Task -> TaskRow] /\ \A u \in Task : u # t => tasks'[u] = tasks[u]
    BY <1>4, BumpedRow
  <2> QED
    BY <1>1, <2>1, <2>2, <2>3, <2>4 DEF FinalStays
<1>5. ASSUME NEW t \in Task, NEW u \in Task, Released(t, u)
      PROVE  /\ tasks' \in [Task -> TaskRow] /\ FinalStays
             /\ \A v \in Task : CountOK(tasks'[v])
             /\ \A v \in Task : Begun(tasks'[v].state) => Cleared(v)
             /\ \A v \in Task : tasks[v].state # "absent" => tasks'[v].state # "absent"
  <2>1. CountOK(tasks'[u])
    BY <1>1, <1>5, ReleasedRow DEF CountOK, Limit, TaskRow
  <2>2. tasks[u].state = "absent" /\ tasks'[u].state = "DRAFT"
    BY <1>5, ReleasedRow DEF Released
  <2>3. tasks' \in [Task -> TaskRow] /\ \A v \in Task : v # u => tasks'[v] = tasks[v]
    BY <1>5, ReleasedRow
  <2> QED
    BY <1>1, <2>1, <2>2, <2>3 DEF FinalStays, Begun
<1>6. (\A t \in Task : CountOK(tasks'[t])) => ReworkBounded'
  BY CountsOK DEF ReworkBounded, CountOK, Limit
<1> QED
  BY <1>2, <1>3, <1>4, <1>5, <1>6, ClearedStays DEF TaskStep

-----------------------------------------------------------------------------
(* The invariant is inductive when one thread reviews.                     *)

BusOK(b) == b \in [mode : Modes, confirms : 0..MaxConfirms]

LEMMA Preserved ==
  ASSUME TasksInv, TaskStep, BusOK(bus'), threads' \in [Thread -> ThreadRow],
         \A p \in Thread : /\ ThreadOK(p, threads'[p])
                           /\ \A t \in InHand(threads'[p]) : Cleared(t)
                           /\ \A t \in threads'[p].listed : tasks[t].state # "absent",
         JudgesOpen(threads'["project"], tasks')
  PROVE  TasksInv'
<1>1. TablesOK' /\ Solo' /\ ReviewOpen' /\ ReworkBounded'
  BY RowsFollow DEF TablesOK, Solo, ReviewOpen, BusOK
<1>2. ClearedFirst'
  <2>1. ASSUME NEW p \in Thread, NEW t \in InHand(threads'[p])
        PROVE  Cleared(t)'
    <3>1. t \in Task
      BY <2>1 DEF InHand, ThreadOK, ThreadRow
    <3> QED
      BY <2>1, <3>1, ClearedStays
  <2> QED
    BY <2>1, RowsFollow DEF ClearedFirst
<1>3. DraftsExist'
  <2>1. \A p \in Thread : threads'[p].listed \subseteq Task
    BY DEF ThreadRow
  <2> QED
    BY <2>1, RowsFollow DEF DraftsExist
<1> QED
  BY <1>1, <1>2, <1>3 DEF TasksInv

(* The threads as they are satisfy what Preserved asks.                    *)
LEMMA ThreadsKept ==
  ASSUME TasksInv
  PROVE  /\ threads \in [Thread -> ThreadRow]
         /\ \A p \in Thread : /\ ThreadOK(p, threads[p])
                              /\ \A t \in InHand(threads[p]) : Cleared(t)
                              /\ \A t \in threads[p].listed : tasks[t].state # "absent"
BY DEF TasksInv, TablesOK, Solo, ClearedFirst, DraftsExist

LEMMA ThreadStepPreserves ==
  ASSUME TasksInv, NEW p \in Thread, ThreadStep(p), BusOK(bus')
  PROVE  TasksInv'
<1>1. PICK thread :
        /\ Continues(p, thread)
        /\ IF p = "project" THEN JudgesOpen(thread, tasks') ELSE EndsNothing
  BY DEF ThreadStep
<1>2. thread \in ThreadRow /\ threads' = [threads EXCEPT ![p] = thread]
  BY <1>1 DEF Continues, ThreadOK
<1>3. /\ threads' \in [Thread -> ThreadRow] /\ threads'[p] = thread
      /\ \A q \in Thread : q # p => threads'[q] = threads[q]
  BY <1>2, ThreadsKept
<1>4. JudgesOpen(threads'["project"], tasks')
  <2>1. CASE p = "project"
    BY <1>1, <1>3, <2>1
  <2>2. CASE p # "project"
    <3>1. JudgesOpen(threads["project"], tasks) /\ EndsNothing
      BY <1>1, <2>2 DEF TasksInv, ReviewOpen
    <3>2. threads["project"].pc \in Judging => threads["project"].task \in Task
      BY ThreadsKept DEF ThreadOK, Busy
    <3> QED
      BY <1>3, <2>2, <3>1, <3>2 DEF JudgesOpen, EndsNothing
  <2> QED
    BY <2>1, <2>2
<1>5. \A q \in Thread : /\ ThreadOK(q, threads'[q])
                        /\ \A t \in InHand(threads'[q]) : Cleared(t)
                        /\ \A t \in threads'[q].listed : tasks[t].state # "absent"
  BY <1>1, <1>3, ThreadsKept DEF Continues
<1> QED
  BY <1>3, <1>4, <1>5, Preserved DEF ThreadStep

(* Steps of the user and of the scan on the rows alone.                    *)
LEMMA RowStepPreserves ==
  ASSUME TasksInv, TaskStep, EndsNothing, BusOK(bus'), threads' = threads
  PROVE  TasksInv'
<1>1. JudgesOpen(threads'["project"], tasks')
  <2>1. threads["project"].pc \in Judging => threads["project"].task \in Task
    BY ThreadsKept DEF ThreadOK, Busy
  <2> QED
    BY <2>1 DEF TasksInv, ReviewOpen, JudgesOpen, EndsNothing
<1> QED
  BY <1>1, ThreadsKept, Preserved

LEMMA RequestStep ==
  ASSUME TasksInv, OneReviewer, NEW h \in Hand, NEW t \in Task, Request(h, t)
  PROVE  ThreadStep(h)
<1>1. /\ tasks[t].state = "BLOCKED" /\ Set(t, "ASSIGNED")
      /\ Become(h, [Off EXCEPT !.pc = "dispatching", !.task = t, !.job = "dispatch"])
  BY DEF Request, OneReviewer
<1> DEFINE thread == [Off EXCEPT !.pc = "dispatching", !.task = t, !.job = "dispatch"]
<1>2. /\ thread \in ThreadRow /\ thread.pc = "dispatching" /\ thread.task = t
      /\ thread.job = "dispatch" /\ thread.listed = {} /\ thread.submitted = {}
  BY OffRow DEF ThreadRow, Busy, Handed
<1>3. threads' = [threads EXCEPT ![h] = thread]
  BY <1>1 DEF Become
<1> HIDE DEF thread
<1>4. TaskStep /\ EndsNothing
  BY <1>1, SetMoves DEF Legal, Edges, Begun
<1>5. Cleared(t)
  BY <1>1 DEF TasksInv, ClearedFirst, Begun
<1>6. InHand(thread) = {t} /\ ThreadOK(h, thread)
  BY <1>2 DEF InHand, ThreadOK, Busy, Handed
<1> QED
  BY <1>2, <1>3, <1>4, <1>5, <1>6 DEF ThreadStep, Continues

LEMMA ReleaseStep ==
  ASSUME TasksInv, NEW t \in Task, Release(t)
  PROVE  TaskStep /\ EndsNothing
<1>1. PICK u \in Oldest(InState("absent")) :
        tasks' = [tasks EXCEPT ![u] = Row(tasks[t].deps, tasks[t].files,
                                          tasks[t].of \cup {t}, tasks[t].rework)]
  BY DEF Release
<1>2. u \in Task /\ tasks[u].state = "absent"
  BY DEF Oldest, InState
<1>3. Released(t, u)
  BY <1>1, <1>2 DEF Release, Released
<1> QED
  BY <1>2, <1>3, ReleasedRow DEF TaskStep, EndsNothing

LEMMA StuckScanStep ==
  ASSUME TasksInv, NEW t \in Task, StuckScan(t)
  PROVE  TaskStep /\ EndsNothing
<1>1. Cleared(t)
  BY DEF StuckScan, TasksInv, ClearedFirst, Begun
<1> QED
  BY <1>1, SetMoves DEF StuckScan, Legal, Edges

LEMMA RelaunchStep ==
  ASSUME TasksInv, Relaunch
  PROVE  ThreadStep("project")
<1>1. threads' = [threads EXCEPT !["project"] = Idle] /\ TaskStep
  BY SameTasks DEF Relaunch, Become
<1>2. /\ ThreadOK("project", Idle) /\ InHand(Idle) = {} /\ Idle.listed = {}
      /\ Idle.pc \notin Judging
  BY OffRow DEF ThreadOK, InHand, Busy, Handed, Judging
<1> QED
  BY <1>1, <1>2 DEF ThreadStep, Continues, JudgesOpen

(* After a crash, and after a restart without FLEET_SCHEDULER, no thread   *)
(* runs.                                                                   *)
LEMMA NothingRuns ==
  ASSUME TasksInv, tasks' = tasks, BusOK(bus'), threads' = [p \in Thread |-> Off]
  PROVE  TasksInv'
<1>1. threads' \in [Thread -> ThreadRow] /\ \A p \in Thread : threads'[p] = Off
  BY OffRow
<1>2. /\ \A p \in Thread : ThreadOK(p, Off)
      /\ InHand(Off) = {} /\ Off.listed = {} /\ Off.pc \notin Judging
  BY OffRow DEF ThreadOK, InHand, Busy, Handed, Judging
<1> QED
  BY <1>1, <1>2, SameTasks, Preserved DEF JudgesOpen

-----------------------------------------------------------------------------
(* The bus, which the invariant keeps well formed.                         *)

LEMMA BusStep ==
  ASSUME TablesOK, [TasksNext]_taskVars
  PROVE  BusOK(bus')
<1>1. BusOK(bus)
  BY DEF TablesOK, BusOK
<1>2. CASE bus' = bus
  BY <1>1, <1>2
<1>3. ASSUME NEW p \in Thread, Tick(p)
      PROVE  BusOK(bus')
  BY <1>1, <1>3 DEF Tick, BusOK
<1>4. ASSUME NEW mode \in Modes, SetMode(mode)
      PROVE  BusOK(bus')
  BY <1>1, <1>4 DEF SetMode, BusOK
<1>5. CASE Confirm
  BY <1>1, <1>5 DEF Confirm, BusOK
<1>6. CASE Restart
  BY <1>6 DEF Restart, BusOK, NewBus
<1> QED
  BY <1>2, <1>3, <1>4, <1>5, <1>6
  DEF TasksNext, taskVars, Advance, Schedule, Execute, Assess, Collect, ListReady,
      ListSubmitted, Take, Persist, Dispatch, Start, Return, Review, Gate, Judge, GateFailed,
      HandleRework, Console, ApiMode, ApiConfirm, Request, Release, Relaunch, StuckScan, Crash

-----------------------------------------------------------------------------
(* Induction.                                                              *)

LEMMA InitRows ==
  ASSUME TasksInit
  PROVE  /\ tasks \in [Task -> TaskRow]
         /\ \A t \in Task : /\ tasks[t].state \in {"DRAFT", "absent"}
                            /\ tasks[t].rework = 0 /\ tasks[t].base = 0
<1>1. ASSUME NEW t \in Task
      PROVE  /\ tasks[t] \in TaskRow /\ tasks[t].state \in {"DRAFT", "absent"}
             /\ tasks[t].rework = 0 /\ tasks[t].base = 0
  <2>1. CASE t \in DOMAIN Plan
    <3>1. Plan[t] \in [deps : SUBSET Task, files : SUBSET STRING]
      <4> DEFINE planned == [deps : SUBSET Task, files : SUBSET STRING]
      <4>1. Plan \in Seq(planned)
        OBVIOUS
      <4> HIDE DEF planned
      <4>2. Plan[t] \in planned
        BY <2>1, <4>1
      <4> QED
        BY <4>2 DEF planned
    <3> QED
      BY <2>1, <3>1 DEF TasksInit, Row, TaskRow
  <2>2. CASE t \notin DOMAIN Plan
    <3>1. tasks[t] = [Row({}, {}, {}, 0) EXCEPT !.state = "absent"]
      BY <2>2 DEF TasksInit, NoRow
    <3>2. Row({}, {}, {}, 0) \in TaskRow /\ Row({}, {}, {}, 0).rework = 0
          /\ Row({}, {}, {}, 0).base = 0
      BY DEF Row, TaskRow
    <3> QED
      BY <3>1, <3>2 DEF TaskRow
  <2> QED
    BY <2>1, <2>2
<1>2. tasks \in [Task -> TaskRow]
  <2>1. DOMAIN tasks = Task /\ tasks = [t \in Task |-> tasks[t]]
    BY DEF TasksInit
  <2> QED
    BY <1>1, <2>1
<1> QED
  BY <1>1, <1>2

LEMMA InitInv ==
  ASSUME OneReviewer, TasksInit
  PROVE  TasksInv
<1>1. \A t \in Task : /\ tasks[t] \in TaskRow /\ tasks[t].state \in {"DRAFT", "absent"}
                     /\ tasks[t].rework = 0 /\ tasks[t].base = 0
  BY InitRows
<1>2. tasks \in [Task -> TaskRow]
  BY InitRows
<1>3. threads = [[p \in Thread |-> Off] EXCEPT !["project"] = Idle]
  BY DEF TasksInit, Booted, OneReviewer
<1>4. /\ threads \in [Thread -> ThreadRow] /\ threads["project"] = Idle
      /\ \A p \in Thread : p # "project" => threads[p] = Off
  BY <1>3, OffRow
<1>5. /\ \A p \in Thread : p # "project" => ThreadOK(p, Off)
      /\ ThreadOK("project", Idle)
      /\ InHand(Off) = {} /\ InHand(Idle) = {} /\ Off.listed = {} /\ Idle.listed = {}
      /\ Idle.pc \notin Judging
  BY OffRow DEF ThreadOK, InHand, Busy, Handed, Judging
<1>6. bus \in [mode : Modes, confirms : 0..MaxConfirms]
  BY DEF TasksInit, NewBus
<1>7. ReworkBounded
  BY <1>1 DEF ReworkBounded
<1>8. \A p \in Thread : /\ ThreadOK(p, threads[p])
                        /\ InHand(threads[p]) = {} /\ threads[p].listed = {}
  BY <1>4, <1>5
<1>9. Solo /\ ReviewOpen /\ ClearedFirst /\ DraftsExist
  BY <1>1, <1>4, <1>5, <1>8 DEF Solo, ReviewOpen, JudgesOpen, ClearedFirst, DraftsExist, Begun
<1> QED
  BY <1>2, <1>4, <1>6, <1>7, <1>9 DEF TasksInv, TablesOK

LEMMA StepInv ==
  ASSUME OneReviewer, TasksInv, [TasksNext]_taskVars
  PROVE  TasksInv' /\ FinalStays /\ TaskStep
<1>b. BusOK(bus')
  BY BusStep DEF TasksInv
<1>1. ASSUME NEW p \in Thread, Advance(p)
      PROVE  TasksInv' /\ FinalStays /\ TaskStep
  BY <1>1, <1>b, AdvanceStep, ThreadStepPreserves, RowsFollow DEF ThreadStep
<1>2. ASSUME NEW t \in Task, StuckScan(t)
      PROVE  TasksInv' /\ FinalStays /\ TaskStep
  <2>1. threads' = threads
    BY <1>2 DEF StuckScan
  <2> QED
    BY <1>2, <1>b, <2>1, StuckScanStep, RowStepPreserves, RowsFollow
<1>3. CASE Console
  <2>1. ASSUME NEW h \in Hand, NEW t \in Task, Request(h, t)
        PROVE  TasksInv' /\ FinalStays /\ TaskStep
    BY <1>b, <2>1, RequestStep, ThreadStepPreserves, RowsFollow DEF ThreadStep
  <2>2. ASSUME NEW t \in Task, Release(t)
        PROVE  TasksInv' /\ FinalStays /\ TaskStep
    <3>1. threads' = threads
      BY <2>2 DEF Release
    <3> QED
      BY <2>2, <1>b, <3>1, ReleaseStep, RowStepPreserves, RowsFollow
  <2>3. CASE Relaunch
    BY <1>b, <2>3, RelaunchStep, ThreadStepPreserves, RowsFollow DEF ThreadStep
  <2>4. CASE tasks' = tasks /\ threads' = threads
    BY <1>b, <2>4, SameTasks, RowStepPreserves, RowsFollow
  <2> QED
    BY <1>3, <2>1, <2>2, <2>3, <2>4 DEF Console, ApiMode, ApiConfirm, SetMode, Confirm
<1>4. CASE Crash \/ Restart
  <2>1. tasks' = tasks /\ threads' = [p \in Thread |-> Off]
    BY <1>4 DEF Crash, Restart, Booted, OneReviewer
  <2> QED
    BY <1>b, <2>1, NothingRuns, SameTasks, RowsFollow
<1>5. CASE UNCHANGED taskVars
  <2>1. tasks' = tasks /\ threads' = threads
    BY <1>5 DEF taskVars
  <2> QED
    BY <1>b, <2>1, SameTasks, RowStepPreserves, RowsFollow
<1> QED
  BY <1>1, <1>2, <1>3, <1>4, <1>5 DEF TasksNext

LEMMA InvAlways == OneReviewer /\ TasksSafety => []TasksInv
<1> SUFFICES ASSUME OneReviewer PROVE TasksSafety => []TasksInv
  OBVIOUS
<1>1. TasksInit => TasksInv
  BY InitInv
<1>2. TasksInv /\ [TasksNext]_taskVars => TasksInv'
  BY StepInv
<1> QED
  BY <1>1, <1>2, PTL DEF TasksSafety

-----------------------------------------------------------------------------
(* The life of a task: each step of the rows is one of TaskLife or none.   *)

LEMMA LifeChanges ==
  ASSUME tasks \in [Task -> TaskRow], tasks' \in [Task -> TaskRow], NEW t \in Task,
         \A u \in Task \ {t} : tasks'[u] = tasks[u]
  PROVE  LifeOf' = [LifeOf EXCEPT ![t] = Lives!Stage(StageOf(tasks'[t].state), tasks'[t].rework)]
BY DEF LifeOf, Lives!Stage, StageOf

LEMMA MovedLife ==
  ASSUME TasksInv, NEW t \in Task, NEW to \in State, Moved(t, to)
  PROVE  [Lives!Next]_LifeOf
<1> DEFINE row == [tasks[t] EXCEPT !.state = to]
<1>1. tasks \in [Task -> TaskRow] /\ tasks[t] \in TaskRow
  BY DEF TasksInv, TablesOK
<1>2. row \in TaskRow /\ row.state = to /\ row.rework = tasks[t].rework
  BY <1>1 DEF TaskRow
<1>3. tasks' = [tasks EXCEPT ![t] = row]
  BY <1>1 DEF Moved
<1> HIDE DEF row
<1>4. LifeOf' = [LifeOf EXCEPT ![t] = Lives!Stage(StageOf(to), tasks[t].rework)]
  BY <1>1, <1>2, <1>3, LifeChanges
<1>5. LifeOf[t] = [stage |-> StageOf(tasks[t].state), tries |-> tasks[t].rework]
  BY DEF LifeOf
<1>6. CASE StageOf(to) = StageOf(tasks[t].state)
  BY <1>4, <1>5, <1>6 DEF LifeOf, Lives!Stage
<1>7. CASE tasks[t].state = "DRAFT" /\ to = "ASSIGNED"
  <2>1. Lives!Open(t)
    BY <1>4, <1>5, <1>7 DEF Lives!Open, Lives!In, Lives!Put, StageOf
  <2> QED
    BY <2>1 DEF Lives!Next
<1>8. CASE tasks[t].state = "REVIEWING" /\ to \in {"DONE", "PARTIAL"}
  <2>1. Lives!Finish(t)
    BY <1>4, <1>5, <1>8 DEF Lives!Finish, Lives!In, Lives!Put, StageOf
  <2> QED
    BY <2>1 DEF Lives!Next
<1>9. \/ StageOf(to) = StageOf(tasks[t].state)
      \/ tasks[t].state = "DRAFT" /\ to = "ASSIGNED"
      \/ tasks[t].state = "REVIEWING" /\ to \in {"DONE", "PARTIAL"}
  <2> DEFINE from == tasks[t].state
             Worked == {"ASSIGNED", "DOING", "SUBMITTED", "REVIEWING", "REWORK", "BLOCKED"}
  <2>1. from \in State /\ to \in Edges[from] /\ to # "ESCALATED"
    BY DEF Moved
  <2> HIDE DEF from
  <2>2. \/ from = "DRAFT" /\ to = "ASSIGNED"
        \/ from = "REVIEWING" /\ to \in {"DONE", "PARTIAL"}
        \/ from \in Worked /\ to \in Worked
    BY <2>1 DEF Edges
  <2>3. \A s \in Worked : StageOf(s) = "open"
    BY DEF StageOf
  <2> QED
    BY <2>2, <2>3 DEF from
<1> QED
  BY <1>6, <1>7, <1>8, <1>9

LEMMA BumpedLife ==
  ASSUME TasksInv, NEW t \in Task, Bumped(t)
  PROVE  [Lives!Next]_LifeOf
<1> DEFINE count == tasks[t].rework + 1
           to == ReworkTarget(count)
           row == [tasks[t] EXCEPT !.rework = count, !.state = to]
<1>1. tasks \in [Task -> TaskRow] /\ tasks[t] \in TaskRow
  BY DEF TasksInv, TablesOK
<1>2. tasks[t].rework \in Nat /\ count \in Nat /\ to \in State
  BY <1>1 DEF TaskRow, ReworkTarget
<1>3. tasks' = [tasks EXCEPT ![t].rework = count, ![t].state = to]
  BY DEF Bumped
<1> HIDE DEF count, to
<1>4. row \in TaskRow /\ row.state = to /\ row.rework = count
  BY <1>1, <1>2 DEF TaskRow
<1>5. tasks' = [tasks EXCEPT ![t] = row]
  BY <1>1, <1>3 DEF TaskRow
<1> HIDE DEF row
<1>6. LifeOf' = [LifeOf EXCEPT ![t] = Lives!Stage(StageOf(to), count)]
  BY <1>1, <1>4, <1>5, LifeChanges
<1>7. LifeOf[t] = [stage |-> "open", tries |-> tasks[t].rework]
  BY <1>1 DEF LifeOf, StageOf, Bumped, TaskRow
<1>8. CASE count <= Threshold
  <2>1. StageOf(to) = "open" /\ tasks[t].rework < Threshold
    BY <1>2, <1>8 DEF to, count, ReworkTarget, StageOf
  <2>2. Lives!SendBack(t)
    BY <1>6, <1>7, <2>1 DEF count, Lives!SendBack, Lives!In, Lives!Put
  <2> QED
    BY <2>2 DEF Lives!Next
<1>9. CASE count > Threshold
  <2>1. StageOf(to) = "escalated" /\ tasks[t].rework >= Threshold
    BY <1>2, <1>9 DEF to, count, ReworkTarget, StageOf
  <2>2. Lives!GiveUp(t)
    BY <1>6, <1>7, <2>1 DEF count, Lives!GiveUp, Lives!In, Lives!Put
  <2> QED
    BY <2>2 DEF Lives!Next
<1> QED
  BY <1>2, <1>8, <1>9

LEMMA ReleasedLife ==
  ASSUME TasksInv, NEW t \in Task, NEW u \in Task, Released(t, u)
  PROVE  [Lives!Next]_LifeOf
<1> DEFINE row == Row(tasks[t].deps, tasks[t].files, tasks[t].of \cup {t}, tasks[t].rework)
<1>1. tasks \in [Task -> TaskRow] /\ tasks[t] \in TaskRow
  BY DEF TasksInv, TablesOK
<1>2. row \in TaskRow /\ row.state = "DRAFT" /\ row.rework = tasks[t].rework
  BY <1>1 DEF Row, TaskRow
<1>3. tasks' = [tasks EXCEPT ![u] = row]
  BY DEF Released
<1> HIDE DEF row
<1>4. LifeOf' = [LifeOf EXCEPT ![u] = Lives!Stage("planned", tasks[t].rework)]
  <2>1. LifeOf' = [LifeOf EXCEPT ![u] = Lives!Stage(StageOf(row.state), row.rework)]
    BY <1>1, <1>2, <1>3, LifeChanges
  <2> QED
    BY <1>2, <2>1 DEF StageOf
<1>5. /\ LifeOf[t] = [stage |-> "escalated", tries |-> tasks[t].rework]
      /\ LifeOf[u].stage = "absent"
  BY DEF LifeOf, StageOf, Released
<1>6. Lives!Succeed(t, u)
  BY <1>4, <1>5 DEF Lives!Succeed, Lives!In, Lives!Put
<1> QED
  BY <1>6 DEF Lives!Next

LEMMA LifeSteps ==
  ASSUME TasksInv, TaskStep
  PROVE  [Lives!Next]_LifeOf
<1>1. CASE tasks' = tasks
  BY <1>1 DEF LifeOf
<1> QED
  BY <1>1, MovedLife, BumpedLife, ReleasedLife DEF TaskStep

LEMMA LifeBegins ==
  ASSUME TasksInit
  PROVE  Lives!Init
<1>1. \A t \in Task : tasks[t].state \in {"DRAFT", "absent"} /\ tasks[t].rework = 0
  BY DEF TasksInit, Row, NoRow
<1>2. \A t \in Task : LifeOf[t] \in {Lives!Stage("absent", 0), Lives!Stage("planned", 0)}
  BY <1>1 DEF LifeOf, StageOf, Lives!Stage
<1> QED
  BY <1>2 DEF Lives!Init, LifeOf

-----------------------------------------------------------------------------
(* The theorems.                                                           *)

(* A task is sent back at most Threshold times and then escalated, and its *)
(* successor inherits the count, whatever blocks, releases, crashes and    *)
(* late answers come between (bump_rework, confirm_release).               *)
THEOREM ReworkStops == OneReviewer => (TasksSpec => []ReworkBounded)
<1>1. TasksInv => ReworkBounded
  BY DEF TasksInv
<1> QED
  BY <1>1, InvAlways, PTL DEF TasksSpec

(* With one reviewer, no stale answer moves a task that has ended          *)
(* (transition_and_log, bump_rework).                                      *)
THEOREM EndedTasksStay == TasksSpec => FinalIfOneReviewer
<1>1. OneReviewer /\ TasksInv /\ [TasksNext]_taskVars => FinalStays
  BY StepInv
<1>2. CASE OneReviewer
  <2>1. TasksInv /\ [TasksNext]_taskVars => [OneReviewer => FinalStays]_taskVars
    BY <1>1, <1>2
  <2> QED
    BY <1>2, <2>1, InvAlways, PTL DEF TasksSpec, TasksSafety, FinalIfOneReviewer
<1>3. CASE ~OneReviewer
  <2>1. [TasksNext]_taskVars => [OneReviewer => FinalStays]_taskVars
    BY <1>3
  <2> QED
    BY <2>1, PTL DEF TasksSpec, TasksSafety, FinalIfOneReviewer
<1> QED
  BY <1>2, <1>3

(* With one reviewer the chain implements TaskLife: whatever threads,      *)
(* blocks, releases and restarts a task meets, each step of it opens it,   *)
(* sends it back and counts it, ends it, gives it up at the threshold, or  *)
(* is none (transition_and_log, bump_rework, confirm_release).             *)
THEOREM TasksHaveOneLife == OneReviewer => (TasksSpec => LifeIsKept)
<1> SUFFICES ASSUME OneReviewer PROVE TasksSpec => LifeIsKept
  OBVIOUS
<1>1. TasksInv /\ [TasksNext]_taskVars => [Lives!Next]_LifeOf
  BY StepInv, LifeSteps
<1>2. TasksInit => Lives!Init
  BY LifeBegins
<1> QED
  BY <1>1, <1>2, InvAlways, PTL DEF TasksSpec, TasksSafety, LifeIsKept, Lives!Spec

(* From its start on a task has done dependencies, by themselves or by a   *)
(* successor (get_ready_tasks, _successor_chain_done).                     *)
THEOREM DependenciesComeFirst == OneReviewer => (TasksSpec => []DependenciesFirst)
<1>1. TasksInv => DependenciesFirst
  BY DEF TasksInv, ClearedFirst, Begun, Cleared, DependenciesFirst
<1> QED
  BY <1>1, InvAlways, PTL DEF TasksSpec


-----------------------------------------------------------------------------
(* The types, with any number of reviewers: what a thread has in hand or   *)
(* has listed is a row of the table, and rows are never deleted.           *)

Exists(t) == tasks[t].state \in State
HoldsRows(thread) ==
  /\ thread \in ThreadRow
  /\ thread.pc \in Busy => thread.task \in Task /\ Exists(thread.task)
  /\ \A t \in thread.listed \cup thread.submitted : Exists(t)
TypesInv == TablesOK /\ \A p \in Thread : HoldsRows(threads[p])

RowsTyped ==
  /\ tasks' \in [Task -> TaskRow]
  /\ \A t \in Task : Exists(t) => Exists(t)'
OneTurns(p, thread) == threads' = [threads EXCEPT ![p] = thread] /\ HoldsRows(thread)
Turns(p) == \E thread : OneTurns(p, thread)

LEMMA SameRowsTyped == ASSUME TypesInv, tasks' = tasks PROVE RowsTyped
BY DEF TypesInv, TablesOK, RowsTyped, Exists

LEMMA SetTyped ==
  ASSUME TypesInv, NEW t \in Task, NEW to \in State, Set(t, to)
  PROVE  RowsTyped
<1>1. tasks \in [Task -> TaskRow] /\ tasks' = [tasks EXCEPT ![t].state = to]
  BY DEF TypesInv, TablesOK, Set
<1>2. [tasks[t] EXCEPT !.state = to] \in TaskRow
  <2>1. tasks[t] \in TaskRow
    BY <1>1
  <2> QED
    BY <2>1 DEF TaskRow
<1>3. tasks' = [tasks EXCEPT ![t] = [tasks[t] EXCEPT !.state = to]]
  BY <1>1
<1>4. tasks' \in [Task -> TaskRow]
  BY <1>1, <1>2, <1>3
<1>5. \A u \in Task : tasks'[u].state = IF u = t THEN to ELSE tasks[u].state
  BY <1>1 DEF TaskRow
<1> QED
  BY <1>4, <1>5 DEF RowsTyped, Exists

LEMMA InHandTyped ==
  ASSUME TypesInv, NEW p \in Thread
  PROVE  /\ HoldsRows(threads[p]) /\ threads[p] \in ThreadRow
         /\ threads[p].pc \in Busy =>
              threads[p].task \in Task /\ Mine(p).state \in State /\ Mine(p).rework \in Nat
BY DEF TypesInv, HoldsRows, Mine, Exists, TablesOK, TaskRow

LEMMA GoTurns ==
  ASSUME TypesInv, NEW p \in Thread, threads[p].pc \in Busy, NEW pc \in Busy, Go(p, pc)
  PROVE  Turns(p)
<1> DEFINE thread == [threads[p] EXCEPT !.pc = pc]
<1>1. /\ thread \in ThreadRow /\ thread.task = threads[p].task
      /\ thread.listed = threads[p].listed /\ thread.submitted = threads[p].submitted
  BY InHandTyped DEF ThreadRow
<1>2. threads' = [threads EXCEPT ![p] = thread]
  BY DEF Go, Become
<1> HIDE DEF thread
<1> QED
  BY <1>1, <1>2, InHandTyped DEF Turns, OneTurns, HoldsRows

LEMMA OffTurns ==
  ASSUME NEW p \in Thread, Become(p, Off) \/ Become(p, Idle)
  PROVE  Turns(p)
<1>1. HoldsRows(Off) /\ HoldsRows(Idle)
  BY OffRow DEF HoldsRows, Busy, Handed, Judging
<1> QED
  BY <1>1 DEF Turns, OneTurns, Become

LEMMA LeaveTurns ==
  ASSUME TypesInv, NEW p \in Thread, Leave(p)
  PROVE  Turns(p)
<1>1. CASE p \in Loop
  <2> DEFINE thread == [threads[p] EXCEPT !.pc = "next", !.task = 0, !.job = "none",
                                          !.seen = "none"]
  <2>1. /\ thread \in ThreadRow /\ thread.pc = "next"
        /\ thread.listed = threads[p].listed /\ thread.submitted = threads[p].submitted
    BY InHandTyped, ZenonT(40) DEF ThreadRow, Resting
  <2>2. threads' = [threads EXCEPT ![p] = thread]
    BY <1>1 DEF Leave, Become
  <2> HIDE DEF thread
  <2>3. HoldsRows(thread)
    BY <2>1, InHandTyped DEF HoldsRows, Busy, Handed, Judging
  <2> QED
    BY <2>2, <2>3 DEF Turns, OneTurns
<1> QED
  BY <1>1, OffTurns DEF Leave

LEMMA RaiseTurns ==
  ASSUME TypesInv, NEW p \in Thread, threads[p].pc \in Busy, Raise(p)
  PROVE  Turns(p)
BY GoTurns, OffTurns DEF Raise, Busy

(* transition_and_log: the row is moved, or the thread raises.             *)
LEMMA MoveTyped ==
  ASSUME TypesInv, NEW p \in Thread, threads[p].pc \in Busy, NEW to \in State,
         \/ Move(p, to, Leave(p))
         \/ \E pc \in Busy : Move(p, to, Go(p, pc))
  PROVE  RowsTyped /\ Turns(p)
<1>1. CASE Set(threads[p].task, to)
  BY <1>1, SetTyped, InHandTyped, LeaveTurns, GoTurns, RaiseTurns DEF Move
<1>2. CASE UNCHANGED tasks
  BY <1>2, SameRowsTyped, LeaveTurns, GoTurns, RaiseTurns DEF Move
<1> QED
  BY <1>1, <1>2 DEF Move

LEMMA BumpTyped ==
  ASSUME TypesInv, NEW p \in Thread, threads[p].pc \in Busy, Bump(p)
  PROVE  RowsTyped /\ Turns(p)
<1> DEFINE t == threads[p].task
           count == tasks[t].rework + 1
           to == ReworkTarget(count)
           row == [tasks[t] EXCEPT !.rework = count, !.state = to]
<1>1. t \in Task /\ tasks \in [Task -> TaskRow] /\ tasks[t] \in TaskRow
  BY InHandTyped DEF TypesInv, TablesOK
<1>2. count \in Nat /\ to \in State
  BY <1>1 DEF TaskRow, ReworkTarget
<1>3. tasks' = [tasks EXCEPT ![t].rework = count, ![t].state = to]
  BY DEF Bump, Mine
<1> HIDE DEF count, to, t
<1>4. row \in TaskRow /\ row.state = to
  BY <1>1, <1>2 DEF TaskRow
<1>5. tasks' = [tasks EXCEPT ![t] = row]
  BY <1>1, <1>3 DEF TaskRow
<1> HIDE DEF row
<1>6. tasks' \in [Task -> TaskRow] /\ \A u \in Task : tasks'[u].state = IF u = t THEN to ELSE tasks[u].state
  BY <1>1, <1>4, <1>5
<1>7. RowsTyped
  BY <1>2, <1>6 DEF RowsTyped, Exists
<1> QED
  BY <1>7, GoTurns DEF Bump, Busy

(***************************************************************************)
(* The steps of a thread.                                                  *)
(***************************************************************************)
(* The thread takes up or drops what it has listed.                        *)
LEMMA ListTyped ==
  ASSUME TypesInv, NEW p \in Thread, UNCHANGED tasks, NEW thread \in ThreadRow,
         thread.pc \in Busy => thread.task \in Task /\ Exists(thread.task),
         \A t \in thread.listed \cup thread.submitted : Exists(t),
         Become(p, thread)
  PROVE  RowsTyped /\ Turns(p)
BY SameRowsTyped DEF Turns, OneTurns, HoldsRows, Become

LEMMA ScheduleTyped ==
  ASSUME TypesInv, NEW p \in Thread, Schedule(p)
  PROVE  RowsTyped /\ Turns(p)
<1>0. /\ threads[p] \in ThreadRow
      /\ \A t \in threads[p].listed \cup threads[p].submitted : Exists(t)
      /\ threads[p].listed \subseteq Task /\ threads[p].submitted \subseteq Task
  BY InHandTyped DEF HoldsRows, ThreadRow
<1>a. \A state \in State : \A t \in InState(state) : t \in Task /\ Exists(t)
  BY DEF InState, Exists
<1>1. CASE Tick(p)
  <2> DEFINE once == bus.mode = "step"
             thread == [Idle EXCEPT !.pc = "collecting", !.listed = InState("DRAFT"),
                                    !.once = once]
  <2>1. once \in BOOLEAN
    OBVIOUS
  <2> HIDE DEF once
  <2>2. /\ thread \in ThreadRow /\ thread.pc = "collecting"
        /\ thread.listed = InState("DRAFT") /\ thread.submitted = {}
    BY <1>a, <2>1, OffRow DEF ThreadRow, Resting
  <2>3. Become(p, thread) /\ UNCHANGED tasks
    BY <1>1 DEF Tick, once
  <2> HIDE DEF thread
  <2>4. thread.pc \notin Busy
    BY <2>2 DEF Busy, Handed, Judging
  <2>5. \A t \in thread.listed \cup thread.submitted : Exists(t)
    BY <1>a, <2>2
  <2> QED
    BY <2>2, <2>3, <2>4, <2>5, ListTyped
<1>2. CASE Collect(p)
  <2>1. PICK t \in Oldest(threads[p].listed) :
          IF Legal(tasks[t].state, "ASSIGNED")
          THEN Set(t, "ASSIGNED") /\ Become(p, [threads[p] EXCEPT !.listed = threads[p].listed \ {t}])
          ELSE UNCHANGED tasks /\ Become(p, Idle)
    BY <1>0, <1>2 DEF Collect, ThreadRow
  <2>2. t \in Task
    BY <1>0 DEF Oldest
  <2>3. RowsTyped
    BY <2>1, <2>2, SetTyped, SameRowsTyped
  <2> DEFINE thread == [threads[p] EXCEPT !.listed = threads[p].listed \ {t}]
  <2>4. /\ thread \in ThreadRow /\ thread.pc = "collecting"
        /\ thread.listed \subseteq threads[p].listed /\ thread.submitted = threads[p].submitted
    BY <1>0, <1>2 DEF ThreadRow, Collect, At
  <2>5. HoldsRows(thread)
    BY <1>0, <2>4 DEF HoldsRows, Busy, Handed, Judging
  <2> HIDE DEF thread
  <2>6. Become(p, thread) => Turns(p)
    BY <2>5 DEF Turns, OneTurns, Become
  <2> QED
    BY <2>1, <2>3, <2>6, OffTurns DEF thread
<1>3. CASE ListReady(p)
  <2> DEFINE ready == {t \in Task : Ready(t)}
             thread == [threads[p] EXCEPT !.pc = "listing", !.listed = ready]
  <2>1. ready \subseteq Task /\ \A t \in ready : Exists(t)
    BY DEF Ready, Exists
  <2> HIDE DEF ready
  <2>2. /\ thread \in ThreadRow /\ thread.pc = "listing" /\ thread.listed = ready
        /\ thread.submitted = threads[p].submitted
    BY <1>0, <2>1 DEF ThreadRow, Resting
  <2>3. Become(p, thread) /\ UNCHANGED tasks
    BY <1>3 DEF ListReady, ready
  <2> HIDE DEF thread
  <2> QED
    BY <1>0, <2>1, <2>2, <2>3, ListTyped DEF Busy, Handed, Judging
<1>4. CASE ListSubmitted(p)
  <2>1. PICK a, b : /\ a \subseteq threads[p].listed /\ b \subseteq InState("SUBMITTED")
                    /\ Become(p, [threads[p] EXCEPT !.pc = "next", !.listed = a, !.submitted = b])
                    /\ UNCHANGED tasks
    <3> DEFINE submitted == InState("SUBMITTED")
               ready == threads[p].listed
               list == IF ~threads[p].once THEN <<ready, submitted>>
                       ELSE IF submitted = {} THEN <<Oldest(ready), {}>>
                       ELSE <<{}, Oldest(submitted)>>
    <3>1. list[1] \subseteq ready /\ list[2] \subseteq submitted
      BY DEF Oldest
    <3>2. Become(p, [threads[p] EXCEPT !.pc = "next", !.listed = list[1], !.submitted = list[2]])
          /\ UNCHANGED tasks
      BY <1>4 DEF ListSubmitted
    <3> HIDE DEF list
    <3> QED
      BY <3>1, <3>2
  <2> DEFINE thread == [threads[p] EXCEPT !.pc = "next", !.listed = a, !.submitted = b]
  <2>2. /\ thread \in ThreadRow /\ thread.pc = "next" /\ thread.listed = a
        /\ thread.submitted = b
    <3>1. a \subseteq Task /\ b \subseteq Task
      BY <1>0, <1>a, <2>1
    <3> QED
      BY <1>0, <3>1 DEF ThreadRow, Resting
  <2>3. Become(p, thread) /\ UNCHANGED tasks
    BY <2>1
  <2> HIDE DEF thread
  <2>4. \A t \in a \cup b : Exists(t)
    BY <1>0, <1>a, <2>1
  <2> QED
    BY <2>2, <2>3, <2>4, ListTyped DEF Busy, Handed, Judging
<1>5. CASE Take(p)
  <2>0. UNCHANGED tasks
    BY <1>5 DEF Take
  <2>1. CASE Become(p, Idle)
    BY <2>0, <2>1, OffTurns, SameRowsTyped
  <2>2. ASSUME NEW t \in threads[p].listed,
               Become(p, [threads[p] EXCEPT !.pc = "dispatching", !.task = t,
                            !.job = "dispatch", !.listed = threads[p].listed \ {t}])
        PROVE  RowsTyped /\ Turns(p)
    <3> DEFINE thread == [threads[p] EXCEPT !.pc = "dispatching", !.task = t,
                            !.job = "dispatch", !.listed = threads[p].listed \ {t}]
    <3>1. /\ thread \in ThreadRow /\ thread.task = t
          /\ thread.listed \subseteq threads[p].listed
          /\ thread.submitted = threads[p].submitted
      BY <1>0 DEF ThreadRow, Busy, Handed
    <3> HIDE DEF thread
    <3>2. Become(p, thread)
      BY <2>2 DEF thread
    <3> QED
      BY <1>0, <2>0, <3>1, <3>2, ListTyped
  <2>3. ASSUME NEW t \in threads[p].submitted,
               Become(p, [threads[p] EXCEPT !.pc = "dispatching", !.task = t,
                            !.job = "complete", !.submitted = threads[p].submitted \ {t}])
        PROVE  RowsTyped /\ Turns(p)
    <3> DEFINE thread == [threads[p] EXCEPT !.pc = "dispatching", !.task = t,
                            !.job = "complete", !.submitted = threads[p].submitted \ {t}]
    <3>1. /\ thread \in ThreadRow /\ thread.task = t
          /\ thread.listed = threads[p].listed
          /\ thread.submitted \subseteq threads[p].submitted
      BY <1>0 DEF ThreadRow, Busy, Handed
    <3> HIDE DEF thread
    <3>2. Become(p, thread)
      BY <2>3 DEF thread
    <3> QED
      BY <1>0, <2>0, <3>1, <3>2, ListTyped
  <2>4. \/ Become(p, Idle)
        \/ \E t \in threads[p].listed :
             Become(p, [threads[p] EXCEPT !.pc = "dispatching", !.task = t,
                          !.job = "dispatch", !.listed = threads[p].listed \ {t}])
        \/ \E t \in threads[p].submitted :
             Become(p, [threads[p] EXCEPT !.pc = "dispatching", !.task = t,
                          !.job = "complete", !.submitted = threads[p].submitted \ {t}])
    BY <1>0, <1>5 DEF Take, Oldest, ThreadRow
  <2> QED
    BY <2>1, <2>2, <2>3, <2>4
<1>6. CASE Persist(p)
  <2>1. threads[p].pc \in Busy
    BY <1>6 DEF Persist, At, Busy
  <2>2. RowsTyped
    BY <1>6, <2>1, InHandTyped, SetTyped, SameRowsTyped DEF Persist
  <2> QED
    BY <1>6, <2>2, LeaveTurns DEF Persist
<1> QED
  BY <1>1, <1>2, <1>3, <1>4, <1>5, <1>6 DEF Schedule

LEMMA ExecuteTyped ==
  ASSUME TypesInv, NEW p \in Thread, Execute(p)
  PROVE  RowsTyped /\ Turns(p)
<1>1. threads[p].pc \in Busy
  BY DEF Execute, Dispatch, Start, Return, At, Busy, Handed
<1>2. CASE UNCHANGED tasks /\ (Leave(p) \/ Raise(p) \/ \E pc \in Busy : Go(p, pc))
  BY <1>1, <1>2, SameRowsTyped, LeaveTurns, RaiseTurns, GoTurns
<1>3. ASSUME NEW to \in State, Move(p, to, Leave(p)) \/ \E pc \in Busy : Move(p, to, Go(p, pc))
      PROVE  RowsTyped /\ Turns(p)
  BY <1>1, <1>3, MoveTyped
<1>4. {"prepared", "running", "reviewing"} \subseteq Busy
  BY DEF Busy, Handed
<1>5. CASE Dispatch(p)
  BY <1>2, <1>3, <1>4, <1>5 DEF Dispatch
<1>6. CASE Start(p)
  BY <1>2, <1>3, <1>4, <1>6 DEF Start, NoAdapter
<1>7. CASE Return(p)
  <2>1. ASSUME Move(p, "SUBMITTED", IF threads[p].job = "complete" THEN Go(p, "reviewing")
                                    ELSE Leave(p))
        PROVE  RowsTyped /\ Turns(p)
    BY <1>3, <1>4, <2>1
  <2> QED
    BY <1>3, <1>7, <2>1 DEF Return
<1> QED
  BY <1>5, <1>6, <1>7 DEF Execute

LEMMA AssessTyped ==
  ASSUME TypesInv, NEW p \in Thread, Assess(p)
  PROVE  RowsTyped /\ Turns(p)
<1>1. threads[p].pc \in Busy
  BY DEF Assess, Review, Gate, Judge, GateFailed, HandleRework, At, Busy, Judging
<1>2. CASE UNCHANGED tasks /\ (Leave(p) \/ Raise(p) \/ \E pc \in Busy : Go(p, pc))
  BY <1>1, <1>2, SameRowsTyped, LeaveTurns, RaiseTurns, GoTurns
<1>3. ASSUME NEW to \in State, Move(p, to, Leave(p)) \/ \E pc \in Busy : Move(p, to, Go(p, pc))
      PROVE  RowsTyped /\ Turns(p)
  BY <1>1, <1>3, MoveTyped
<1>4. {"judging", "reworking", "dispatching"} \subseteq Busy
  BY DEF Busy, Handed, Judging
<1>5. CASE Review(p)
  <2>1. UNCHANGED tasks
    BY <1>5 DEF Review
  <2>2. CASE Mine(p).state \in {"SUBMITTED", "REVIEWING"}
    <3> DEFINE thread == [threads[p] EXCEPT !.pc = "gating", !.seen = Mine(p).state]
    <3>1. /\ thread \in ThreadRow /\ thread.task = threads[p].task
          /\ thread.listed = threads[p].listed /\ thread.submitted = threads[p].submitted
      BY <2>2, InHandTyped, ZenonT(40) DEF ThreadRow, Busy, Judging
    <3>2. Become(p, thread)
      BY <1>5, <2>2 DEF Review
    <3> HIDE DEF thread
    <3> QED
      BY <1>1, <2>1, <3>1, <3>2, InHandTyped, ListTyped DEF HoldsRows
  <2>3. CASE Mine(p).state \notin {"SUBMITTED", "REVIEWING"}
    BY <1>2, <1>5, <2>1, <2>3 DEF Review
  <2> QED
    BY <2>2, <2>3
<1>6. CASE Gate(p)
  BY <1>2, <1>3, <1>4, <1>6 DEF Gate
<1>7. CASE Judge(p)
  BY <1>1, <1>3, <1>7, BumpTyped DEF Judge, Rework, Verdicts
<1>8. CASE GateFailed(p)
  BY <1>1, <1>8, BumpTyped DEF GateFailed, Rework
<1>9. CASE HandleRework(p)
  BY <1>2, <1>4, <1>9 DEF HandleRework
<1> QED
  BY <1>5, <1>6, <1>7, <1>8, <1>9 DEF Assess

(* The thread of a request takes a task of the table.                      *)
LEMMA RequestTyped ==
  ASSUME TypesInv, NEW h \in Hand, NEW t \in Task, Request(h, t)
  PROVE  RowsTyped /\ Turns(h)
<1>1. PICK job \in Requests :
        /\ Become(h, [Off EXCEPT !.pc = "dispatching", !.task = t, !.job = job])
        /\ Set(t, "ASSIGNED") \/ UNCHANGED tasks
  BY DEF Request
<1>2. Exists(t)
  BY DEF Request, Exists, TypesInv, TablesOK, TaskRow
<1>3. RowsTyped
  BY <1>1, SetTyped, SameRowsTyped
<1> DEFINE thread == [Off EXCEPT !.pc = "dispatching", !.task = t, !.job = job]
<1>4. /\ thread \in ThreadRow /\ thread.task = t
      /\ thread.listed = {} /\ thread.submitted = {}
  BY OffRow DEF ThreadRow, Busy, Handed
<1>5. Become(h, thread) /\ h \in Thread
  BY <1>1
<1> HIDE DEF thread
<1> QED
  BY <1>2, <1>3, <1>4, <1>5 DEF Turns, OneTurns, HoldsRows, Become

LEMMA ReleaseTyped ==
  ASSUME TypesInv, NEW t \in Task, Release(t)
  PROVE  RowsTyped
<1> DEFINE row == Row(tasks[t].deps, tasks[t].files, tasks[t].of \cup {t}, tasks[t].rework)
<1>1. tasks[t] \in TaskRow /\ tasks \in [Task -> TaskRow]
  BY DEF TypesInv, TablesOK
<1>2. row \in TaskRow /\ row.state = "DRAFT"
  BY <1>1 DEF TaskRow, Row
<1>3. PICK u \in Oldest(InState("absent")) : tasks' = [tasks EXCEPT ![u] = row]
  BY DEF Release
<1>4. u \in Task
  BY DEF Oldest, InState
<1> HIDE DEF row
<1>5. tasks' \in [Task -> TaskRow]
      /\ \A v \in Task : tasks'[v] = IF v = u THEN row ELSE tasks[v]
  BY <1>1, <1>2, <1>3, <1>4
<1> QED
  BY <1>2, <1>5 DEF RowsTyped, Exists

(* What the other threads hold they still hold.                            *)
LEMMA HoldsStill ==
  ASSUME RowsTyped, NEW thread, HoldsRows(thread)
  PROVE  HoldsRows(thread)'
BY DEF HoldsRows, RowsTyped, ThreadRow

LEMMA TurnTyped ==
  ASSUME TypesInv, RowsTyped, BusOK(bus'), NEW p \in Thread, Turns(p)
  PROVE  TypesInv'
<1>1. PICK thread : threads' = [threads EXCEPT ![p] = thread] /\ HoldsRows(thread)
  BY DEF Turns, OneTurns
<1>2. threads \in [Thread -> ThreadRow] /\ thread \in ThreadRow
  BY <1>1 DEF TypesInv, TablesOK, HoldsRows
<1>3. threads' \in [Thread -> ThreadRow]
  BY <1>1, <1>2
<1>4. ASSUME NEW q \in Thread
      PROVE  HoldsRows(threads'[q])
  BY <1>1, <1>2, InHandTyped
<1>5. ASSUME NEW q \in Thread
      PROVE  HoldsRows(threads[q])'
  BY <1>4, HoldsStill DEF HoldsRows, RowsTyped, ThreadRow
<1> QED
  BY <1>3, <1>5 DEF TypesInv, TablesOK, RowsTyped, BusOK

LEMMA StillTyped ==
  ASSUME TypesInv, RowsTyped, BusOK(bus'), threads' = threads
  PROVE  TypesInv'
<1>1. ASSUME NEW q \in Thread
      PROVE  HoldsRows(threads[q])'
  BY InHandTyped, HoldsStill DEF HoldsRows, RowsTyped, ThreadRow
<1> QED
  BY <1>1 DEF TypesInv, TablesOK, RowsTyped, BusOK

LEMMA FreshTyped ==
  ASSUME tasks' \in [Task -> TaskRow], BusOK(bus'), DOMAIN threads' = Thread,
         threads' = [q \in Thread |-> threads'[q]],
         \A q \in Thread : threads'[q] \in {Off, Idle}
  PROVE  TypesInv'
<1>1. threads' \in [Thread -> ThreadRow]
  BY OffRow
<1>2. ASSUME NEW q \in Thread
      PROVE  HoldsRows(threads[q])'
  BY OffRow DEF HoldsRows, Busy, Handed, Judging
<1> QED
  BY <1>1, <1>2 DEF TypesInv, TablesOK, BusOK

LEMMA TypesStep ==
  ASSUME TypesInv, [TasksNext]_taskVars
  PROVE  TypesInv'
<1>b. BusOK(bus')
  BY BusStep DEF TypesInv
<1>1. ASSUME NEW p \in Thread, Advance(p)
      PROVE  TypesInv'
  BY <1>b, <1>1, ScheduleTyped, ExecuteTyped, AssessTyped, TurnTyped DEF Advance
<1>2. ASSUME NEW t \in Task, StuckScan(t)
      PROVE  TypesInv'
  BY <1>b, <1>2, SetTyped, StillTyped DEF StuckScan
<1>3. CASE Console
  <2>1. ASSUME NEW h \in Hand, NEW t \in Task, Request(h, t)
        PROVE  TypesInv'
    BY <1>b, <2>1, RequestTyped, TurnTyped
  <2>2. ASSUME NEW t \in Task, Release(t)
        PROVE  TypesInv'
    BY <1>b, <2>2, ReleaseTyped, StillTyped DEF Release
  <2>3. CASE Relaunch
    BY <1>b, <2>3, OffTurns, SameRowsTyped, TurnTyped DEF Relaunch
  <2>4. CASE tasks' = tasks /\ threads' = threads
    BY <1>b, <2>4, SameRowsTyped, StillTyped
  <2> QED
    BY <1>3, <2>1, <2>2, <2>3, <2>4 DEF Console, ApiMode, ApiConfirm, SetMode, Confirm
<1>4. CASE Crash \/ Restart
  <2>1. tasks' = tasks
    BY <1>4 DEF Crash, Restart
  <2>2. tasks' \in [Task -> TaskRow]
    BY <2>1 DEF TypesInv, TablesOK
  <2>3. /\ DOMAIN threads' = Thread /\ threads' = [q \in Thread |-> threads'[q]]
        /\ \A q \in Thread : threads'[q] \in {Off, Idle}
    BY <1>4 DEF Crash, Restart, Booted
  <2> QED
    BY <1>b, <2>2, <2>3, FreshTyped
<1>5. CASE UNCHANGED taskVars
  BY <1>b, <1>5, SameRowsTyped, StillTyped DEF taskVars
<1> QED
  BY <1>1, <1>2, <1>3, <1>4, <1>5 DEF TasksNext

(* The types of TasksTypeOK hold with any number of reviewers: a thread    *)
(* never works on a task without a row.                                    *)
THEOREM TaskTypes == TasksSpec => []TasksTypeOK
<1>1. TasksInit => TypesInv
  <2> SUFFICES ASSUME TasksInit PROVE TypesInv
    OBVIOUS
  <2>1. tasks \in [Task -> TaskRow]
    BY InitRows
  <2>2. threads = [Booted(TRUE) EXCEPT !["project"] = Idle]
    BY DEF TasksInit
  <2>3. \A q \in Thread : threads[q] \in {Off, Idle}
    BY <2>2 DEF Booted
  <2>4. threads \in [Thread -> ThreadRow]
    BY <2>2, OffRow DEF Booted
  <2>5. \A q \in Thread : HoldsRows(threads[q])
    BY <2>3, OffRow DEF HoldsRows, Busy, Handed, Judging
  <2>6. bus \in [mode : Modes, confirms : 0..MaxConfirms]
    BY DEF TasksInit, NewBus
  <2> QED
    BY <2>1, <2>4, <2>5, <2>6 DEF TypesInv, TablesOK
<1>2. TypesInv => TasksTypeOK
  BY DEF TypesInv, TablesOK, TasksTypeOK, TaskRow, ThreadRow
<1> QED
  BY <1>1, <1>2, TypesStep, PTL DEF TasksSpec, TasksSafety
=============================================================================
