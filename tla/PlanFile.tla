------------------------------- MODULE PlanFile -------------------------------
(***************************************************************************)
(* plan.json and the progress bar.  Tasks live in the database; plan.json  *)
(* groups them into stages, with optional weights, and mirrors their       *)
(* states.  Whoever creates or moves a task writes the row first and then  *)
(* loads, changes and saves the whole file, so two of them lose updates of *)
(* each other, and a file that cannot be read is taken for an empty one.   *)
(* The progress bar divides 100 % over the tasks of the database along the *)
(* stages of the file, in tenths of a percent.                             *)
(***************************************************************************)
EXTENDS Integers, FiniteSets, Sequences, SequencesExt, FiniteSetsExt

CONSTANTS
  Writer,       (* threads that create, move and count tasks                *)
  Task,
  StageOf,      (* the stage a task is created in                           *)
  Seeds,        (* plans written by hand before the first task              *)
  Moves,        (* changes of state, as pairs                               *)
  Reader,       (* those of them that count                                 *)
  MaxFaults     (* bound: reads of the file that fail, deaths of the process*)

(* The states of tasks, and a plan of any weights: its stages have         *)
(* different names, and it lists a task once, in the stage it is created in*)
TaskState == {"DRAFT"} \cup {m[2] : m \in Moves}

EntryRow == [id : Task, state : TaskState, weight : Int]
StageRow == [name : STRING, weight : Int, tasks : Seq(EntryRow)]

ListsOnce(s) ==
  /\ \A k \in DOMAIN s.tasks : s.name = StageOf[s.tasks[k].id]
  /\ \A k, l \in DOMAIN s.tasks : s.tasks[k].id = s.tasks[l].id => k = l

Plan ==
  {p \in Seq(StageRow) :
     /\ \A i, j \in DOMAIN p : p[i].name = p[j].name => i = j
     /\ \A i \in DOMAIN p : ListsOnce(p[i])}

ASSUME PlanAssumption ==
  /\ Reader \subseteq Writer /\ MaxFaults \in Nat
  /\ StageOf \in [Task -> STRING]
  /\ \A p \in Seeds : p \in Plan

VARIABLES
  rows,     \* state of each task of the database
  plan,     \* the stages of plan.json
  writers,  \* what each thread is at
  faults

planVars == <<rows, plan, writers, faults>>

(* A weight that was not given; one that is given and not positive is 1.   *)
Absent == -1
Parsed(w) == IF w > 0 THEN w ELSE 1

Entry(task, state) == [id |-> task, state |-> state, weight |-> Absent]
Stage(name) == [name |-> name, weight |-> Absent, tasks |-> <<>>]

Ids(stages) == UNION {{e.id : e \in ToSet(s.tasks)} : s \in ToSet(stages)}

(* The empty skeleton.                                                     *)
EmptyPlan == <<>>

(* What a thread is at: nothing, the file after a row, an answer.          *)
Doing(pc, job, task, state) ==
  [pc |-> pc, job |-> job, task |-> task, state |-> state, plan |-> EmptyPlan, rows |-> <<>>]
Counting(job, p, rs) ==
  [pc |-> "reading", job |-> job, task |-> "none", state |-> "none", plan |-> p, rows |-> rs]
Resting == Doing("idle", "none", "none", "none")
-----------------------------------------------------------------------------
(* The sum of the numbers at some positions.                               *)
Highest(numbers) == Max({0} \cup DOMAIN numbers)

Total(numbers) ==
  LET sum[n \in 0..Highest(numbers)] ==
        IF n = 0 THEN 0
        ELSE sum[n - 1] + (IF n \in DOMAIN numbers THEN numbers[n] ELSE 0)
  IN sum[Highest(numbers)]

(* Largest remainders: total tenths over the weights.  Who gets one more:  *)
(* the largest fractions, the first of equals.                             *)
Ahead(fraction, j, i) == fraction[j] > fraction[i] \/ (fraction[j] = fraction[i] /\ j < i)

Distribute_Floor(weights, total) == [i \in DOMAIN weights |-> (weights[i] * total) \div Total(weights)]

Distribute(weights, total) ==
  LET floor == Distribute_Floor(weights, total)
      fraction == [i \in DOMAIN weights |-> (weights[i] * total) % Total(weights)]
      left == total - Total(floor) IN
  [i \in DOMAIN weights |->
     floor[i] + IF Cardinality({j \in DOMAIN weights : Ahead(fraction, j, i)}) < left THEN 1 ELSE 0]

(* One more stage, after the others, for the tasks that no stage lists.    *)
Completed(stages, states) ==
  LET orphans == SetToSeq(DOMAIN states \ Ids(stages)) IN
  Append(stages, [Stage("others") EXCEPT
                    !.tasks = [i \in DOMAIN orphans |-> Entry(orphans[i], states[orphans[i]])]])

(* The tasks of a stage that the database has, and the stages that count:  *)
(* those that have one.                                                    *)
Tracked(s, states) == {k \in DOMAIN s.tasks : s.tasks[k].id \in DOMAIN states}
Counted(stages, states) == {i \in DOMAIN stages : Tracked(stages[i], states) # {}}

EntryWeights(s, states) == [k \in Tracked(s, states) |-> Parsed(s.tasks[k].weight)]
StageWeight(s, states) ==
  IF s.weight # Absent THEN Parsed(s.weight) ELSE Total(EntryWeights(s, states))

(* The tasks of a stage with what each has of the stage's part.            *)
StageLeaves(s, states, part) ==
  LET share == Distribute(EntryWeights(s, states), part) IN
  [k \in Tracked(s, states) |->
     [id |-> s.tasks[k].id, weight |-> Parsed(s.tasks[k].weight), share |-> share[k]]]

Leaves(stages, states) ==
  LET part == Distribute([i \in Counted(stages, states) |-> StageWeight(stages[i], states)], 1000) IN
  [i \in Counted(stages, states) |-> StageLeaves(stages[i], states, part[i])]

DoneStates == {"DONE", "PARTIAL"}

(* The percentage is the shares of the tasks done; the states are those of *)
(* the database, never those of the file.                                  *)
ShareDone(leaf, states) == IF states[leaf.id] \in DoneStates THEN leaf.share ELSE 0

Progress(leaves, states) ==
  [states |-> states, leaves |-> leaves,
   percent |-> Total([i \in DOMAIN leaves |->
                 Total([k \in DOMAIN leaves[i] |-> ShareDone(leaves[i][k], states)])])]

ComputeProgress(stages, states) == Progress(Leaves(Completed(stages, states), states), states)
-----------------------------------------------------------------------------
Goes(t, r) == writers' = [writers EXCEPT ![t] = r]

(* The manager takes a project that has no task in: an empty plan.         *)
IntakeCheck(t) ==
  /\ writers[t].pc = "idle" /\ DOMAIN rows = {}
  /\ Goes(t, Doing("save", "intake", "none", "none"))
  /\ UNCHANGED <<rows, plan, faults>>

(* A task of the database first, its entry in the plan afterwards.         *)
CreateTask(t, task) ==
  /\ writers[t].pc = "idle" /\ task \notin DOMAIN rows
  /\ rows' = [x \in DOMAIN rows \cup {task} |-> IF x = task THEN "DRAFT" ELSE rows[x]]
  /\ Goes(t, Doing("load", "enrol", task, "DRAFT"))
  /\ UNCHANGED <<plan, faults>>

Transition(t, task, to) ==
  /\ writers[t].pc = "idle" /\ task \in DOMAIN rows /\ <<rows[task], to>> \in Moves
  /\ rows' = [rows EXCEPT ![task] = to]
  /\ Goes(t, Doing("load", "sync", task, to))
  /\ UNCHANGED <<plan, faults>>

(* An entry already in the stage is updated in place.                      *)
Mirrored(s, task, state) ==
  [s EXCEPT !.tasks = [i \in DOMAIN @ |-> IF @[i].id = task THEN [@[i] EXCEPT !.state = state] ELSE @[i]]]

Enrolled(stages, name, task, state) ==
  LET known == \E s \in ToSet(stages) : s.name = name
      all == IF known THEN stages ELSE Append(stages, Stage(name)) IN
  [i \in DOMAIN all |->
     IF all[i].name # name THEN all[i]
     ELSE IF task \in Ids(<<all[i]>>) THEN Mirrored(all[i], task, state)
     ELSE [all[i] EXCEPT !.tasks = Append(@, Entry(task, state))]]

(* What is read is the file, or the empty skeleton when reading fails.     *)
Read(p) ==
  \/ p = plan /\ UNCHANGED faults
  \/ p = EmptyPlan /\ faults < MaxFaults /\ faults' = faults + 1

LoadPlan(t) ==
  /\ writers[t].pc = "load"
  /\ \E p \in {plan, EmptyPlan} : Read(p) /\ Goes(t, [writers[t] EXCEPT !.pc = "save", !.plan = p])
  /\ UNCHANGED <<rows, plan>>

(* The whole file is written from what was read.  A state is mirrored only *)
(* into entries there are.                                                 *)
SavePlan(t) ==
  LET w == writers[t] IN
  /\ w.pc = "save"
  /\ plan' = CASE w.job = "enrol" -> Enrolled(w.plan, StageOf[w.task], w.task, w.state)
               [] w.job = "sync" -> IF w.task \in Ids(w.plan)
                                    THEN [i \in DOMAIN w.plan |-> Mirrored(w.plan[i], w.task, w.state)]
                                    ELSE plan
               [] w.job = "intake" -> EmptyPlan
  /\ Goes(t, Resting)
  /\ UNCHANGED <<rows, faults>>

(* The progress of a project counts rows read before the file; a snapshot  *)
(* of the console reads the file before the rows.                          *)
ProgressRows(t) ==
  /\ writers[t].pc = "idle"
  /\ Goes(t, Counting("progress", EmptyPlan, rows))
  /\ UNCHANGED <<rows, plan, faults>>

SnapshotPlan(t) ==
  /\ writers[t].pc = "idle"
  /\ \E p \in {plan, EmptyPlan} :
       Read(p) /\ Goes(t, Counting("snapshot", p, <<>>))
  /\ UNCHANGED <<rows, plan>>

(* What a thread answers when it reads the rest now.                       *)
Answer(w) ==
  ComputeProgress(IF w.job = "progress" THEN plan ELSE w.plan,
                  IF w.job = "progress" THEN w.rows ELSE rows)

Answered(t) ==
  /\ writers[t].pc = "reading" /\ Goes(t, Resting)
  /\ UNCHANGED <<rows, plan, faults>>

(* The process dies: rows stay without their entry, states without their   *)
(* mirror.                                                                 *)
PlanDies ==
  /\ faults < MaxFaults /\ \E t \in Writer : writers[t].pc # "idle"
  /\ writers' = [t \in Writer |-> Resting] /\ faults' = faults + 1
  /\ UNCHANGED <<rows, plan>>

PlanInit ==
  /\ rows = <<>> /\ plan \in Seeds
  /\ writers = [t \in Writer |-> Resting]
  /\ faults = 0

PlanNext ==
  \/ \E t \in Writer :
       \/ IntakeCheck(t) \/ LoadPlan(t) \/ SavePlan(t)
       \/ \E task \in Task : CreateTask(t, task) \/ \E m \in Moves : Transition(t, task, m[2])
  \/ \E t \in Reader : ProgressRows(t) \/ SnapshotPlan(t) \/ Answered(t)
  \/ PlanDies
-----------------------------------------------------------------------------
(* An answer is whole: it counts every task of the rows it read exactly    *)
(* once, its shares add up to 100.0 %, a heavier task of a stage never     *)
(* weighs less, and it says 100 % when all of them are done.               *)
CountsOnce(leaves, states) ==
  /\ \A i \in DOMAIN leaves : \A k \in DOMAIN leaves[i] : leaves[i][k].id \in DOMAIN states
  /\ \A x \in DOMAIN states :
       \E i \in DOMAIN leaves : \E k \in DOMAIN leaves[i] :
         /\ leaves[i][k].id = x
         /\ \A j \in DOMAIN leaves : \A l \in DOMAIN leaves[j] : leaves[j][l].id = x => j = i /\ l = k

AddsUp(leaves) ==
  Total([i \in DOMAIN leaves |-> Total([k \in DOMAIN leaves[i] |-> leaves[i][k].share])]) = 1000

Weighed(stage) ==
  \A k, l \in DOMAIN stage : stage[k].weight > stage[l].weight => stage[k].share >= stage[l].share

Whole(answer) ==
  /\ CountsOnce(answer.leaves, answer.states)
  /\ DOMAIN answer.states # {} => AddsUp(answer.leaves)
  /\ \A i \in DOMAIN answer.leaves : Weighed(answer.leaves[i])
  /\ DOMAIN answer.states # {} /\ (\A x \in DOMAIN answer.states : answer.states[x] \in DoneStates)
       => answer.percent = 1000

(* Whatever updates of the file were lost, overtaken or read as nothing,   *)
(* and whenever rows and file were read, a progress that is answered is    *)
(* whole (compute_progress, project_progress, snapshot).                   *)
ProgressIsWhole ==
  \A t \in Writer : writers[t].pc = "reading" => Whole(Answer(writers[t]))

PlanTypeOK ==
  /\ DOMAIN rows \subseteq Task
  /\ \A t \in DOMAIN rows : rows[t] \in TaskState
  /\ plan \in Plan
  /\ \A t \in Writer : writers[t].pc \in {"idle", "load", "save", "reading"}
  /\ faults \in 0..MaxFaults
=============================================================================
