-------------------------------- MODULE Turns --------------------------------
(***************************************************************************)
(* Who works on the todos: the processes of `fleet worker --loop`          *)
(* (fleet/runner/worker.py, with the planner of fleet/planner) and the     *)
(* host sessions that drive `fleet next` and `fleet writeback`             *)
(* (fleet/cli/main.py).                                                    *)
(*                                                                         *)
(* A turn is a sequence of kernel calls, each atomic as in Kernel, with    *)
(* long work in between, during which the lease may lapse and somebody     *)
(* else may act on the todo.  What a process knows of its todo is what it  *)
(* read when it picked it.  A KernelError ends the process: run_loop does  *)
(* not catch it.                                                           *)
(***************************************************************************)
EXTENDS Kernel

CONSTANTS
  Loop,        (* worker processes                                          *)
  Session,     (* host sessions                                             *)
  Identity,    (* what a process claims with: worker-<pid>, or --agent      *)
  Plans,       (* plans a model may answer with                             *)
  Modes,       (* runtime.scheduler, read at every steer turn: auto, step   *)
  Slow,        (* BOOLEAN: a turn may outlast its lease without a heartbeat *)
  Acts,        (* bound: what the user does, see User                       *)
  Wishes,      (* bound: contents of the todos the user creates             *)
  UserTodos,   (* bound: the user creates no todo beyond this id            *)
  MaxCrashes   (* bound: processes killed                                   *)

Process == Loop \cup Session

ASSUME TurnsAssumption ==
  /\ Loop \cap Session = {}
  /\ Identity \in [Process -> Worker]
  /\ \A p \in Loop, q \in Process : Identity[p] = Identity[q] => p = q
  /\ Plans \subseteq Seq(Content)
  /\ Modes \subseteq {"auto", "step"} /\ Slow \in BOOLEAN
  /\ Wishes \subseteq Specs
  /\ UserTodos \in 0..MaxTodo /\ MaxCrashes \in Nat

VARIABLES turn, crashes

turnVars == <<todos, created, goals, rounds, quota, turn, crashes>>

(* pc    what the process does next                                        *)
(* todo  the todo it picked, spec: its content when it was read            *)
(* out   the verdict it will write, or the status it read; a rework has    *)
(*       the content that was read ("successor") or that of the row when   *)
(*       it is written ("retry")                                           *)
(* plan  what remains of the plan it is creating, made: the ids so far     *)
(* diff  the plan change it is about to apply or propose                   *)
Rest == [pc |-> "idle", todo |-> 0, spec |-> PlanSpec, out |-> "none",
         plan |-> <<>>, made |-> <<>>, diff |-> NoDiff]

At(p, pc) == turn[p].pc = pc
Mine(p)   == todos[turn[p].todo]
Kind(p)   == turn[p].spec.kind

Become(p, state) == turn' = [turn EXCEPT ![p] = state] /\ UNCHANGED crashes
Go(p, pc)        == Become(p, [turn[p] EXCEPT !.pc = pc])
Decide(p, out)   == Become(p, [turn[p] EXCEPT !.pc = "writing", !.out = out])

(* A KernelError: the worker process ends; the command of a host fails,    *)
(* and once it has its todo it may try another.                            *)
Fail(p) ==
  IF p \in Loop THEN Become(p, [Rest EXCEPT !.pc = "dead"])
  ELSE IF turn[p].pc \in {"picked", "claimed"} THEN Become(p, Rest)
  ELSE Go(p, "working")

(* A kernel call of p: it succeeds and p goes on, or it raises.            *)
Try(p, guard, call, next) ==
  \/ guard /\ call /\ next
  \/ ~guard /\ UNCHANGED vars /\ Fail(p)

-----------------------------------------------------------------------------
(* Picking and claiming.                                                   *)

First(S) == CHOOSE t \in S : \A u \in S : t <= u

(* claimable(): the expired leases are taken back, then the oldest         *)
(* claimable todo is picked.                                               *)
Poll(p) ==
  LET ts == TakenBack(todos, Expired(todos))
      ready == Claimable(ts)
  IN
  /\ At(p, "idle")
  /\ Expired(todos) # {} \/ ready # {}
  /\ RequeueTx(Expired(todos))
  /\ IF ready = {} THEN UNCHANGED <<turn, crashes>>
     ELSE Become(p, [Rest EXCEPT !.pc = "picked", !.todo = First(ready),
                                !.spec = todos[First(ready)].spec])

TakeClaim(p) ==
  /\ At(p, "picked")
  /\ Try(p, CanClaim(Mine(p)), ClaimTx(turn[p].todo, Identity[p]),
         \/ Go(p, "claimed")
         \/ p \in Loop /\ Kind(p) = "exec" /\ Decide(p, "blocked"))  \* no executor

StartRunning(p) ==
  /\ At(p, "claimed")
  /\ Try(p, CanRun(Mine(p), Identity[p]), MarkTx(turn[p].todo, "running"), Go(p, "working"))

-----------------------------------------------------------------------------
(* A worker's turn.                                                        *)

(* The harness streams and renews; an exception of renew_lease is          *)
(* swallowed.  A plan or steer turn renews once.                           *)
Heartbeat(p) ==
  /\ p \in Loop /\ At(p, "working") /\ Kind(p) = "exec"
  /\ RenewLease(turn[p].todo, Identity[p])
  /\ UNCHANGED <<turn, crashes>>

StartVerifying(p) ==
  /\ p \in Loop /\ At(p, "working")
  /\ Try(p, CanVerify(Mine(p), Identity[p]), MarkTx(turn[p].todo, "verifying"),
         Go(p, IF Kind(p) = "exec" THEN "checking" ELSE "renewing"))

RenewOnce(p) ==
  /\ At(p, "renewing")
  /\ IF CanRenew(Mine(p), Identity[p]) THEN RenewTx(turn[p].todo) ELSE UNCHANGED vars
  /\ Go(p, "checking")

(* No model is configured: the plan or steer todo is given back.           *)
NoPlanner(p) ==
  /\ p \in Loop /\ At(p, "working") /\ Kind(p) # "exec"
  /\ Decide(p, "blocked") /\ UNCHANGED vars

(* The harness failed, the verify commands ran and failed, or they passed; *)
(* run_verify fails when there is none.                                    *)
Gate(p) ==
  /\ p \in Loop /\ At(p, "checking") /\ Kind(p) = "exec"
  /\ \E out \in {"blocked", "successor", "done"} :
       /\ out = "done" => turn[p].spec.verify
       /\ Decide(p, out)
  /\ UNCHANGED vars

(* The model is unavailable, or its answer does not validate.              *)
NoAnswer(p) ==
  /\ p \in Loop /\ At(p, "checking") /\ Kind(p) # "exec"
  /\ \E out \in {"blocked", "retry"} : Decide(p, out)
  /\ UNCHANGED vars

(* validate_plan: each task has verify commands and allowed files, and     *)
(* refers to tasks of the plan only, earlier or later ones, in no cycle.   *)
ValidPlan(plan) ==
  /\ plan # <<>>
  /\ \A n \in DOMAIN plan :
       /\ plan[n].verify /\ plan[n].files # {}
       /\ \A d \in plan[n].deps : -d \in DOMAIN plan
  /\ \A S \in SUBSET DOMAIN plan :
       (\A n \in S : \E d \in plan[n].deps : -d \in S) => S = {}

ReceivePlan(p, plan) ==
  /\ p \in Loop /\ At(p, "checking") /\ Kind(p) = "plan"
  /\ ValidPlan(plan)
  /\ Become(p, [turn[p] EXCEPT !.pc = "planning", !.plan = plan])
  /\ UNCHANGED vars

(* apply_plan: one create_todo per task, in the order of the plan.  A task *)
(* refers to another by its place, -n for the n-th; id_map knows only the  *)
(* ones created before, another one is a KeyError.                         *)
Mapped(deps, made) == {made[-d] : d \in deps}

CreatePlanned(p) ==
  LET spec == Head(turn[p].plan)
      made == turn[p].made
      known == \A d \in spec.deps : -d \in DOMAIN made
  IN
  /\ At(p, "planning") /\ turn[p].plan # <<>>
  /\ \/ /\ known
        /\ CreateTodo(Mine(p).goal,
                      [spec EXCEPT !.kind = "exec", !.deps = Mapped(spec.deps, made)])
        /\ Become(p, [turn[p] EXCEPT !.plan = Tail(@), !.made = Append(@, created + 1)])
     \/ ~known /\ UNCHANGED vars /\ Fail(p)

EndPlan(p) ==
  /\ At(p, "planning") /\ turn[p].plan = <<>>
  /\ Decide(p, "done") /\ UNCHANGED vars

(* A steer turn: the change is validated; then auto mode applies it, step  *)
(* mode proposes it and writes needs_user all the same.                    *)
Valid(diff, t) ==
  /\ \A n \in DOMAIN diff.add : diff.add[n].verify /\ diff.add[n].files # {}
  /\ \A u \in diff.cancel \cup DOMAIN diff.modify :
       /\ Present(u) /\ todos[u].status \notin Settled
       /\ todos[u].goal = todos[t].goal /\ u # t

ReceiveDiff(p, diff) ==
  /\ p \in Loop /\ At(p, "checking") /\ Kind(p) = "steer"
  /\ Valid(diff, turn[p].todo)
  /\ Become(p, [turn[p] EXCEPT !.pc = "changing", !.diff = diff])
  /\ UNCHANGED vars

ChangePlan(p) ==
  LET t == turn[p].todo
      diff == turn[p].diff
  IN
  /\ At(p, "changing")
  /\ \/ /\ "auto" \in Modes
        /\ \/ ApplyPlanDiff(t, "approved", diff) /\ Decide(p, "done")
           \/ ~CanDecide(Mine(p)) /\ UNCHANGED vars /\ Fail(p)
     \/ /\ "step" \in Modes
        /\ Try(p, CanWriteBack(Mine(p)), ProposeTx(t, diff), Decide(p, "needs_user"))

-----------------------------------------------------------------------------
(* A host session.  Nothing renews its lease.  writeback reads the todo,   *)
(* refuses when somebody else holds it, marks it verifying and runs the    *)
(* verify commands; only the marks look at the holder again.               *)

Refused(p) == Mine(p).claimedBy \notin {Nobody, Identity[p]}

ReadWriteback(p) ==
  /\ p \in Session /\ At(p, "working")
  /\ ~Refused(p)
  /\ \/ Become(p, [turn[p] EXCEPT !.pc = "marking", !.spec = Mine(p).spec,
                                   !.out = Mine(p).status])
     \/ \E verdict \in Waiting \cup {"retry"} :
          Become(p, [turn[p] EXCEPT !.pc = "writing", !.spec = Mine(p).spec, !.out = verdict])
  /\ UNCHANGED vars

MarkWriteback(p) ==
  LET t == turn[p].todo IN
  /\ p \in Session /\ At(p, "marking")
  /\ \/ /\ turn[p].out = "claimed"
        /\ Try(p, CanRun(Mine(p), Identity[p]), MarkTx(t, "running"),
               Become(p, [turn[p] EXCEPT !.out = "running"]))
     \/ /\ turn[p].out = "running"
        /\ Try(p, CanVerify(Mine(p), Identity[p]), MarkTx(t, "verifying"), Go(p, "checking"))
     \/ /\ turn[p].out \notin {"claimed", "running"}
        /\ Go(p, "checking") /\ UNCHANGED vars

(* The gate of writeback; without verify commands there must be a file     *)
(* with evidence, or the command is refused.                               *)
GateWriteback(p) ==
  /\ p \in Session /\ At(p, "checking")
  /\ \/ Decide(p, "done")
     \/ IF turn[p].spec.verify THEN Decide(p, "successor") ELSE Go(p, "working")
  /\ UNCHANGED vars

(* The session goes on to the next todo, its lease is left to lapse.       *)
GiveUp(p) == p \in Session /\ At(p, "working") /\ Become(p, Rest) /\ UNCHANGED vars

-----------------------------------------------------------------------------
(* The write-back of the verdict: transition(), which never asks who       *)
(* writes.                                                                 *)
Write(p) ==
  LET t == turn[p].todo
      out == turn[p].out
  IN
  /\ At(p, "writing")
  /\ \/ out = "done" /\ Try(p, CanFinish(Mine(p), TRUE), DoneTx(t), Become(p, Rest))
     \/ out = "successor"
        /\ Try(p, CanWriteBack(Mine(p)), WriteSuccessor(t, turn[p].spec), Become(p, Rest))
     \/ out = "retry"
        /\ Try(p, CanWriteBack(Mine(p)), WriteSuccessor(t, Mine(p).spec), Become(p, Rest))
     \/ out \in Waiting
        /\ Try(p, CanWriteBack(Mine(p)), WaitTx(t, out), Become(p, Rest))

(* Any process may be killed at any time, and is started again by hand.    *)
Crash(p) ==
  /\ turn[p].pc \notin {"idle", "dead"}
  /\ crashes < MaxCrashes
  /\ crashes' = crashes + 1
  /\ turn' = [turn EXCEPT ![p] = [Rest EXCEPT !.pc = "dead"]]
  /\ UNCHANGED vars

Restart(p) == At(p, "dead") /\ Become(p, Rest) /\ UNCHANGED vars

(* The lease of a todo nobody works on lapses; with Slow, any lease.       *)
Attended(t) == \E p \in Process : turn[p].todo = t /\ turn[p].pc \notin {"idle", "dead"}
Lapse(t) == LapseLease(t) /\ (Slow \/ ~Attended(t)) /\ UNCHANGED <<turn, crashes>>

-----------------------------------------------------------------------------
(* The user, through the console: a handler is one kernel call.            *)

(* A goal with its plan todo, or a draft that is frozen later.             *)
GoalsCreate(g) ==
  \/ "direct" \in Acts /\ CreateGoalWithPlan(g)
  \/ "draft" \in Acts /\ CreateGoal(g, FALSE)
GoalsFreeze(g) == FreezeGoal(g)

(* What is said to a goal is a steer todo of it; todos of other kinds are  *)
(* made by create_todo alone.                                              *)
SteerCreate(g, spec) == spec.kind = "steer" /\ CreateTodo(g, spec)
AddTodo(g, spec) == spec.kind # "steer" /\ CreateTodo(g, spec)

TodosReopen(t) == Reopen(t)

(* What is decided on is the change the todo holds now, not the one that   *)
(* was shown.                                                              *)
PlanDecide(t, decision) == ApplyPlanDiff(t, decision, todos[t].diff)

(* Who operates the fleet sets a limit; nothing in src/fleet calls it.     *)
Operate == \E key \in Key, limit \in Limits : SetQuota(key, limit)

User ==
  /\ UNCHANGED <<turn, crashes>>
  /\ \/ \E g \in Goal : GoalsCreate(g) \/ GoalsFreeze(g)
     \/ "todo" \in Acts /\ created < UserTodos
        /\ \E g \in Goal, spec \in Wishes : SteerCreate(g, spec) \/ AddTodo(g, spec)
     \/ "reopen" \in Acts /\ \E t \in Todo : TodosReopen(t)
     \/ "decide" \in Acts
        /\ \E t \in Todo, decision \in {"approved", "rejected"} : PlanDecide(t, decision)
     \/ "quota" \in Acts /\ (Operate \/ NewDay)

TurnsInit ==
  /\ Init
  /\ turn = [p \in Process |-> Rest]
  /\ crashes = 0

Pick(p)  == Poll(p) \/ TakeClaim(p) \/ StartRunning(p)
Think(p) ==
  \/ StartVerifying(p) \/ RenewOnce(p) \/ NoPlanner(p) \/ Gate(p) \/ NoAnswer(p)
  \/ \E plan \in Plans : ReceivePlan(p, plan)
  \/ CreatePlanned(p) \/ EndPlan(p)
  \/ (\E diff \in Diffs : ReceiveDiff(p, diff)) \/ ChangePlan(p)
Writeback(p) == ReadWriteback(p) \/ MarkWriteback(p) \/ GateWriteback(p) \/ GiveUp(p)

Advance(p) == Pick(p) \/ Think(p) \/ Writeback(p) \/ Write(p)

TurnsNext ==
  \/ \E p \in Process : Advance(p) \/ Heartbeat(p) \/ Crash(p) \/ Restart(p)
  \/ \E t \in Todo : Lapse(t)
  \/ User

TurnsSpec == TurnsInit /\ [][TurnsNext]_turnVars

(* A process that runs goes on, and time passes.  Nothing is assumed of    *)
(* the user, of host sessions and of restarts.                             *)
Fairness ==
  /\ \A p \in Loop : WF_turnVars(Advance(p))
  /\ \A t \in Todo : WF_turnVars(Lapse(t))

FairSpec == TurnsSpec /\ Fairness

-----------------------------------------------------------------------------
(* Properties.                                                             *)

(* Nobody works on a todo before what it depends on is done, although a    *)
(* worker claims on the strength of what it read when it picked, and plan  *)
(* changes, leases and the user act in between.                            *)
DepsRespected ==
  \A t \in Todo : todos[t].status \in InFlight =>
    \A d \in todos[t].spec.deps : d \in Todo /\ todos[d].status = "done"

(* A worker whose leases do not lapse under it owns its todo until it has  *)
(* written it back: neither the user, nor plan changes and write-backs of  *)
(* others take it away.  Not in step mode: a proposal gives the todo away  *)
(* before its write-back, which may then hit the claim of another.         *)
TurnIsOwn ==
  ~Slow /\ "step" \notin Modes =>
    \A p \in Loop :
      turn[p].pc \notin {"idle", "picked", "dead"}
        => Mine(p).claimedBy = Identity[p] /\ Mine(p).status \in InFlight

(* The quota is read when a todo is listed and charged when it is done;    *)
(* the todos in flight count for nothing.  All the same, while a limit     *)
(* stays, what is used with what is still to be charged grows beyond it    *)
(* only by what the other processes have picked before.                    *)
Charging(key) ==
  {p \in Process : turn[p].pc \notin {"idle", "dead"} /\ QuotaKey(Mine(p).spec.role) = key}
Promised(key) == quota[key].used + Cardinality(Charging(key))
OverrunBounded ==
  [][\A key \in Key :
       quota[key].limit # 0 /\ quota'[key].limit = quota[key].limit
         => \/ Promised(key)' <= Promised(key)
            \/ Promised(key)' < quota[key].limit + Cardinality(Process)]_turnVars

(* kill-safe: as long as one worker keeps running, no todo stays in        *)
(* flight for ever, whoever holds it and whatever became of the holder.    *)
SomeoneRuns == \E p \in Loop : <>[](turn[p].pc # "dead")
EveryTurnEnds ==
  SomeoneRuns => \A t \in Todo : todos[t].status \in InFlight ~> todos[t].status \notin InFlight

-----------------------------------------------------------------------------
(* Statements of the repository that the code does not keep.               *)

(* "B4: host_agent writes back only the todos it claimed"                  *)
(* (packages/contracts/identity.json).                                     *)
HostWritesOwn ==
  [][\A p \in Session, t \in Todo :
       At(p, "writing") /\ turn[p].todo = t /\ todos'[t].status # todos[t].status
         /\ turn'[p] # turn[p]
         => todos[t].claimedBy = Identity[p]]_turnVars

(* "Resident worker loop, max_rounds=0: no limit" (run_loop): a worker     *)
(* ends only when it is killed.                                            *)
Resident ==
  [][\A p \in Loop : turn'[p].pc = "dead" /\ turn[p].pc # "dead" => crashes' > crashes]_turnVars

(* "the gate failed: it becomes a rework successor, claim it again and     *)
(* repair it" (cli/main.py): work that waits for a todo goes on once its   *)
(* rework is done.                                                         *)
ReworkDone(d) == \E u \in Todo : todos[u].status = "done" /\ todos[u].lineage = todos[d].lineage
DependentsProceed ==
  SomeoneRuns =>
    \A t \in Todo :
      (/\ todos[t].status = "open"
       /\ \A d \in todos[t].spec.deps : d \in Todo /\ ReworkDone(d))
        ~> todos[t].status # "open"

=============================================================================
