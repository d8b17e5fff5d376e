-------------------------------- MODULE Kernel --------------------------------
(***************************************************************************)
(* The state kernel of the fleet (fleet/kernel/kernel.py): the tables      *)
(* goals, todos, attempts and quota of kernel.db, and the methods of class *)
(* Kernel, which are the only writers of these tables.                     *)
(*                                                                         *)
(* Here a call is one step: it reads the row, checks it and writes with no *)
(* other writer in between ("single writer").  Every call is built from a  *)
(* guard on the row it read (CanClaim, ...) and a transaction that writes  *)
(* (ClaimTx, ...); KernelCalls takes the two apart.                        *)
(***************************************************************************)
EXTENDS Integers, Sequences, FiniteSets

CONSTANTS
  Goal,          (* goal ids                                                *)
  Worker,        (* identities that claim todos: workers and host sessions  *)
  Role,          (* executor roles, the keys of the per-role quota          *)
  Root,          (* top-level directories that allowed_files may name       *)
  Specs,         (* todo contents that planners and users create            *)
  Diffs,         (* plan changes that a steer turn proposes                 *)
  Limits,        (* daily limits an operator sets; 0 means no limit         *)
  LineageLimit,  (* Kernel.lineage_limit                                    *)
  MaxTodo,       (* bound: rows of the table todos                          *)
  MaxRounds      (* bound: the attempts of a lineage are counted up to here  *)

Todo == 1..MaxTodo            \* ids, in the order of creation
Ref  == -MaxTodo..MaxTodo     \* what depends_on may hold, see Resolve
Nobody == "nobody"            \* claimed_by is ''
NoRole == "norole"           \* role is ''
Key  == Role \cup {"global"}  \* keys of the table quota

Kinds    == {"exec", "plan", "steer"}
InFlight == {"claimed", "running", "verifying"}
Settled  == {"done", "superseded"}
Waiting  == {"blocked", "needs_user"}
Statuses == {"open"} \cup InFlight \cup Settled \cup Waiting

(* The columns of a todo that say what is to be done.                      *)
Content == [kind   : Kinds,
            role   : Role \cup {NoRole},
            deps   : SUBSET Ref,
            files  : SUBSET Root,      \* _parse_roots(allowed_files)
            verify : BOOLEAN]          \* are there verify commands
Patch == [files : SUBSET Root, verify : BOOLEAN]
Diff  == [add    : Seq(Content),
          cancel : SUBSET Todo,
          modify : UNION {[D -> Patch] : D \in SUBSET Todo}]
NoPatch == [u \in {} |-> [files |-> {}, verify |-> FALSE]]
NoDiff == [add |-> <<>>, cancel |-> {}, modify |-> NoPatch]

ASSUME KernelAssumption ==
  /\ Goal # {}
  /\ Nobody \notin Worker
  /\ NoRole \notin Role /\ "global" \notin Role /\ "planner" \in Role
  /\ Specs \subseteq Content
  /\ Diffs \subseteq Diff
  /\ Limits \subseteq Nat
  /\ LineageLimit \in Nat \ {0}
  /\ MaxTodo \in Nat \ {0}
  /\ MaxRounds \in Nat /\ LineageLimit <= MaxRounds

VARIABLES
  todos,    \* the table todos; status "absent": no such row
  created,  \* number of rows ever inserted, the last id given out
  goals,    \* the table goals
  rounds,   \* rows of the table attempts per lineage, MaxRounds: or more
  quota     \* the table quota; used is today's use

vars == <<todos, created, goals, rounds, quota>>

Row == [status       : Statuses \cup {"absent"},
        goal         : Goal,
        spec         : Content,
        lineage      : Todo,
        gen          : Nat,                          \* length of the successor_of chain
        claimedBy    : Worker \cup {Nobody},
        lease        : {"none", "live", "expired"},  \* claim_expires_at: 0, ahead, past
        openAttempts : 0..2,                         \* attempts with ended_at IS NULL, 2: or more
        decision     : {"none", "pending", "approved", "rejected"},
        diff         : Diff]                         \* the plan change kept in packet

-----------------------------------------------------------------------------
(* Reading the tables.  A name with an underscore is a mistake the code    *)
(* could have made at this place; nothing but the sensitivity checks of    *)
(* the properties uses it.                                                 *)

Present(t) == todos[t].status # "absent"
Live(r) == r.status \notin Settled \cup {"absent"}
Unfinished(ts, g) == {t \in Todo : Live(ts[t]) /\ ts[t].goal = g}
DoneIn(ts, g)     == {t \in Todo : ts[t].status = "done" /\ ts[t].goal = g}

DepsDone_Settled(ts, spec) == \A d \in spec.deps : d \in Todo /\ ts[d].status \in Settled
DepsDone(ts, spec)         == \A d \in spec.deps : d \in Todo /\ ts[d].status = "done"

QuotaKey(role) == IF role = NoRole THEN "global" ELSE role
QuotaLeft(key) == quota[key].limit = 0 \/ quota[key].used < quota[key].limit

BusyRoots(ts) == UNION {ts[t].spec.files : t \in {u \in Todo : ts[u].status \in InFlight}}

Claimable_RoleUnlimited(ts) ==
  {t \in Todo : /\ ts[t].status = "open"
                /\ DepsDone(ts, ts[t].spec)
                /\ ts[t].spec.files \cap BusyRoots(ts) = {}
                /\ QuotaLeft("global")}

(* What claimable() returns once the expired leases are taken back.        *)
Claimable(ts) ==
  {t \in Todo : /\ ts[t].status = "open"
                /\ DepsDone(ts, ts[t].spec)
                /\ ts[t].spec.files \cap BusyRoots(ts) = {}
                /\ QuotaLeft("global")
                /\ ts[t].spec.role # NoRole => QuotaLeft(ts[t].spec.role)}

-----------------------------------------------------------------------------
(* What each call requires of the row it read.                             *)

CanClaim_Unchecked(r) == r.status \in {"open"} \cup InFlight
CanClaim(r)     == r.status = "open"
CanRenew(r, w)  == r.claimedBy = w /\ r.status \in InFlight
CanRun(r, w)    == r.status = "claimed" /\ r.claimedBy = w
CanVerify(r, w) == r.status = "running" /\ r.claimedBy = w
CanWriteBack_Open(r) == r.status \in {"open"} \cup InFlight
CanWriteBack(r) == r.status \in InFlight
CanFinish(r, evidence) ==
  /\ r.status = "verifying"
  /\ r.spec.kind = "exec" /\ ~r.spec.verify => evidence
CanReopen_Superseded(r) == r.status \in Waiting \cup {"superseded"}
CanReopen(r)    == r.status \in Waiting
CanDecide(r)    == /\ r.decision \in {"none", "pending"}
                   /\ r.status \in InFlight \cup {"needs_user"}

(* The UPDATE each call issues.                                            *)
NewRow(g, spec, lineage, gen) ==
  [status |-> "open", goal |-> g, spec |-> spec, lineage |-> lineage, gen |-> gen,
   claimedBy |-> Nobody, lease |-> "none", openAttempts |-> 0,
   decision |-> "none", diff |-> NoDiff]

Claimed(r, w)   == [r EXCEPT !.status = "claimed", !.claimedBy = w, !.lease = "live",
                             !.openAttempts = IF @ = 0 THEN 1 ELSE 2]
Requeued_OpenAttempt(r) == [r EXCEPT !.status = "open", !.claimedBy = Nobody, !.lease = "none"]
Requeued(r)     == [r EXCEPT !.status = "open", !.claimedBy = Nobody, !.lease = "none",
                             !.openAttempts = 0]
Ended(r, s)     == [r EXCEPT !.status = s, !.lease = "none", !.openAttempts = 0]
Reopened(r)     == [r EXCEPT !.status = "open", !.claimedBy = Nobody, !.lease = "none"]
Proposed(r, d)  == [r EXCEPT !.status = "needs_user", !.decision = "pending", !.diff = d,
                             !.lease = "none", !.openAttempts = 0]
Closed(r)       == [r EXCEPT !.status = "superseded", !.lease = "none"]

Update(t, row) == todos' = [todos EXCEPT ![t] = row]

-----------------------------------------------------------------------------
(* Goals and new todos.                                                    *)

PlanSpec == [kind |-> "plan", role |-> "planner", deps |-> {}, files |-> {}, verify |-> FALSE]

Insert_LastId(g, spec) ==
  /\ created < MaxTodo
  /\ created' = created + 1
  /\ Update(MaxTodo, NewRow(g, spec, MaxTodo, 1))
Insert(g, spec) ==
  /\ created < MaxTodo
  /\ created' = created + 1
  /\ Update(created + 1, NewRow(g, spec, created + 1, 1))

(* create_goal and create_goal_draft: a goal without a todo.               *)
CreateGoal(g, frozen) ==
  /\ goals[g].status = "absent"
  /\ goals' = [goals EXCEPT ![g] = [status |-> "active", frozen |-> frozen]]
  /\ UNCHANGED <<todos, created, rounds, quota>>

(* The goal and its plan todo in one transaction.                          *)
CreateGoalWithPlan(g) ==
  /\ goals[g].status = "absent"
  /\ goals' = [goals EXCEPT ![g] = [status |-> "active", frozen |-> TRUE]]
  /\ Insert(g, PlanSpec)
  /\ UNCHANGED <<rounds, quota>>

(* The requirements are locked and the plan todo is created.               *)
CanFreeze(goal) == goal.status # "absent" /\ ~goal.frozen

FreezeTx(g) ==
  /\ goals' = [goals EXCEPT ![g].frozen = TRUE]
  /\ Insert(g, PlanSpec)
  /\ UNCHANGED <<rounds, quota>>

FreezeGoal(g) == CanFreeze(goals[g]) /\ FreezeTx(g)

CreateTodo(g, spec) ==
  /\ goals[g].status # "absent"
  /\ Insert(g, spec)
  /\ UNCHANGED <<goals, rounds, quota>>

-----------------------------------------------------------------------------
(* Claims and leases.                                                      *)

ClaimTx(t, w) ==
  /\ Update(t, Claimed(todos[t], w))
  /\ rounds' = [rounds EXCEPT ![todos[t].lineage] = IF @ < MaxRounds THEN @ + 1 ELSE @]
  /\ UNCHANGED <<created, goals, quota>>

RenewTx(t) ==
  /\ Update(t, [todos[t] EXCEPT !.lease = "live"])
  /\ UNCHANGED <<created, goals, rounds, quota>>

(* The clock passes claim_expires_at.                                      *)
LapseLease(t) ==
  /\ todos[t].lease = "live"
  /\ Update(t, [todos[t] EXCEPT !.lease = "expired"])
  /\ UNCHANGED <<created, goals, rounds, quota>>

IsExpired_Claimed(r) == r.status = "claimed" /\ r.lease = "expired"
IsExpired(r)         == r.status \in InFlight /\ r.lease = "expired"
Expired(ts) == {t \in Todo : IsExpired(ts[t])}
TakenBack(ts, expired) == [t \in Todo |-> IF t \in expired THEN Requeued(ts[t]) ELSE ts[t]]

RequeueTx(expired) ==
  /\ todos' = TakenBack(todos, expired)
  /\ UNCHANGED <<created, goals, rounds, quota>>

MarkTx(t, status) ==
  /\ Update(t, [todos[t] EXCEPT !.status = status])
  /\ UNCHANGED <<created, goals, rounds, quota>>

Claim(t, w)          == CanClaim(todos[t]) /\ ClaimTx(t, w)
RenewLease(t, w)     == CanRenew(todos[t], w) /\ RenewTx(t)
MarkRunning(t, w)    == CanRun(todos[t], w) /\ MarkTx(t, "running")
MarkVerifying(t, w)  == CanVerify(todos[t], w) /\ MarkTx(t, "verifying")
RequeueExpiredLeases == Expired(todos) # {} /\ RequeueTx(Expired(todos))

-----------------------------------------------------------------------------
(* transition(todo, TurnResult): one action per verdict.                   *)

Charge_Global(role) == quota' = [quota EXCEPT !["global"].used = @ + 1]
Charge(role) == quota' = [quota EXCEPT ![QuotaKey(role)].used = @ + 1]

DoneTx(t) ==
  LET r == todos[t] IN
  /\ Update(t, Ended(r, "done"))
  /\ Charge(r.spec.role)
  /\ goals' = [goals EXCEPT ![r.goal].status =
                 IF Unfinished(todos', r.goal) = {} THEN "done" ELSE @]
  /\ UNCHANGED <<created, rounds>>

(* The lineage has had all the attempts it may have.                       *)
Exhausted_OffByOne(r) == rounds[r.lineage] > LineageLimit
Exhausted(r)          == rounds[r.lineage] >= LineageLimit

(* The rework todo has the content the caller passes or else inherits;     *)
(* no caller passes depends_on.  A plan change in the packet is kept.      *)
Rework(spec) == [spec EXCEPT !.deps = {}]

SuccessorTx(t, spec) ==
  LET r == todos[t] IN
  /\ created < MaxTodo
  /\ created' = created + 1
  /\ todos' = [todos EXCEPT
                 ![t] = Ended(r, "superseded"),
                 ![created + 1] = [NewRow(r.goal, Rework(spec), r.lineage, r.gen + 1)
                                     EXCEPT !.diff = r.diff]]
  /\ UNCHANGED <<goals, rounds, quota>>

WaitTx(t, verdict) ==
  /\ Update(t, Ended(todos[t], verdict))
  /\ UNCHANGED <<created, goals, rounds, quota>>

WriteDone(t, evidence) == CanFinish(todos[t], evidence) /\ DoneTx(t)
WriteSuccessor(t, spec) ==
  /\ CanWriteBack(todos[t])
  /\ IF Exhausted(todos[t]) THEN WaitTx(t, "needs_user") ELSE SuccessorTx(t, spec)
WriteWaiting(t, verdict) == CanWriteBack(todos[t]) /\ WaitTx(t, verdict)

(* The user puts a blocked or waiting todo back.                           *)
ReopenTx(t) ==
  /\ Update(t, Reopened(todos[t]))
  /\ UNCHANGED <<created, goals, rounds, quota>>
Reopen(t) == CanReopen(todos[t]) /\ ReopenTx(t)

-----------------------------------------------------------------------------
(* Plan changes.                                                           *)

ProposeTx(t, diff) ==
  /\ Update(t, Proposed(todos[t], diff))
  /\ UNCHANGED <<created, goals, rounds, quota>>
ProposePlanDiff(t, diff) == CanWriteBack(todos[t]) /\ ProposeTx(t, diff)

(* A todo the diff may cancel or modify: same goal, not the steer todo     *)
(* itself, neither settled nor in flight.                                  *)
Touchable_Settled(ts, u, t) == ts[u].status # "absent" /\ ts[u].goal = ts[t].goal /\ u # t
Touchable(ts, u, t) ==
  /\ ts[u].status \in {"open"} \cup Waiting
  /\ ts[u].goal = ts[t].goal
  /\ u # t

(* add refers to itself by local number: -n is the n-th added todo.        *)
Resolve(diff, deps) ==
  {IF -d \in 1..Len(diff.add) THEN created - d ELSE d : d \in deps}

Added(diff, goal, n) ==
  NewRow(goal, [diff.add[n] EXCEPT !.kind = "exec", !.deps = Resolve(diff, @)], created + n, 1)

Changed(diff, ts, u, t) ==
  IF ~Touchable(ts, u, t) THEN ts[u]
  ELSE IF u \in diff.cancel THEN [ts[u] EXCEPT !.status = "superseded"]
  ELSE IF u \in DOMAIN diff.modify
       THEN [ts[u] EXCEPT !.spec.files = diff.modify[u].files,
                          !.spec.verify = diff.modify[u].verify]
  ELSE ts[u]

Approved(diff, t) ==
  [u \in Todo |-> IF u \in (created + 1)..(created + Len(diff.add))
                  THEN Added(diff, todos[t].goal, u - created)
                  ELSE Changed(diff, todos, u, t)]

(* The closing of a plan change may have been the goal's last open todo.   *)
AllSettled_Never(ts, g) == FALSE
AllSettled(ts, g)       == Unfinished(ts, g) = {} /\ DoneIn(ts, g) # {}

(* The decision on a plan change.  A todo in flight (auto mode) keeps its  *)
(* status, the worker writes done; otherwise the decision closes it.       *)
DecideTx(t, decision, diff, auto) ==
  LET r  == todos[t]
      ts == IF decision = "approved" THEN Approved(diff, t) ELSE todos
      d  == [r EXCEPT !.decision = decision]
  IN
  /\ created' = IF decision = "approved" THEN created + Len(diff.add) ELSE created
  /\ created' <= MaxTodo
  /\ todos' = [ts EXCEPT ![t] = IF auto THEN d ELSE Closed(d)]
  /\ goals' = [goals EXCEPT ![r.goal].status =
                 IF ~auto /\ AllSettled(todos', r.goal) THEN "done" ELSE @]
  /\ UNCHANGED <<rounds, quota>>

ApplyPlanDiff(t, decision, diff) ==
  CanDecide(todos[t]) /\ DecideTx(t, decision, diff, todos[t].status # "needs_user")

-----------------------------------------------------------------------------
(* Quota.                                                                  *)

SetQuota(key, limit) ==
  /\ quota' = [quota EXCEPT ![key].limit = limit]
  /\ UNCHANGED <<todos, created, goals, rounds>>

(* Midnight: a row of an earlier day counts as unused.                     *)
NewDay ==
  /\ quota' = [k \in Key |-> [quota[k] EXCEPT !.used = 0]]
  /\ UNCHANGED <<todos, created, goals, rounds>>

-----------------------------------------------------------------------------
Init ==
  /\ todos = [t \in Todo |-> [NewRow(CHOOSE g \in Goal : TRUE, PlanSpec, t, 1)
                                EXCEPT !.status = "absent"]]
  /\ created = 0
  /\ goals = [g \in Goal |-> [status |-> "absent", frozen |-> FALSE]]
  /\ rounds = [t \in Todo |-> 0]
  /\ quota = [k \in Key |-> [used |-> 0, limit |-> 0]]

GoalStep(g) ==
  \/ \E frozen \in BOOLEAN : CreateGoal(g, frozen)
  \/ CreateGoalWithPlan(g)
  \/ FreezeGoal(g)
  \/ \E spec \in Specs : CreateTodo(g, spec)

HolderStep(t, w) == Claim(t, w) \/ RenewLease(t, w) \/ MarkRunning(t, w) \/ MarkVerifying(t, w)

WriteBack(t) ==
  \/ \E evidence \in BOOLEAN : WriteDone(t, evidence)
  \/ WriteSuccessor(t, todos[t].spec)
  \/ \E verdict \in Waiting : WriteWaiting(t, verdict)

(* A steer turn proposes its diff or, in auto mode, applies it at once; the *)
(* console decides on the diff kept in the packet, of any todo.            *)
PlanChange(t) ==
  \/ /\ todos[t].spec.kind = "steer"
     /\ \E diff \in Diffs : ProposePlanDiff(t, diff) \/ ApplyPlanDiff(t, "approved", diff)
  \/ \E decision \in {"approved", "rejected"} : ApplyPlanDiff(t, decision, todos[t].diff)

Next ==
  \/ \E g \in Goal : GoalStep(g)
  \/ \E t \in Todo, w \in Worker : HolderStep(t, w)
  \/ \E t \in Todo : LapseLease(t) \/ WriteBack(t) \/ Reopen(t) \/ PlanChange(t)
  \/ RequeueExpiredLeases
  \/ \E key \in Key, limit \in Limits : SetQuota(key, limit)
  \/ NewDay

Spec == Init /\ [][Next]_vars

-----------------------------------------------------------------------------
(* Properties.                                                             *)

(* The tables hold what their columns declare, ids are given out in order. *)
TypeOK ==
  /\ todos \in [Todo -> Row]
  /\ created \in 0..MaxTodo
  /\ \A t \in Todo : Present(t) <=> t <= created
  /\ goals \in [Goal -> [status : {"absent", "active", "done"}, frozen : BOOLEAN]]
  /\ rounds \in [Todo -> Nat]
  /\ quota \in [Key -> [used : Nat, limit : Nat]]

(* One claim at a time: a todo in flight has one holder, one lease and one *)
(* open attempt, and a todo that is not in flight has no lease ("0: not    *)
(* claimed", packages/contracts/schemas/todo.json) and no attempt that     *)
(* still counts as running, whichever of the seven exits it took.          *)
ClaimOK(r) ==
  /\ r.status \in InFlight => /\ r.claimedBy # Nobody /\ r.lease # "none"
                              /\ r.openAttempts = 1
  /\ r.status \notin InFlight => r.lease = "none" /\ r.openAttempts = 0
  /\ r.status = "open" => r.claimedBy = Nobody
ClaimConsistent == \A t \in Todo : ClaimOK(todos[t])

(* A lineage is one chain of reworks: no two of its todos have the same    *)
(* place in it and only the newest can still be worked on.                 *)
LineageIsChain ==
  \A t, u \in Todo :
    Present(t) /\ Present(u) /\ t # u /\ todos[t].lineage = todos[u].lineage
      => /\ todos[t].gen # todos[u].gen
         /\ Live(todos[t]) => todos[u].gen < todos[t].gen

(* Rework ends: whatever reopenings and lost leases come between, a        *)
(* lineage never has more todos than lineage_limit; the next request for   *)
(* rework becomes needs_user.                                              *)
LineageBounded ==
  \A t \in Todo : Present(t) => todos[t].gen <= LineageLimit

(* Why rework ends: each todo of a lineage but the newest has cost it at   *)
(* least one attempt, and the newest one too once somebody holds it.       *)
LineagePaid ==
  \A t \in Todo :
    LET r == todos[t] IN
    Present(t) => /\ r.lineage <= created /\ r.gen >= 1
                  /\ r.gen <= rounds[r.lineage] + 1
                  /\ r.status \in InFlight => r.gen <= rounds[r.lineage]

(* goal:done is never missed: a goal whose todos are all settled, one of   *)
(* them done, is done, whether the last one was written back, cancelled by *)
(* a plan change or closed by the user's decision.                         *)
GoalCloses ==
  \A g \in Goal :
    goals[g].status = "active" /\ DoneIn(todos, g) # {} => Unfinished(todos, g) # {}

(* A settled todo is never worked on again, taken back or settled anew.    *)
SettledFinal ==
  [][\A t \in Todo : todos[t].status \in Settled => todos'[t].status = todos[t].status]_vars

(* Only verified work is charged, once and to its role: the use of a key   *)
(* grows by the todos of that key that this step finishes.                 *)
NewlyDone(key) ==
  {t \in Todo : /\ todos[t].status # "done" /\ todos'[t].status = "done"
                /\ QuotaKey(todos'[t].spec.role) = key}
ChargedOnce ==
  [][\A key \in Key :
       \/ quota'[key].used = quota[key].used + Cardinality(NewlyDone(key))
       \/ quota'[key].used = 0 /\ NewlyDone(key) = {}]_vars

(* A holder loses its todo only when the todo leaves flight: nobody takes  *)
(* a claim over from somebody else.                                        *)
NoTakeover ==
  [][\A t \in Todo :
       todos[t].status \in InFlight /\ todos'[t].status \in InFlight
         => todos'[t].claimedBy = todos[t].claimedBy]_vars

=============================================================================
