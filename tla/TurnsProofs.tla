----------------------------- MODULE TurnsProofs -----------------------------
(***************************************************************************)
(* Proofs about Turns for any number of workers, host sessions, todos and  *)
(* crashes: the processes change the tables through the calls of the       *)
(* kernel alone, so that what is proved of Kernel holds here; nobody works *)
(* on a todo before what it depends on is done; and a worker whose leases  *)
(* do not lapse under it owns its todo until it has written it back.       *)
(***************************************************************************)
EXTENDS Turns, KernelProofs

USE KernelAssumption, TurnsAssumption
    DEF Process, Todo, Key, Nobody, NoRole, Kinds, InFlight, Settled, Waiting, Statuses

-----------------------------------------------------------------------------
(* What a process remembers.                                               *)

Pcs == {"idle", "picked", "claimed", "working", "checking", "renewing",
        "planning", "changing", "marking", "writing", "dead"}
Outs == Statuses \cup {"none", "absent", "successor", "retry"}
Turn == [pc : Pcs, todo : 0..MaxTodo, spec : Content, out : Outs,
         plan : Seq(Content), made : Seq(Todo), diff : Diff]

Off == {"idle", "picked", "dead"}
Busy(r) == r.pc \notin {"idle", "dead"} => r.todo \in Todo
Good(r) == r \in Turn /\ Busy(r)
TurnTyped == turn \in [Process -> Turn] /\ \A p \in Process : Busy(turn[p])
Holds(p) == turn[p].pc \notin Off

(* A todo in flight under a lease stays with its holder in this step.      *)
Held(r) == r.status \in InFlight /\ r.lease = "live"
Kept(u) == Held(todos[u]) => Held(todos'[u]) /\ todos'[u].claimedBy = todos[u].claimedBy

(* What every step of a process but its picking and its claim does: it     *)
(* calls the kernel, goes on with the todo it has or lets it go, and,      *)
(* unless it lets it go or proposes a change, its todo stays its own.      *)
Onward(p, s) ==
  /\ Good(s) /\ s.pc # "picked"
  /\ s.pc \in Off \/ (Holds(p) /\ s.todo = turn[p].todo)
  /\ turn' = [turn EXCEPT ![p] = s]
  /\ "step" \notin Modes =>
       \A u \in Todo : Kept(u) \/ (Holds(p) /\ u = turn[p].todo /\ s.pc \in Off)
Proceeds(p) == [OtherCall]_vars /\ \E s : Onward(p, s)

LEMMA RestType == Good(Rest) /\ Good([Rest EXCEPT !.pc = "dead"])
<1>1. <<>> \in Seq(Content) /\ <<>> \in Seq(Todo)
  BY EmptySeq
<1>2. Rest \in Turn
  BY <1>1, NoDiffType, PlanSpecType DEF Rest, Turn, Pcs, Outs
<1>3. [Rest EXCEPT !.pc = "dead"] \in Turn
  BY <1>2, Zenon DEF Turn, Pcs
<1>4. Rest.pc = "idle" /\ [Rest EXCEPT !.pc = "dead"].pc = "dead"
  BY DEF Rest
<1> QED
  BY <1>2, <1>3, <1>4 DEF Good, Busy

(* The ways a turn goes on with its todo.                                  *)
Follows(s, r, pc) == s \in Turn /\ s.pc = pc /\ s.todo = r.todo

LEMMA GoTypes ==
  ASSUME NEW r \in Turn, r.todo \in Todo
  PROVE  /\ \A pc \in Pcs : Follows([r EXCEPT !.pc = pc], r, pc)
         /\ \A out \in Outs : Follows([r EXCEPT !.out = out], r, r.pc)
         /\ \A pc \in Pcs, out \in Outs : Follows([r EXCEPT !.pc = pc, !.out = out], r, pc)
         /\ \A pc \in Pcs, spec \in Content, out \in Outs :
              Follows([r EXCEPT !.pc = pc, !.spec = spec, !.out = out], r, pc)
         /\ \A pc \in Pcs, plan \in Seq(Content) :
              Follows([r EXCEPT !.pc = pc, !.plan = plan], r, pc)
         /\ \A plan \in Seq(Content), made \in Seq(Todo) :
              Follows([r EXCEPT !.plan = plan, !.made = made], r, r.pc)
         /\ \A pc \in Pcs, diff \in Diff : Follows([r EXCEPT !.pc = pc, !.diff = diff], r, pc)
<1>1. \A pc \in Pcs : Follows([r EXCEPT !.pc = pc], r, pc)
  BY Zenon DEF Turn, Follows
<1>2. \A out \in Outs : Follows([r EXCEPT !.out = out], r, r.pc)
  BY Zenon DEF Turn, Follows
<1>3. \A pc \in Pcs, out \in Outs : Follows([r EXCEPT !.pc = pc, !.out = out], r, pc)
  BY Zenon DEF Turn, Follows
<1>4. \A pc \in Pcs, spec \in Content, out \in Outs :
        Follows([r EXCEPT !.pc = pc, !.spec = spec, !.out = out], r, pc)
  BY Zenon DEF Turn, Follows
<1>5. \A pc \in Pcs, plan \in Seq(Content) : Follows([r EXCEPT !.pc = pc, !.plan = plan], r, pc)
  BY Zenon DEF Turn, Follows
<1>6. \A plan \in Seq(Content), made \in Seq(Todo) :
        Follows([r EXCEPT !.plan = plan, !.made = made], r, r.pc)
  BY Zenon DEF Turn, Follows
<1>7. \A pc \in Pcs, diff \in Diff : Follows([r EXCEPT !.pc = pc, !.diff = diff], r, pc)
  BY Zenon DEF Turn, Follows
<1> QED
  BY <1>1, <1>2, <1>3, <1>4, <1>5, <1>6, <1>7

-----------------------------------------------------------------------------
(* What the calls leave to the holders of other todos.                     *)

LEMMA UpdateKept ==
  ASSUME TypeInv, NEW t \in Todo, NEW row, Update(t, row)
  PROVE  \A u \in Todo : u # t => Kept(u)
BY DEF TypeInv, TypeOK, Update, Kept

LEMMA SameKept ==
  ASSUME todos' = todos
  PROVE  \A u \in Todo : Kept(u)
BY DEF Kept

LEMMA InsertKept ==
  ASSUME TypeInv, NEW g \in Goal, NEW spec \in Content, Insert(g, spec)
  PROVE  \A u \in Todo : Kept(u)
BY DEF TypeInv, TypeOK, Insert, Update, Kept, Held, Present

(* Renewing and marking leave a todo with its holder.                      *)
LEMMA MarkKept ==
  ASSUME TypeInv, NEW t \in Todo,
         \/ Update(t, [todos[t] EXCEPT !.lease = "live"])
         \/ \E s \in {"running", "verifying"} : Update(t, [todos[t] EXCEPT !.status = s])
  PROVE  \A u \in Todo : Kept(u)
<1>1. todos[t] \in Row
  BY DEF TypeInv, TypeOK
<1>2. PICK row : Update(t, row) /\ (Held(todos[t]) => Held(row) /\ row.claimedBy = todos[t].claimedBy)
  <2> DEFINE r == todos[t]
  <2>1. r \in Row
    BY <1>1
  <2>2. Update(t, [r EXCEPT !.lease = "live"])
          \/ \E s \in {"running", "verifying"} : Update(t, [r EXCEPT !.status = s])
    OBVIOUS
  <2> HIDE DEF r
  <2>3. Held(r) => Held([r EXCEPT !.lease = "live"]) /\ [r EXCEPT !.lease = "live"].claimedBy = r.claimedBy
    BY <2>1, Zenon DEF Row, Held
  <2>4. \A s \in {"running", "verifying"} :
          Held(r) => Held([r EXCEPT !.status = s]) /\ [r EXCEPT !.status = s].claimedBy = r.claimedBy
    BY <2>1, Zenon DEF Row, Held
  <2> QED
    BY <2>2, <2>3, <2>4 DEF r
<1>3. todos'[t] = row
  BY <1>2 DEF TypeInv, TypeOK, Update
<1> QED
  BY <1>2, <1>3, UpdateKept DEF Kept

LEMMA SuccessorKept ==
  ASSUME TypeInv, NEW t \in Todo, NEW spec \in Content, CanWriteBack(todos[t]),
         SuccessorTx(t, spec)
  PROVE  \A u \in Todo : u # t => Kept(u)
BY SuccessorEffect DEF Kept, Held, Present

LEMMA RequeueKept ==
  ASSUME TypeInv, RequeueTx(Expired(todos))
  PROVE  \A u \in Todo : Kept(u)
BY DEF RequeueTx, TakenBack, Expired, IsExpired, Kept, Held

(* A plan change touches no todo in flight, and an approved one of a todo  *)
(* in flight leaves that in flight.                                        *)
LEMMA DecideKept ==
  ASSUME TypeInv, NEW t \in Todo, NEW decision \in {"approved", "rejected"},
         NEW diff \in Diff, ApplyPlanDiff(t, decision, diff)
  PROVE  \A u \in Todo : Kept(u)
<1> DEFINE r   == todos[t]
           d   == [r EXCEPT !.decision = decision]
           new == IF r.status # "needs_user" THEN d ELSE Closed(d)
           ts  == IF decision = "approved" THEN Approved(diff, t) ELSE todos
<1>1. r \in Row
  BY DEF TypeInv, TypeOK
<1>2. Held(r) => Held(new) /\ new.claimedBy = r.claimedBy
  <2> HIDE DEF r
  <2>1. Held(r) => r.status # "needs_user"
    BY DEF Held
  <2>2. Held(r) => Held(d) /\ d.claimedBy = r.claimedBy
    BY <1>1, Zenon DEF Row, Held
  <2> QED
    BY <2>1, <2>2
<1>3. todos'[t] = new /\ \A u \in Todo \ {t} : todos'[u] = ts[u]
  BY DEF ApplyPlanDiff, DecideTx, Approved, TypeInv, TypeOK
<1>4. ASSUME NEW u \in Todo, u # t, Held(todos[u])
      PROVE  todos'[u] = todos[u]
  <2>1. u \notin (created + 1)..(created + Len(diff.add))
    BY <1>4 DEF TypeInv, TypeOK, Held, Present
  <2>2. ~Touchable(todos, u, t)
    BY <1>4 DEF Touchable, Held
  <2>3. todos'[u] = ts[u]
    BY <1>3, <1>4
  <2> QED
    BY <2>1, <2>2, <2>3 DEF Approved, Changed
<1> HIDE DEF new, ts
<1> QED
  BY <1>2, <1>3, <1>4 DEF Kept

-----------------------------------------------------------------------------
(* The steps of a process that has a todo.                                 *)

LEMMA TurnIsGood ==
  ASSUME TurnTyped, NEW p \in Process
  PROVE  /\ turn[p] \in Turn /\ Good(turn[p]) /\ Identity[p] \in Worker
         /\ Holds(p) => turn[p].todo \in Todo /\ turn[p].pc \notin {"idle", "dead"}
BY DEF TurnTyped, Good, Busy, Holds, Off

(* It goes on with it ...                                                  *)
LEMMA GoesOn ==
  ASSUME TurnTyped, NEW p \in Process, Holds(p), [OtherCall]_vars,
         "step" \notin Modes => \A u \in Todo : Kept(u),
         NEW s, Good(s), s.todo = turn[p].todo, s.pc # "picked", Become(p, s)
  PROVE  Proceeds(p)
BY DEF Proceeds, Onward, Become

LEMMA Goes ==
  ASSUME TurnTyped, NEW p \in Process, Holds(p), [OtherCall]_vars,
         "step" \notin Modes => \A u \in Todo : Kept(u),
         \/ \E pc \in Pcs \ {"picked"} : Go(p, pc)
         \/ \E out \in Outs : Decide(p, out)
  PROVE  Proceeds(p)
<1> DEFINE r == turn[p]
<1>1. r \in Turn /\ r.todo \in Todo
  BY TurnIsGood DEF Good
<1>2. \E s, pc : Follows(s, r, pc) /\ pc # "picked" /\ Become(p, s)
  <2>1. ASSUME NEW pc \in Pcs \ {"picked"}, Go(p, pc)
        PROVE  Follows([r EXCEPT !.pc = pc], r, pc) /\ Become(p, [r EXCEPT !.pc = pc])
    BY <1>1, <2>1, GoTypes DEF Go
  <2>2. ASSUME NEW out \in Outs, Decide(p, out)
        PROVE  /\ Follows([r EXCEPT !.pc = "writing", !.out = out], r, "writing")
               /\ Become(p, [r EXCEPT !.pc = "writing", !.out = out])
    <3>1. "writing" \in Pcs
      BY DEF Pcs
    <3> QED
      BY <1>1, <2>2, <3>1, GoTypes DEF Decide
  <2> QED
    BY <2>1, <2>2
<1> QED
  BY <1>1, <1>2, GoesOn DEF Follows, Good, Busy

(* ... or lets it go.                                                      *)
LEMMA LetsGo ==
  ASSUME TurnTyped, NEW p \in Process, [OtherCall]_vars,
         "step" \notin Modes => \A u \in Todo : Kept(u) \/ (Holds(p) /\ u = turn[p].todo),
         \/ turn' = [turn EXCEPT ![p] = Rest]
         \/ turn' = [turn EXCEPT ![p] = [Rest EXCEPT !.pc = "dead"]]
  PROVE  Proceeds(p)
<1>1. Rest.pc = "idle" /\ [Rest EXCEPT !.pc = "dead"].pc = "dead"
  BY DEF Rest
<1>2. PICK s : /\ Good(s) /\ s.pc \in {"idle", "dead"}
               /\ turn' = [turn EXCEPT ![p] = s]
  BY <1>1, RestType
<1> QED
  BY <1>2 DEF Proceeds, Onward, Off

LEMMA FailGoes ==
  ASSUME TurnTyped, NEW p \in Process, turn[p].pc \notin {"idle", "dead"},
         UNCHANGED vars, Fail(p)
  PROVE  Proceeds(p)
<1>1. todos' = todos /\ [OtherCall]_vars /\ \A u \in Todo : Kept(u)
  BY SameKept DEF vars
<1>2. CASE p \in Loop
  BY <1>1, <1>2, LetsGo DEF Fail, Become
<1>3. CASE p \notin Loop /\ turn[p].pc \in {"picked", "claimed"}
  BY <1>1, <1>3, LetsGo DEF Fail, Become
<1>4. CASE p \notin Loop /\ turn[p].pc \notin {"picked", "claimed"}
  <2>1. Go(p, "working") /\ Holds(p) /\ "working" \in Pcs \ {"picked"}
    BY <1>4 DEF Fail, Holds, Off, Pcs
  <2> QED
    BY <1>1, <2>1, Goes
<1> QED
  BY <1>2, <1>3, <1>4

(* The marks and the renewals.                                             *)
LEMMA MarkCalls ==
  ASSUME TypeInv, NEW t \in Todo, NEW w \in Worker,
         \/ CanRenew(todos[t], w) /\ RenewTx(t)
         \/ CanRun(todos[t], w) /\ MarkTx(t, "running")
         \/ CanVerify(todos[t], w) /\ MarkTx(t, "verifying")
  PROVE  OtherCall /\ \A u \in Todo : Kept(u)
<1>1. \A u \in Todo : Kept(u)
  BY MarkKept DEF RenewTx, MarkTx
<1>2. RenewLease(t, w) \/ MarkRunning(t, w) \/ MarkVerifying(t, w)
  BY DEF RenewLease, MarkRunning, MarkVerifying
<1> QED
  BY <1>1, <1>2 DEF OtherCall

LEMMA StartRunningStep ==
  ASSUME TypeInv, TurnTyped, NEW p \in Process, StartRunning(p)
  PROVE  Proceeds(p)
<1>1. Holds(p) /\ turn[p].pc \notin {"idle", "dead"}
  BY DEF StartRunning, At, Holds, Off
<1>2. turn[p].todo \in Todo /\ Identity[p] \in Worker
  BY <1>1, TurnIsGood
<1>3. CASE CanRun(Mine(p), Identity[p]) /\ MarkTx(turn[p].todo, "running") /\ Go(p, "working")
  <2>1. OtherCall /\ \A u \in Todo : Kept(u)
    BY <1>2, <1>3, MarkCalls DEF Mine
  <2>2. "working" \in Pcs \ {"picked"}
    BY DEF Pcs
  <2> QED
    BY <1>1, <1>3, <2>1, <2>2, Goes
<1>4. CASE UNCHANGED vars /\ Fail(p)
  BY <1>1, <1>4, FailGoes
<1> QED
  BY <1>3, <1>4 DEF StartRunning, Try

LEMMA HeartbeatStep ==
  ASSUME TypeInv, TurnTyped, NEW p \in Process, Heartbeat(p)
  PROVE  Proceeds(p)
<1>1. Holds(p)
  BY DEF Heartbeat, At, Holds, Off
<1>2. turn[p].todo \in Todo /\ Identity[p] \in Worker /\ Good(turn[p])
  BY <1>1, TurnIsGood
<1>3. OtherCall /\ \A u \in Todo : Kept(u)
  BY <1>2, MarkCalls DEF Heartbeat, RenewLease
<1>4. turn' = [turn EXCEPT ![p] = turn[p]] /\ turn[p].pc # "picked"
  BY DEF Heartbeat, At, TurnTyped
<1> QED
  BY <1>1, <1>2, <1>3, <1>4 DEF Proceeds, Onward

LEMMA VerifyingSteps ==
  ASSUME TypeInv, TurnTyped, NEW p \in Process, StartVerifying(p) \/ RenewOnce(p)
  PROVE  Proceeds(p)
<1>1. Holds(p) /\ turn[p].pc \notin {"idle", "dead"}
  BY DEF StartVerifying, RenewOnce, At, Holds, Off
<1>2. turn[p].todo \in Todo /\ Identity[p] \in Worker
  BY <1>1, TurnIsGood
<1>3. {"checking", "renewing"} \subseteq Pcs \ {"picked"}
  BY DEF Pcs
<1>4. CASE /\ CanVerify(Mine(p), Identity[p]) /\ MarkTx(turn[p].todo, "verifying")
           /\ Go(p, IF Kind(p) = "exec" THEN "checking" ELSE "renewing")
  <2>1. OtherCall /\ \A u \in Todo : Kept(u)
    BY <1>2, <1>4, MarkCalls DEF Mine
  <2>2. (IF Kind(p) = "exec" THEN "checking" ELSE "renewing") \in Pcs \ {"picked"}
    BY <1>3
  <2> QED
    BY <1>1, <1>4, <2>1, <2>2, Goes
<1>5. CASE CanRenew(Mine(p), Identity[p]) /\ RenewTx(turn[p].todo) /\ Go(p, "checking")
  <2>1. OtherCall /\ \A u \in Todo : Kept(u)
    BY <1>2, <1>5, MarkCalls DEF Mine
  <2> QED
    BY <1>1, <1>3, <1>5, <2>1, Goes
<1>6. CASE UNCHANGED vars /\ Go(p, "checking")
  <2>1. todos' = todos
    BY <1>6 DEF vars
  <2> QED
    BY <1>1, <1>3, <1>6, <2>1, Goes, SameKept
<1>7. CASE UNCHANGED vars /\ Fail(p)
  BY <1>1, <1>7, FailGoes
<1> QED
  BY <1>4, <1>5, <1>6, <1>7 DEF StartVerifying, RenewOnce, Try

(* A turn that changes what the process remembers and no table.            *)
LEMMA ThinksOn ==
  ASSUME TurnTyped, NEW p \in Process, Holds(p), UNCHANGED vars,
         NEW s, NEW pc, Follows(s, turn[p], pc), pc # "picked", Become(p, s)
  PROVE  Proceeds(p)
<1>1. todos' = todos
  BY DEF vars
<1>2. Good(s) /\ s.todo = turn[p].todo /\ s.pc # "picked"
  BY TurnIsGood DEF Follows, Good, Busy
<1> QED
  BY <1>1, <1>2, SameKept, GoesOn

LEMMA ThinkingSteps ==
  ASSUME TurnTyped, NEW p \in Process,
         NoPlanner(p) \/ Gate(p) \/ NoAnswer(p) \/ EndPlan(p) \/ GateWriteback(p)
  PROVE  Proceeds(p)
<1>1. Holds(p)
  BY DEF NoPlanner, Gate, NoAnswer, EndPlan, GateWriteback, At, Holds, Off
<1>2. UNCHANGED vars /\ todos' = todos
  BY DEF NoPlanner, Gate, NoAnswer, EndPlan, GateWriteback, vars
<1>3. {"blocked", "successor", "done", "retry"} \subseteq Outs /\ "working" \in Pcs \ {"picked"}
  BY DEF Outs, Pcs
<1>4. Go(p, "working") \/ \E out \in Outs : Decide(p, out)
  BY <1>3 DEF NoPlanner, Gate, NoAnswer, EndPlan, GateWriteback
<1> QED
  BY <1>1, <1>2, <1>3, <1>4, SameKept, Goes

LEMMA AnswerSteps ==
  ASSUME TurnTyped, NEW p \in Process,
         \/ \E plan \in Plans : ReceivePlan(p, plan)
         \/ \E diff \in Diffs : ReceiveDiff(p, diff)
  PROVE  Proceeds(p)
<1>1. Holds(p) /\ UNCHANGED vars
  BY DEF ReceivePlan, ReceiveDiff, At, Holds, Off
<1>2. turn[p] \in Turn /\ turn[p].todo \in Todo
  BY <1>1, TurnIsGood DEF Good
<1>3. {"planning", "changing"} \subseteq Pcs
  BY DEF Pcs
<1>4. ASSUME NEW plan \in Plans, ReceivePlan(p, plan) PROVE Proceeds(p)
  <2> DEFINE s == [turn[p] EXCEPT !.pc = "planning", !.plan = plan]
  <2>1. plan \in Seq(Content)
    OBVIOUS
  <2>2. Follows(s, turn[p], "planning") /\ Become(p, s)
    BY <1>2, <1>3, <1>4, <2>1, GoTypes DEF ReceivePlan
  <2> HIDE DEF s
  <2> QED
    BY <1>1, <2>2, ThinksOn
<1>5. ASSUME NEW diff \in Diffs, ReceiveDiff(p, diff) PROVE Proceeds(p)
  <2> DEFINE s == [turn[p] EXCEPT !.pc = "changing", !.diff = diff]
  <2>1. diff \in Diff
    OBVIOUS
  <2>2. Follows(s, turn[p], "changing") /\ Become(p, s)
    BY <1>2, <1>3, <1>5, <2>1, GoTypes DEF ReceiveDiff
  <2> HIDE DEF s
  <2> QED
    BY <1>1, <2>2, ThinksOn
<1> QED
  BY <1>4, <1>5

(* apply_plan: what is created has ids of todos for the places it names.   *)
LEMMA CreatePlannedStep ==
  ASSUME TypeInv, TurnTyped, NEW p \in Process, CreatePlanned(p)
  PROVE  Proceeds(p)
<1> DEFINE r == turn[p]
           spec == Head(r.plan)
           new == [spec EXCEPT !.kind = "exec", !.deps = Mapped(spec.deps, r.made)]
           s == [r EXCEPT !.plan = Tail(@), !.made = Append(@, created + 1)]
<1>1. Holds(p) /\ turn[p].pc \notin {"idle", "dead"} /\ r.pc # "picked"
  BY DEF CreatePlanned, At, Holds, Off
<1>2. r \in Turn /\ r.todo \in Todo /\ r.plan \in Seq(Content) /\ r.made \in Seq(Todo)
  <2>1. r \in Turn /\ r.todo \in Todo
    BY <1>1, TurnIsGood DEF Good
  <2> HIDE DEF r
  <2> QED
    BY <2>1 DEF Turn
<1>3. CASE /\ \A d \in spec.deps : -d \in DOMAIN r.made
           /\ CreateTodo(Mine(p).goal, new)
           /\ Become(p, s)
  <2>1. r.plan # <<>> /\ spec \in Content /\ Tail(r.plan) \in Seq(Content)
    BY <1>2, HeadTailProperties DEF CreatePlanned
  <2>2. Mapped(spec.deps, r.made) \in SUBSET Ref
    <3>1. \A i \in DOMAIN r.made : r.made[i] \in Ref
      BY <1>2 DEF Ref
    <3> QED
      BY <1>3, <3>1 DEF Mapped
  <2>3. new \in Content
    <3> HIDE DEF spec, r
    <3> QED
      BY <2>1, <2>2, Zenon DEF Content
  <2>4. Mine(p).goal \in Goal
    BY <1>2 DEF Mine, TypeInv, TypeOK, Row
  <2> HIDE DEF new
  <2>5. OtherCall
    BY <1>3, <2>3, <2>4 DEF OtherCall, GoalCall
  <2>6. \A u \in Todo : Kept(u)
    BY <1>3, <2>3, <2>4, InsertKept DEF CreateTodo
  <2>7. created + 1 \in Todo
    BY <1>3 DEF CreateTodo, Insert, TypeInv, TypeOK
  <2>8. Append(r.made, created + 1) \in Seq(Todo)
    BY <1>2, <2>7, AppendProperties
  <2>9. Follows(s, r, r.pc)
    <3>1. s = [r EXCEPT !.plan = Tail(r.plan), !.made = Append(r.made, created + 1)]
      OBVIOUS
    <3> HIDE DEF r, s
    <3> QED
      BY <1>2, <2>1, <2>8, <3>1, GoTypes
  <2> HIDE DEF s
  <2>10. Good(s) /\ s.todo = turn[p].todo /\ s.pc # "picked"
    BY <1>1, <1>2, <2>9 DEF Follows, Good, Busy
  <2> QED
    BY <1>1, <1>3, <2>5, <2>6, <2>10, GoesOn
<1>4. CASE UNCHANGED vars /\ Fail(p)
  BY <1>1, <1>4, FailGoes
<1> QED
  BY <1>3, <1>4 DEF CreatePlanned

LEMMA ChangePlanStep ==
  ASSUME TypeInv, TurnTyped, NEW p \in Process, ChangePlan(p)
  PROVE  Proceeds(p)
<1> DEFINE t == turn[p].todo
           diff == turn[p].diff
<1>1. Holds(p) /\ turn[p].pc \notin {"idle", "dead"}
  BY DEF ChangePlan, At, Holds, Off
<1>2. t \in Todo /\ diff \in Diff
  BY <1>1, TurnIsGood DEF Good, Turn
<1>3. {"done", "needs_user"} \subseteq Outs
  BY DEF Outs
<1>4. CASE ApplyPlanDiff(t, "approved", diff) /\ Decide(p, "done")
  <2> HIDE DEF diff, t
  <2>1. OtherCall
    BY <1>2, <1>4 DEF OtherCall, PlanCall
  <2>2. \A u \in Todo : Kept(u)
    BY <1>2, <1>4, DecideKept
  <2> QED
    BY <1>1, <1>3, <1>4, <2>1, <2>2, Goes
<1>5. CASE /\ "step" \in Modes
           /\ CanWriteBack(Mine(p)) /\ ProposeTx(t, diff) /\ Decide(p, "needs_user")
  <2>1. ProposePlanDiff(t, diff)
    BY <1>5 DEF ProposePlanDiff, Mine
  <2> HIDE DEF diff, t
  <2>2. OtherCall
    BY <1>2, <2>1 DEF OtherCall, PlanCall
  <2> QED
    BY <1>1, <1>3, <1>5, <2>2, Goes
<1>6. CASE UNCHANGED vars /\ Fail(p)
  BY <1>1, <1>6, FailGoes
<1> QED
  BY <1>4, <1>5, <1>6 DEF ChangePlan, Try

LEMMA WritebackSteps ==
  ASSUME TypeInv, TurnTyped, NEW p \in Process, ReadWriteback(p) \/ MarkWriteback(p) \/ GiveUp(p)
  PROVE  Proceeds(p)
<1> DEFINE r == turn[p]
           t == r.todo
<1>1. Holds(p) /\ turn[p].pc \notin {"idle", "dead"}
  BY DEF ReadWriteback, MarkWriteback, GiveUp, At, Holds, Off
<1>2. r \in Turn /\ t \in Todo /\ Identity[p] \in Worker
  BY <1>1, TurnIsGood DEF Good
<1>3. Mine(p).spec \in Content /\ Mine(p).status \in Outs
  <2>1. Mine(p) \in Row
    BY <1>2 DEF Mine, TypeInv, TypeOK
  <2> QED
    BY <2>1 DEF Row, Outs
<1>4. {"marking", "writing", "checking"} \subseteq Pcs /\ Waiting \cup {"retry", "running"} \subseteq Outs
  BY DEF Pcs, Outs
<1>5. ASSUME NEW pc \in {"marking", "writing"}, NEW out \in Outs, UNCHANGED vars,
             Become(p, [turn[p] EXCEPT !.pc = pc, !.spec = Mine(p).spec, !.out = out])
      PROVE  Proceeds(p)
  <2> DEFINE s == [turn[p] EXCEPT !.pc = pc, !.spec = Mine(p).spec, !.out = out]
  <2>1. Follows(s, turn[p], pc)
    BY <1>2, <1>3, <1>4, GoTypes
  <2> HIDE DEF s
  <2> QED
    BY <1>1, <1>5, <2>1, ThinksOn DEF s
<1>6. CASE ReadWriteback(p)
  BY <1>3, <1>4, <1>5, <1>6 DEF ReadWriteback
<1>7. CASE CanRun(Mine(p), Identity[p]) /\ MarkTx(t, "running")
           /\ Become(p, [turn[p] EXCEPT !.out = "running"])
  <2> DEFINE s == [turn[p] EXCEPT !.out = "running"]
  <2>1. OtherCall /\ \A u \in Todo : Kept(u)
    BY <1>2, <1>7, MarkCalls DEF Mine
  <2>2. Follows(s, turn[p], turn[p].pc)
    BY <1>2, <1>4, GoTypes
  <2> HIDE DEF s
  <2>3. Good(s) /\ s.todo = turn[p].todo /\ s.pc # "picked"
    BY <1>1, <1>2, <2>2 DEF Follows, Good, Busy, Holds, Off
  <2> QED
    BY <1>1, <1>7, <2>1, <2>3, GoesOn DEF s
<1>8. CASE CanVerify(Mine(p), Identity[p]) /\ MarkTx(t, "verifying") /\ Go(p, "checking")
  <2>1. OtherCall /\ \A u \in Todo : Kept(u)
    BY <1>2, <1>8, MarkCalls DEF Mine
  <2> QED
    BY <1>1, <1>4, <1>8, <2>1, Goes
<1>9. CASE UNCHANGED vars /\ Go(p, "checking")
  <2>1. todos' = todos
    BY <1>9 DEF vars
  <2> QED
    BY <1>1, <1>4, <1>9, <2>1, SameKept, Goes
<1>10. CASE UNCHANGED vars /\ Fail(p)
  BY <1>1, <1>10, FailGoes
<1>11. CASE GiveUp(p)
  <2>1. todos' = todos
    BY <1>11 DEF GiveUp, vars
  <2> QED
    BY <1>11, <2>1, SameKept, LetsGo DEF GiveUp, Become
<1> QED
  BY <1>6, <1>7, <1>8, <1>9, <1>10, <1>11 DEF MarkWriteback, Try

(* The write-back lets the todo go; it never asks who writes.              *)
LEMMA WriteStep ==
  ASSUME TypeInv, TurnTyped, NEW p \in Process, Write(p)
  PROVE  Proceeds(p)
<1> DEFINE t == turn[p].todo
<1>1. Holds(p) /\ turn[p].pc \notin {"idle", "dead"}
  BY DEF Write, At, Holds, Off
<1>2. t \in Todo /\ turn[p].spec \in Content /\ Mine(p).spec \in Content
  <2>1. t \in Todo /\ turn[p].spec \in Content
    BY <1>1, TurnIsGood DEF Good, Turn
  <2>2. Mine(p) \in Row
    BY <2>1 DEF Mine, TypeInv, TypeOK
  <2> QED
    BY <2>1, <2>2 DEF Row
<1>3. ASSUME OtherCall, \A u \in Todo : u # t => Kept(u), Become(p, Rest) PROVE Proceeds(p)
  BY <1>1, <1>3, LetsGo DEF Become
<1>4. CASE CanFinish(Mine(p), TRUE) /\ DoneTx(t) /\ Become(p, Rest)
  <2>1. WriteDone(t, TRUE)
    BY <1>4 DEF WriteDone, Mine
  <2> HIDE DEF t
  <2>2. OtherCall
    BY <1>2, <2>1 DEF OtherCall, WriteBackCall
  <2>3. \A u \in Todo : u # t => Kept(u)
    BY <1>2, <1>4, UpdateKept DEF DoneTx
  <2> QED
    BY <1>3, <1>4, <2>2, <2>3
<1>5. ASSUME NEW spec \in Content, WriteSuccessor(t, spec), Become(p, Rest) PROVE Proceeds(p)
  <2> HIDE DEF t
  <2>1. OtherCall
    BY <1>2, <1>5 DEF OtherCall, WriteBackCall
  <2>2. \A u \in Todo : u # t => Kept(u)
    BY <1>2, <1>5, UpdateKept, SuccessorKept DEF WriteSuccessor, WaitTx
  <2> QED
    BY <1>3, <1>5, <2>1, <2>2
<1>6. ASSUME NEW out \in Waiting, CanWriteBack(Mine(p)), WaitTx(t, out), Become(p, Rest)
      PROVE  Proceeds(p)
  <2>1. WriteWaiting(t, out)
    BY <1>6 DEF WriteWaiting, Mine
  <2> HIDE DEF t
  <2>2. OtherCall
    BY <1>2, <2>1 DEF OtherCall, WriteBackCall
  <2>3. \A u \in Todo : u # t => Kept(u)
    BY <1>2, <1>6, UpdateKept DEF WaitTx
  <2> QED
    BY <1>3, <1>6, <2>2, <2>3
<1>7. CASE UNCHANGED vars /\ Fail(p)
  BY <1>1, <1>7, FailGoes
<1> QED
  BY <1>2, <1>4, <1>5, <1>6, <1>7 DEF Write, Try

LEMMA CrashSteps ==
  ASSUME TurnTyped, NEW p \in Process, Crash(p) \/ Restart(p)
  PROVE  Proceeds(p)
<1>1. todos' = todos /\ UNCHANGED vars
  BY DEF Crash, Restart, vars
<1> QED
  BY <1>1, SameKept, LetsGo DEF Crash, Restart, Become

-----------------------------------------------------------------------------
(* Picking, claiming, time and the user.                                   *)

(* The oldest claimable todo is one of them.                               *)
LEMMA FirstIsIn ==
  ASSUME NEW S \in SUBSET Todo, S # {}
  PROVE  First(S) \in S
<1>1. PICK m \in S : \A n \in S : m <= n
  <2>1. S \in SUBSET Nat
    OBVIOUS
  <2> QED
    BY <2>1, Least
<1> QED
  BY <1>1 DEF First

(* What a process has picked exists and its dependencies are done.         *)
Ready(ts, t) == ts[t].status # "absent" /\ DepsDone(ts, ts[t].spec)
PickedReady == \A p \in Process : At(p, "picked") => Ready(todos, turn[p].todo)

(* When it is picked, there is quota left for it.                          *)
QuotaRead(t) == quota' = quota /\ QuotaLeft(QuotaKey(todos'[t].spec.role))

LEMMA PollStep ==
  ASSUME TypeInv, TurnTyped, NEW p \in Process, Poll(p)
  PROVE  /\ [OtherCall]_vars /\ \A u \in Todo : Kept(u)
         /\ \/ turn' = turn
            \/ \E t \in Todo : \E s :
                 /\ Good(s) /\ s.pc = "picked" /\ s.todo = t
                 /\ turn' = [turn EXCEPT ![p] = s] /\ Ready(todos', t)
                 /\ QuotaRead(t)
<1> DEFINE ts == TakenBack(todos, Expired(todos))
           ready == Claimable(ts)
<1>1. todos' = ts /\ UNCHANGED <<created, goals, rounds, quota>>
  BY DEF Poll, RequeueTx
<1>2. [OtherCall]_vars
  <2>1. CASE Expired(todos) # {}
    BY <2>1 DEF Poll, OtherCall, RequeueExpiredLeases
  <2>2. CASE Expired(todos) = {}
    <3>1. todos' = todos
      BY <1>1, <2>2 DEF TakenBack, TypeInv, TypeOK
    <3> QED
      BY <1>1, <3>1 DEF vars
  <2> QED
    BY <2>1, <2>2
<1>3. \A u \in Todo : Kept(u)
  BY RequeueKept DEF Poll
<1>4. CASE ready = {}
  <2>1. turn' = turn
    BY <1>4 DEF Poll
  <2> QED
    BY <1>2, <1>3, <2>1
<1>5. CASE ready # {}
  <2>1. First(ready) \in ready /\ First(ready) \in Todo
    <3>1. ready \in SUBSET Todo
      BY DEF Claimable
    <3> HIDE DEF ready
    <3> QED
      BY <1>5, <3>1, FirstIsIn
  <2>2. ts[First(ready)].status = "open" /\ DepsDone(ts, ts[First(ready)].spec)
    BY <2>1 DEF Claimable
  <2>3. turn' = [turn EXCEPT ![p] = [Rest EXCEPT !.pc = "picked", !.todo = First(ready),
                                                 !.spec = todos[First(ready)].spec]]
    BY <1>5 DEF Poll, Become
  <2>4. todos[First(ready)].spec \in Content
    BY <2>1 DEF TypeInv, TypeOK, Row
  <2>5. ASSUME NEW t \in Todo, NEW spec \in Content
        PROVE  /\ Good([Rest EXCEPT !.pc = "picked", !.todo = t, !.spec = spec])
               /\ [Rest EXCEPT !.pc = "picked", !.todo = t, !.spec = spec].pc = "picked"
               /\ [Rest EXCEPT !.pc = "picked", !.todo = t, !.spec = spec].todo = t
    <3>1. Rest \in Turn
      BY RestType DEF Good
    <3>2. t \in 0..MaxTodo /\ "picked" \in Pcs
      BY DEF Pcs
    <3>3. /\ [Rest EXCEPT !.pc = "picked", !.todo = t, !.spec = spec] \in Turn
          /\ [Rest EXCEPT !.pc = "picked", !.todo = t, !.spec = spec].pc = "picked"
          /\ [Rest EXCEPT !.pc = "picked", !.todo = t, !.spec = spec].todo = t
      BY <3>1, <3>2, Zenon DEF Turn
    <3> QED
      BY <3>3 DEF Good, Busy
  <2>6. Ready(todos', First(ready)) /\ QuotaRead(First(ready))
    <3>1. QuotaLeft("global")
          /\ (ts[First(ready)].spec.role # NoRole => QuotaLeft(ts[First(ready)].spec.role))
      BY <2>1 DEF Claimable
    <3> HIDE DEF ts, ready
    <3>2. QuotaLeft(QuotaKey(ts[First(ready)].spec.role))
      BY <3>1 DEF QuotaKey
    <3> QED
      BY <1>1, <2>1, <2>2, <3>2 DEF Ready, QuotaRead
  <2> HIDE DEF ready, ts
  <2>7. PICK t \in Todo, spec \in Content :
          /\ turn' = [turn EXCEPT ![p] = [Rest EXCEPT !.pc = "picked", !.todo = t, !.spec = spec]]
          /\ Ready(todos', t) /\ QuotaRead(t)
    BY <2>1, <2>3, <2>4, <2>6
  <2> QED
    BY <1>2, <1>3, <2>5, <2>7
<1> QED
  BY <1>4, <1>5

LEMMA ClaimStep ==
  ASSUME TypeInv, TurnTyped, NEW p \in Process, TakeClaim(p)
  PROVE  /\ turn[p].todo \in Todo /\ At(p, "picked")
         /\ \/ Proceeds(p)
            \/ /\ Claim(turn[p].todo, Identity[p])
               /\ \E s : /\ Good(s) /\ s.todo = turn[p].todo /\ s.pc \notin Off
                         /\ turn' = [turn EXCEPT ![p] = s]
<1> DEFINE r == turn[p]
<1>1. At(p, "picked") /\ r.pc \notin {"idle", "dead"}
  BY DEF TakeClaim, At
<1>2. r \in Turn /\ r.todo \in Todo
  BY <1>1, TurnIsGood DEF Good, Busy
<1>3. CASE CanClaim(Mine(p)) /\ ClaimTx(r.todo, Identity[p])
           /\ (Go(p, "claimed") \/ Decide(p, "blocked"))
  <2>1. Claim(r.todo, Identity[p])
    BY <1>3 DEF Claim, Mine
  <2>2. {"claimed", "writing"} \subseteq Pcs /\ "blocked" \in Outs
    BY DEF Pcs, Outs
  <2>3. /\ Follows([r EXCEPT !.pc = "claimed"], r, "claimed")
        /\ Follows([r EXCEPT !.pc = "writing", !.out = "blocked"], r, "writing")
    BY <1>2, <2>2, GoTypes
  <2>4. PICK s, pc : /\ Follows(s, r, pc) /\ pc \in {"claimed", "writing"}
                     /\ turn' = [turn EXCEPT ![p] = s]
    BY <1>3, <2>3 DEF Go, Decide, Become
  <2>5. Good(s) /\ s.todo = r.todo /\ s.pc \notin Off
    BY <1>2, <2>4 DEF Follows, Good, Busy, Off
  <2> QED
    BY <1>1, <1>2, <2>1, <2>4, <2>5
<1>4. CASE UNCHANGED vars /\ Fail(p)
  BY <1>1, <1>2, <1>4, FailGoes
<1> QED
  BY <1>3, <1>4 DEF TakeClaim, Try

LEMMA LapseStep ==
  ASSUME TypeInv, NEW t \in Todo, Lapse(t)
  PROVE  OtherCall /\ turn' = turn /\ \A u \in Todo : u # t => Kept(u)
<1>1. OtherCall
  BY DEF Lapse, OtherCall
<1> QED
  BY <1>1, UpdateKept DEF Lapse, LapseLease

LEMMA UserStep ==
  ASSUME TypeInv, User
  PROVE  OtherCall /\ turn' = turn /\ \A u \in Todo : Kept(u)
<1>1. turn' = turn
  BY DEF User
<1>2. ASSUME NEW g \in Goal, NEW spec \in Content,
             \/ CreateGoalWithPlan(g) \/ CreateGoal(g, FALSE) \/ FreezeGoal(g)
             \/ CreateTodo(g, spec)
      PROVE  OtherCall /\ \A u \in Todo : Kept(u)
  <2>1. GoalCall(g)
    BY <1>2 DEF GoalCall
  <2>2. todos' = todos \/ \E c \in Content : Insert(g, c)
    BY <1>2, PlanSpecType DEF CreateGoalWithPlan, CreateGoal, FreezeGoal, FreezeTx, CreateTodo
  <2> QED
    BY <2>1, <2>2, SameKept, InsertKept DEF OtherCall
<1>3. ASSUME NEW t \in Todo, Reopen(t) PROVE OtherCall /\ \A u \in Todo : Kept(u)
  <2>1. ~Held(todos[t])
    BY <1>3 DEF Reopen, CanReopen, Held
  <2> QED
    BY <1>3, <2>1, UpdateKept DEF OtherCall, Reopen, ReopenTx, Kept
<1>4. ASSUME NEW t \in Todo, NEW decision \in {"approved", "rejected"}, PlanDecide(t, decision)
      PROVE  OtherCall /\ \A u \in Todo : Kept(u)
  <2>1. todos[t].diff \in Diff
    BY DEF TypeInv, TypeOK, Row
  <2>2. PICK diff \in Diff : ApplyPlanDiff(t, decision, diff)
    BY <1>4, <2>1 DEF PlanDecide
  <2> QED
    BY <2>2, DecideKept DEF OtherCall, PlanCall
<1>5. PlanSpec \in Content /\ Wishes \subseteq Content
  BY PlanSpecType
<1>6. CASE Operate \/ NewDay
  <2>1. todos' = todos
    BY <1>6 DEF Operate, SetQuota, NewDay
  <2>2. OtherCall
    BY <1>6 DEF Operate, OtherCall
  <2> QED
    BY <1>1, <2>1, <2>2, SameKept
<1> QED
  BY <1>1, <1>2, <1>3, <1>4, <1>5, <1>6, Zenon
     DEF User, GoalsCreate, GoalsFreeze, SteerCreate, AddTodo, TodosReopen

-----------------------------------------------------------------------------
(* Every step of Turns in these terms: time passes or the user acts, or a  *)
(* process goes on, picks a todo, or claims the one it picked.             *)

Passes ==
  /\ [OtherCall]_vars /\ turn' = turn
  /\ \A u \in Todo : Kept(u) \/ Slow \/ ~Attended(u)
Picks(p) ==
  /\ [OtherCall]_vars /\ \A u \in Todo : Kept(u)
  /\ \/ turn' = turn
     \/ \E t \in Todo : \E s :
          /\ Good(s) /\ s.pc = "picked" /\ s.todo = t
          /\ turn' = [turn EXCEPT ![p] = s] /\ Ready(todos', t) /\ QuotaRead(t)
Takes(p) ==
  /\ turn[p].todo \in Todo /\ At(p, "picked")
  /\ Claim(turn[p].todo, Identity[p])
  /\ \E s : /\ Good(s) /\ s.todo = turn[p].todo /\ s.pc \notin Off
            /\ turn' = [turn EXCEPT ![p] = s]

LEMMA TurnsSteps ==
  ASSUME TypeInv, TurnTyped, [TurnsNext]_turnVars
  PROVE  Passes \/ \E p \in Process : Proceeds(p) \/ Picks(p) \/ Takes(p)
<1>1. ASSUME NEW p \in Process, Advance(p) \/ Heartbeat(p) \/ Crash(p) \/ Restart(p)
      PROVE  Proceeds(p) \/ Picks(p) \/ Takes(p)
  <2>1. CASE Poll(p)
    BY <2>1, PollStep DEF Picks
  <2>2. CASE TakeClaim(p)
    BY <2>2, ClaimStep DEF Takes
  <2>3. CASE StartRunning(p) \/ Heartbeat(p) \/ Crash(p) \/ Restart(p)
    BY <2>3, StartRunningStep, HeartbeatStep, CrashSteps
  <2>4. CASE Think(p)
    BY <2>4, VerifyingSteps, ThinkingSteps, AnswerSteps, CreatePlannedStep, ChangePlanStep DEF Think
  <2>5. CASE Writeback(p) \/ Write(p)
    BY <2>5, WritebackSteps, ThinkingSteps, WriteStep DEF Writeback
  <2> QED
    BY <1>1, <2>1, <2>2, <2>3, <2>4, <2>5 DEF Advance, Pick
<1>2. ASSUME NEW t \in Todo, Lapse(t) PROVE Passes
  BY <1>2, LapseStep DEF Passes, Lapse
<1>3. CASE User
  BY <1>3, UserStep DEF Passes
<1>4. CASE UNCHANGED turnVars
  BY <1>4, SameKept DEF turnVars, vars, Passes
<1> QED
  BY <1>1, <1>2, <1>3, <1>4 DEF TurnsNext

(* The processes change the tables through the calls of Kernel alone.      *)
LEMMA TurnIsCall == TypeInv /\ TurnTyped /\ [TurnsNext]_turnVars => [Call]_vars
<1> SUFFICES ASSUME TypeInv, TurnTyped, [TurnsNext]_turnVars PROVE [Call]_vars
  OBVIOUS
<1>1. [OtherCall]_vars => [Call]_vars
  BY DEF Call
<1>2. \A p \in Process : Takes(p) => Call
  BY TurnIsGood, Zenon DEF Takes, Call
<1> QED
  BY <1>1, <1>2, TurnsSteps DEF Passes, Proceeds, Picks

LEMMA TurnTypedStep == TypeInv /\ TurnTyped /\ [TurnsNext]_turnVars => TurnTyped'
<1> SUFFICES ASSUME TypeInv, TurnTyped, [TurnsNext]_turnVars PROVE TurnTyped'
  OBVIOUS
<1>1. CASE turn' = turn
  BY <1>1 DEF TurnTyped
<1>2. ASSUME NEW p \in Process, NEW s, Good(s), turn' = [turn EXCEPT ![p] = s]
      PROVE  TurnTyped'
  <2>1. turn' \in [Process -> Turn]
    BY <1>2 DEF TurnTyped, Good
  <2>2. \A q \in Process : Busy(turn'[q])
    BY <1>2 DEF TurnTyped, Good
  <2> QED
    BY <2>1, <2>2 DEF TurnTyped
<1> QED
  BY <1>1, <1>2, TurnsSteps, Zenon DEF Passes, Proceeds, Onward, Picks, Takes

-----------------------------------------------------------------------------
(* Dependencies.  That they are respected is not inductive: what a process *)
(* has picked must still be ready when it claims it.                       *)

TurnsInv == TypeInv /\ TurnTyped /\ DepsRespected /\ PickedReady

(* Nothing a call does takes a todo's readiness away: a row keeps its      *)
(* dependencies, and what is done stays done.                              *)
LEMMA DepsKept ==
  ASSUME TypeInv, [Call]_vars, NEW t \in Todo, Ready(todos, t)
  PROVE  Ready(todos', t)
<1>1. TypeInv' /\ Moves /\ NewRows
  BY TypeInvStep, StepMoves, StepNewRows
<1>2. Present(t) /\ t <= created
  BY DEF Ready, Present, TypeInv, TypeOK
<1>3. todos'[t].spec.deps = todos[t].spec.deps
  BY <1>1, <1>2 DEF Moves, RowMove, ClaimMove
<1>4. todos'[t].status # "absent"
  <2>1. created' >= created /\ created \in Nat /\ created' \in Nat
    BY <1>1 DEF NewRows, TypeInv, TypeOK
  <2>2. t <= created'
    BY <1>2, <2>1
  <2> QED
    BY <1>1, <2>2 DEF TypeInv, TypeOK, Present
<1>5. ASSUME NEW d \in todos[t].spec.deps PROVE d \in Todo /\ todos'[d].status = "done"
  <2>1. d \in Todo /\ todos[d].status = "done"
    BY DEF Ready, DepsDone
  <2>2. RowMove(todos[d], todos'[d]) \/ ClaimMove(todos[d], todos'[d])
    BY <1>1, <2>1 DEF Moves, Present
  <2> QED
    BY <2>1, <2>2 DEF RowMove, ClaimMove
<1> QED
  BY <1>3, <1>4, <1>5 DEF Ready, DepsDone

(* What comes into flight in this step was ready: dependencies respected.  *)
LEMMA DepsStep ==
  ASSUME TypeInv, DepsRespected, [Call]_vars,
         \A t \in Todo : todos'[t].status \in InFlight
                           => todos[t].status \in InFlight \/ Ready(todos, t)
  PROVE  DepsRespected'
<1> SUFFICES ASSUME NEW t \in Todo, todos'[t].status \in InFlight
             PROVE  DepsDone(todos', todos'[t].spec)
  BY DEF DepsRespected, DepsDone
<1>1. Ready(todos, t)
  BY DEF DepsRespected, Ready, DepsDone
<1> QED
  BY <1>1, DepsKept DEF Ready

(* No call but a claim brings a todo into flight.                          *)
LEMMA OtherCallsStart ==
  ASSUME TypeInv, [OtherCall]_vars, NEW t \in Todo, todos'[t].status \in InFlight
  PROVE  todos[t].status \in InFlight
<1>1. TypeInv' /\ Still /\ NewRows
  BY TypeInvStep, OtherMoves, StepNewRows DEF Call
<1>2. CASE Present(t)
  BY <1>1, <1>2 DEF Still, RowMove
<1>3. CASE ~Present(t)
  <2>1. todos'[t] \in Row /\ todos'[t].status # "absent"
    BY <1>1 DEF TypeInv, TypeOK
  <2>2. t <= created' /\ ~(t <= created) /\ created \in Nat /\ created' \in Nat
    BY SMTT(20), <1>1, <1>3, <2>1 DEF TypeInv, TypeOK, Present
  <2>3. t \in (created + 1)..created'
    BY <2>2
  <2> QED
    BY <1>1, <2>3 DEF NewRows, Fresh, Reworks
<1> QED
  BY <1>2, <1>3

LEMMA InitTurnsInv == TurnsInit => TurnsInv
<1> SUFFICES ASSUME TurnsInit PROVE TurnsInv
  OBVIOUS
<1>1. TypeInv
  BY InitTypeInv DEF TurnsInit
<1>2. \A t \in Todo : ~Present(t)
  BY <1>1 DEF TurnsInit, Init, TypeInv, TypeOK
<1>3. TurnTyped /\ PickedReady
  <2>1. Good(Rest) /\ Rest.pc = "idle"
    BY RestType DEF Rest
  <2> QED
    BY <2>1 DEF TurnsInit, TurnTyped, PickedReady, At, Good
<1> QED
  BY <1>1, <1>2, <1>3 DEF TurnsInv, DepsRespected, Present

LEMMA TurnsInvStep == TurnsInv /\ [TurnsNext]_turnVars => TurnsInv'
<1> SUFFICES ASSUME TurnsInv, [TurnsNext]_turnVars PROVE TurnsInv'
  OBVIOUS
<1>1. TypeInv /\ TurnTyped /\ DepsRespected /\ PickedReady
  BY DEF TurnsInv
<1>2. [Call]_vars /\ TypeInv' /\ TurnTyped'
  BY <1>1, TurnIsCall, TypeInvStep, TurnTypedStep
<1>3. Passes \/ \E p \in Process : Proceeds(p) \/ Picks(p) \/ Takes(p)
  BY <1>1, TurnsSteps
<1>4. DepsRespected'
  <2>1. CASE [OtherCall]_vars
    BY <1>1, <1>2, <2>1, OtherCallsStart, DepsStep
  <2>2. ASSUME NEW p \in Process, Takes(p) PROVE DepsRespected'
    <3>1. Ready(todos, turn[p].todo)
      BY <1>1, <2>2 DEF PickedReady, Takes
    <3>2. \A t \in Todo : t # turn[p].todo => todos'[t] = todos[t]
      BY <1>1, <2>2 DEF Takes, Claim, ClaimTx, Update, TypeInv, TypeOK
    <3> QED
      BY <1>1, <1>2, <3>1, <3>2, DepsStep
  <2> QED
    BY <1>3, <2>1, <2>2 DEF Passes, Proceeds, Picks
<1>5. PickedReady'
  <2> SUFFICES ASSUME NEW q \in Process, turn'[q].pc = "picked"
               PROVE  Ready(todos', turn'[q].todo)
    BY DEF PickedReady, At
  <2>1. CASE turn'[q] = turn[q]
    <3>1. turn[q].todo \in Todo /\ Ready(todos, turn[q].todo)
      BY <1>1, <2>1, TurnIsGood DEF PickedReady, At, Good, Busy
    <3> QED
      BY <1>1, <1>2, <2>1, <3>1, DepsKept
  <2>2. ASSUME NEW p \in Process, NEW s, turn' = [turn EXCEPT ![p] = s], s.pc # "picked"
        PROVE  turn'[q] = turn[q]
    BY <1>1, <2>2 DEF TurnTyped
  <2>3. ASSUME NEW p \in Process, Picks(p) PROVE Ready(todos', turn'[q].todo)
    BY <1>1, <2>1, <2>3 DEF Picks, TurnTyped
  <2>4. Passes => turn'[q] = turn[q]
    BY DEF Passes
  <2>5. \A p \in Process : Proceeds(p) \/ Takes(p) => turn'[q] = turn[q]
    BY <2>2, Zenon DEF Proceeds, Onward, Takes, Off
  <2> QED
    BY <1>3, <2>1, <2>3, <2>4, <2>5
<1> QED
  BY <1>2, <1>4, <1>5 DEF TurnsInv

(* Nobody works on a todo before what it depends on is done, although it   *)
(* was picked in one call (claimable) and is claimed in another.           *)
THEOREM NobodyWorksTooEarly == TurnsSpec => []DepsRespected
<1>1. TurnsInv => DepsRespected
  BY DEF TurnsInv
<1> QED
  BY InitTurnsInv, TurnsInvStep, <1>1, PTL DEF TurnsSpec

-----------------------------------------------------------------------------
(* A turn owns its todo.  TurnIsOwn speaks of the workers; what keeps it   *)
(* is that host sessions too hold what they work on, and that no two       *)
(* processes work on the same todo.                                        *)

Owns  == \A p \in Process : Holds(p) => Held(Mine(p)) /\ Mine(p).claimedBy = Identity[p]
Apart == \A p, q \in Process : p # q /\ Holds(p) /\ Holds(q) => turn[p].todo # turn[q].todo
OwnInv == TurnsInv /\ (~Slow /\ "step" \notin Modes => Owns /\ Apart)

LEMMA InitOwnInv == TurnsInit => OwnInv
<1> SUFFICES ASSUME TurnsInit PROVE OwnInv
  OBVIOUS
<1>1. \A p \in Process : ~Holds(p)
  BY DEF TurnsInit, Holds, Rest, Off
<1> QED
  BY <1>1, InitTurnsInv DEF OwnInv, Owns, Apart

(* A process that keeps what it had, and whose todo is kept for it.        *)
LEMMA StillOwns ==
  ASSUME TurnsInv, Owns, NEW p \in Process, Holds(p), Kept(turn[p].todo),
         turn'[p].todo = turn[p].todo
  PROVE  Held(todos'[turn'[p].todo]) /\ todos'[turn'[p].todo].claimedBy = Identity[p]
BY DEF Owns, Kept, Mine

LEMMA OwnStep ==
  ASSUME TurnsInv, Owns, Apart, ~Slow, "step" \notin Modes, [TurnsNext]_turnVars
  PROVE  Owns' /\ Apart'
<1>1. TypeInv /\ TurnTyped
  BY DEF TurnsInv
<1>2. \A p \in Process : Holds(p) => turn[p].todo \in Todo /\ turn[p].pc \notin {"idle", "dead"}
  BY <1>1, TurnIsGood
<1>3. \A p \in Process : \A s : turn' = [turn EXCEPT ![p] = s]
        => turn'[p] = s /\ \A q \in Process \ {p} : turn'[q] = turn[q]
  BY <1>1 DEF TurnTyped
(* Whoever holds a todo after the step held it before, and it was kept; or *)
(* claimed it in the step, when it was open.                               *)
<1> DEFINE Stays(q) == Holds(q) /\ Kept(turn[q].todo) /\ turn'[q].todo = turn[q].todo
<1>4. CASE Passes
  <2>1. ASSUME NEW q \in Process, turn'[q].pc \notin Off PROVE Stays(q)
    <3>1. Holds(q) /\ turn'[q] = turn[q]
      BY <1>4, <2>1 DEF Passes, Holds
    <3>2. Attended(turn[q].todo)
      BY <1>2, <3>1 DEF Attended
    <3> QED
      BY <1>2, <1>4, <3>1, <3>2 DEF Passes
  <2> QED
    BY <2>1, StillOwns DEF Owns, Apart, Holds, Mine
<1>5. ASSUME NEW p \in Process, Proceeds(p) \/ Picks(p) PROVE Owns' /\ Apart'
  <2>1. ASSUME NEW q \in Process, turn'[q].pc \notin Off PROVE Stays(q)
    <3>1. CASE turn' = turn /\ \A u \in Todo : Kept(u)
      BY <1>2, <2>1, <3>1 DEF Holds
    <3>2. ASSUME NEW s, turn' = [turn EXCEPT ![p] = s], s.pc = "picked",
                 \A u \in Todo : Kept(u)
          PROVE  Stays(q)
      BY <1>2, <1>3, <2>1, <3>2 DEF Holds, Off
    <3>3. ASSUME NEW s, Onward(p, s) PROVE Stays(q)
      <4>1. turn'[p] = s /\ (q # p => turn'[q] = turn[q])
        BY <1>3, <3>3 DEF Onward
      <4>2. Holds(q) /\ turn'[q].todo = turn[q].todo /\ turn[q].todo \in Todo
        BY <1>2, <2>1, <3>3, <4>1 DEF Onward, Holds
      <4>3. q # p /\ Holds(p) => turn[q].todo # turn[p].todo
        BY <4>2 DEF Apart
      <4> QED
        BY <2>1, <3>3, <4>1, <4>2, <4>3 DEF Onward
    <3> QED
      BY <1>5, <3>1, <3>2, <3>3, Zenon DEF Proceeds, Picks
  <2> QED
    BY <2>1, StillOwns DEF Owns, Apart, Holds, Mine
<1>6. ASSUME NEW p \in Process, Takes(p) PROVE Owns' /\ Apart'
  <2> DEFINE t == turn[p].todo
  <2>1. t \in Todo /\ todos[t] \in Row /\ todos[t].status = "open"
    BY <1>1, <1>6 DEF Takes, Claim, CanClaim, TypeInv, TypeOK
  <2>2. todos' = [todos EXCEPT ![t] = Claimed(todos[t], Identity[p])]
    BY <1>6 DEF Takes, Claim, ClaimTx, Update
  <2>3. PICK s : s.todo = t /\ s.pc \notin Off /\ turn' = [turn EXCEPT ![p] = s]
    BY <1>6 DEF Takes
  <2>4. turn'[p] = s /\ \A q \in Process \ {p} : turn'[q] = turn[q]
    BY <1>3, <2>3
  <2>5. todos'[t] = Claimed(todos[t], Identity[p]) /\ \A u \in Todo \ {t} : todos'[u] = todos[u]
    BY <1>1, <2>1, <2>2 DEF TypeInv, TypeOK
  <2>6. Held(todos'[t]) /\ todos'[t].claimedBy = Identity[p]
    <3>1. \A r \in Row, w \in Worker : Held(Claimed(r, w)) /\ Claimed(r, w).claimedBy = w
      BY Zenon DEF Row, Claimed, Held
    <3> QED
      BY <1>1, <2>1, <2>5, <3>1, TurnIsGood
  <2>7. ASSUME NEW q \in Process \ {p}, turn'[q].pc \notin Off
        PROVE  /\ Holds(q) /\ turn'[q].todo = turn[q].todo /\ turn[q].todo # t
               /\ Kept(turn[q].todo)
    <3>1. Holds(q) /\ turn'[q].todo = turn[q].todo /\ turn[q].todo \in Todo
      BY <1>2, <2>4, <2>7 DEF Holds
    <3>2. turn[q].todo # t
      BY <2>1, <3>1 DEF Owns, Mine, Held
    <3> QED
      BY <2>5, <3>1, <3>2 DEF Kept
  <2>8. Owns'
    <3> SUFFICES ASSUME NEW q \in Process, turn'[q].pc \notin Off
                 PROVE  Held(todos'[turn'[q].todo]) /\ todos'[turn'[q].todo].claimedBy = Identity[q]
      BY DEF Owns, Holds, Mine
    <3>1. CASE q = p
      BY <2>3, <2>4, <2>6, <3>1
    <3>2. CASE q # p
      BY <2>7, <3>2, StillOwns
    <3> QED
      BY <3>1, <3>2
  <2>9. Apart'
    BY <2>3, <2>4, <2>7 DEF Apart, Holds
  <2> QED
    BY <2>8, <2>9
<1> QED
  BY <1>1, <1>4, <1>5, <1>6, TurnsSteps

LEMMA OwnInvStep == OwnInv /\ [TurnsNext]_turnVars => OwnInv'
BY TurnsInvStep, OwnStep DEF OwnInv

(* A worker whose leases do not lapse under it owns its todo until it has  *)
(* written it back (run_turn): neither the user, nor the plan changes and  *)
(* write-backs of others take it away.                                     *)
THEOREM WorkersOwnTheirTurns == TurnsSpec => []TurnIsOwn
<1>1. OwnInv => TurnIsOwn
  BY DEF OwnInv, TurnIsOwn, Owns, Holds, Off, Held
<1> QED
  BY InitOwnInv, OwnInvStep, <1>1, PTL DEF TurnsSpec

-----------------------------------------------------------------------------
(* The quota.  A process reads it when it picks, and nobody counts what is *)
(* in flight: what has been picked and is not yet charged is a todo that   *)
(* exists, keeps its role, and is charged to it or let go.                 *)

Works(p) == turn[p].pc \notin {"idle", "dead"}
OnRows   == \A p \in Process : Works(p) => Present(turn[p].todo)
QuotaInv == TurnsInv /\ OnRows

Charges(p) ==
  /\ At(p, "writing") /\ DoneTx(turn[p].todo)
  /\ turn' = [turn EXCEPT ![p] = Rest]
Sheds == \A p \in Process : Works(p)' => Works(p) /\ turn'[p].todo = turn[p].todo
Adds(p, t) ==
  /\ \A q \in Process \ {p} : turn'[q] = turn[q]
  /\ t \in Todo /\ turn'[p].todo = t /\ Ready(todos', t) /\ QuotaRead(t)

(* Who writes the table quota: the write-back of a done todo, which lets   *)
(* the todo go in the same step, and whoever operates the fleet.           *)
LEMMA QuotaOfTurns ==
  ASSUME [TurnsNext]_turnVars
  PROVE  \/ quota' = quota
         \/ \E p \in Process : Charges(p)
         \/ turn' = turn /\ (Operate \/ NewDay)
<1>1. ASSUME NEW p \in Process, Pick(p) \/ Heartbeat(p) \/ Crash(p) \/ Restart(p)
      PROVE  quota' = quota
  BY <1>1 DEF Pick, Poll, RequeueTx, TakeClaim, ClaimTx, StartRunning, MarkTx, Try,
              Heartbeat, RenewLease, RenewTx, Crash, Restart, vars
<1>2. ASSUME NEW p \in Process, Think(p) PROVE quota' = quota
  BY <1>2 DEF Think, StartVerifying, RenewOnce, NoPlanner, Gate, NoAnswer, ReceivePlan,
              CreatePlanned, CreateTodo, EndPlan, ReceiveDiff, ChangePlan, ApplyPlanDiff,
              DecideTx, ProposeTx, MarkTx, RenewTx, Try, vars
<1>3. ASSUME NEW p \in Process, Writeback(p) PROVE quota' = quota
  BY <1>3 DEF Writeback, ReadWriteback, MarkWriteback, GateWriteback, GiveUp, MarkTx, Try, vars
<1>4. ASSUME NEW p \in Process, Write(p) PROVE quota' = quota \/ Charges(p)
  BY <1>4 DEF Write, Try, Become, WriteSuccessor, SuccessorTx, WaitTx, Charges, vars
<1>5. ASSUME NEW t \in Todo, Lapse(t) PROVE quota' = quota
  BY <1>5 DEF Lapse, LapseLease
<1>6. CASE User
  BY <1>6 DEF User, GoalsCreate, GoalsFreeze, CreateGoalWithPlan, CreateGoal, FreezeGoal, FreezeTx,
              SteerCreate, AddTodo, CreateTodo, TodosReopen, Reopen, ReopenTx, PlanDecide,
              ApplyPlanDiff, DecideTx
<1>7. CASE UNCHANGED turnVars
  BY <1>7 DEF turnVars
<1> QED
  BY <1>1, <1>2, <1>3, <1>4, <1>5, <1>6, <1>7 DEF TurnsNext, Advance

(* A step lets todos go, or one process adds one for which there is quota. *)
LEMMA WorkSteps ==
  ASSUME TypeInv, TurnTyped, [TurnsNext]_turnVars
  PROVE  Sheds \/ \E p \in Process, t \in Todo : Adds(p, t)
<1>1. ASSUME NEW p \in Process, NEW s, turn' = [turn EXCEPT ![p] = s]
      PROVE  turn'[p] = s /\ \A q \in Process \ {p} : turn'[q] = turn[q]
  BY <1>1 DEF TurnTyped
<1>2. turn' = turn => Sheds
  BY DEF Sheds, Works
<1>3. ASSUME NEW p \in Process, Proceeds(p) PROVE Sheds
  <2>1. PICK s : Onward(p, s)
    BY <1>3 DEF Proceeds
  <2> QED
    BY <1>1, <2>1 DEF Onward, Sheds, Works, Off, Holds
<1>4. ASSUME NEW p \in Process, Takes(p) PROVE Sheds
  <2>1. PICK s : s.todo = turn[p].todo /\ turn' = [turn EXCEPT ![p] = s]
    BY <1>4 DEF Takes
  <2>2. Works(p)
    BY <1>4 DEF Takes, At, Works
  <2> QED
    BY <1>1, <2>1, <2>2 DEF Sheds, Works
<1>5. ASSUME NEW p \in Process, Picks(p)
      PROVE  Sheds \/ \E t \in Todo : Adds(p, t)
  BY <1>1, <1>2, <1>5 DEF Picks, Adds
<1> QED
  BY <1>2, <1>3, <1>4, <1>5, TurnsSteps DEF Passes

(* A todo that exists goes on existing, in its role.                       *)
LEMMA RowStays ==
  ASSUME TypeInv, [Call]_vars, NEW t \in Todo, Present(t)
  PROVE  Present(t)' /\ todos'[t].spec.role = todos[t].spec.role
<1>1. TypeInv' /\ Moves /\ NewRows
  BY TypeInvStep, StepMoves, StepNewRows
<1>2. t <= created' /\ t \in Nat
  BY SMTT(20), <1>1 DEF NewRows, TypeInv, TypeOK, Present
<1>3. Present(t)'
  BY <1>1, <1>2 DEF TypeInv, TypeOK, Present
<1> QED
  BY <1>1, <1>3 DEF Moves, RowMove, ClaimMove

LEMMA InitQuotaInv == TurnsInit => QuotaInv
<1> SUFFICES ASSUME TurnsInit PROVE QuotaInv
  OBVIOUS
<1>1. \A p \in Process : ~Works(p)
  BY DEF TurnsInit, Works, Rest
<1> QED
  BY <1>1, InitTurnsInv DEF QuotaInv, OnRows

LEMMA QuotaInvStep == QuotaInv /\ [TurnsNext]_turnVars => QuotaInv'
<1> SUFFICES ASSUME QuotaInv, [TurnsNext]_turnVars PROVE QuotaInv'
  OBVIOUS
<1>1. TypeInv /\ TurnTyped /\ TurnsInv' /\ [Call]_vars
  BY TurnsInvStep, TurnIsCall DEF QuotaInv, TurnsInv
<1> SUFFICES ASSUME NEW q \in Process, Works(q)' PROVE Present(turn[q].todo)'
  BY <1>1 DEF QuotaInv, OnRows
<1>2. CASE Works(q) /\ turn'[q].todo = turn[q].todo
  <2>1. turn[q].todo \in Todo /\ Present(turn[q].todo)
    BY <1>1, <1>2, TurnIsGood DEF QuotaInv, OnRows, Good, Busy, Works
  <2>2. \A t \in Todo : Present(t) => todos'[t].status # "absent"
    BY <1>1, RowStays DEF Present
  <2> QED
    BY <1>2, <2>1, <2>2 DEF Present
<1>3. ASSUME NEW p \in Process, NEW t \in Todo, Adds(p, t), q = p PROVE Present(turn[q].todo)'
  BY <1>3 DEF Adds, Ready, Present
<1>4. ASSUME NEW p \in Process, NEW t \in Todo, Adds(p, t), q # p
      PROVE  Works(q) /\ turn'[q].todo = turn[q].todo
  BY <1>4 DEF Adds, Works
<1> QED
  BY <1>1, <1>2, <1>3, <1>4, WorkSteps DEF Sheds

(* Whoever lets nothing new in takes nothing of another key over.          *)
LEMMA ChargingShrinks ==
  ASSUME QuotaInv, [TurnsNext]_turnVars, NEW key \in Key, NEW q \in Process,
         q \in Charging(key)', turn'[q].todo = turn[q].todo, Works(q)
  PROVE  q \in Charging(key)
<1>1. TypeInv /\ TurnTyped /\ [Call]_vars
  BY TurnIsCall DEF QuotaInv, TurnsInv
<1>2. turn[q].todo \in Todo /\ Present(turn[q].todo)
  BY <1>1, TurnIsGood DEF QuotaInv, OnRows, Good, Busy, Works
<1>3. todos'[turn[q].todo].spec.role = todos[turn[q].todo].spec.role
  BY <1>1, <1>2, RowStays
<1> QED
  BY <1>3 DEF Charging, Mine, Works

LEMMA ChargingFinite ==
  ASSUME IsFiniteSet(Process), NEW key \in Key
  PROVE  /\ IsFiniteSet(Charging(key)) /\ Cardinality(Charging(key)) \in Nat
         /\ IsFiniteSet(Charging(key)') /\ Cardinality(Charging(key)') \in Nat
         /\ Cardinality(Charging(key)') <= Cardinality(Process)
         /\ Cardinality(Process) \in Nat
<1>1. Charging(key) \subseteq Process /\ Charging(key)' \subseteq Process
  BY DEF Charging
<1> QED
  BY <1>1, FS_Subset, FS_CardinalityType

LEMMA OverrunStep ==
  ASSUME IsFiniteSet(Process), QuotaInv, [TurnsNext]_turnVars,
         NEW key \in Key, quota[key].limit # 0, quota'[key].limit = quota[key].limit
  PROVE  \/ Promised(key)' <= Promised(key)
         \/ Promised(key)' < quota[key].limit + Cardinality(Process)
<1> DEFINE C == Charging(key)
           D == Charging(key)'
           used == quota[key].used
           new  == quota'[key].used
<1>1. TypeInv /\ TurnTyped /\ [Call]_vars /\ TypeInv'
  BY TurnIsCall, TypeInvStep DEF QuotaInv, TurnsInv
<1>2. quota \in [Key -> [used : Nat, limit : Nat]] /\ used \in Nat /\ quota[key].limit \in Nat
      /\ new \in Nat
  BY <1>1 DEF TypeInv, TypeOK
<1>3. /\ IsFiniteSet(C) /\ Cardinality(C) \in Nat
      /\ IsFiniteSet(D) /\ Cardinality(D) \in Nat
      /\ Cardinality(D) <= Cardinality(Process) /\ Cardinality(Process) \in Nat
  BY ChargingFinite
<1>4. Promised(key) = used + Cardinality(C) /\ Promised(key)' = new + Cardinality(D)
  BY DEF Promised
<1>5. CASE Sheds
  <2>1. D \subseteq C
    <3>1. \A q \in D : q \in Process /\ Works(q)'
      BY DEF Charging, Works
    <3> QED
      BY <1>5, <3>1, ChargingShrinks DEF Sheds
  <2>2. Cardinality(D) <= Cardinality(C)
    BY <1>3, <2>1, FS_Subset
  <2>3. CASE quota' = quota
    BY <1>2, <1>3, <1>4, <2>2, <2>3
  <2>4. CASE turn' = turn /\ (Operate \/ NewDay)
    <3>1. new <= used
      <4>1. CASE NewDay
        BY <1>2, <4>1 DEF NewDay
      <4>2. ASSUME NEW k \in Key, NEW limit \in Limits, SetQuota(k, limit) PROVE new = used
        BY <1>2, <4>2 DEF SetQuota
      <4> QED
        BY <1>2, <2>4, <4>1, <4>2 DEF Operate
    <3> QED
      BY <1>2, <1>3, <1>4, <2>2, <3>1
  <2>5. ASSUME NEW p \in Process, Charges(p) PROVE Promised(key)' <= Promised(key)
    <3> DEFINE k == QuotaKey(Mine(p).spec.role)
    <3>1. Works(p) /\ turn[p].todo \in Todo
      BY <1>1, <2>5, TurnIsGood DEF Charges, At, Works, Good, Busy
    <3>2. k \in Key
      <4>1. Mine(p).spec.role \in Role \cup {NoRole}
        BY <1>1, <3>1, Zenon DEF Mine, TypeInv, TypeOK, Row, Content
      <4> QED
        BY <4>1 DEF QuotaKey
    <3>3. quota' = [quota EXCEPT ![k].used = @ + 1]
      BY <2>5 DEF Charges, DoneTx, Charge, Mine
    <3>4. p \notin D
      <4>1. turn'[p].pc = "idle"
        BY <1>1, <2>5 DEF Charges, TurnTyped, Rest
      <4> QED
        BY <4>1 DEF Charging
    <3>5. CASE k = key
      <4>1. p \in C
        BY <3>1, <3>5 DEF Charging, Works
      <4>2. Cardinality(C \ {p}) = Cardinality(C) - 1 /\ IsFiniteSet(C \ {p})
        BY <1>3, <4>1, FS_RemoveElement
      <4>3. Cardinality(D) <= Cardinality(C) - 1
        <5>1. D \in SUBSET (C \ {p})
          BY <2>1, <3>4
        <5> QED
          BY <4>2, <5>1, FS_Subset
      <4>4. new = used + 1
        BY <1>2, <3>2, <3>3, <3>5
      <4> QED
        BY <1>2, <1>3, <1>4, <4>3, <4>4
    <3>6. CASE k # key
      <4>1. new = used
        BY <1>2, <3>2, <3>3, <3>6
      <4> QED
        BY <1>2, <1>3, <1>4, <2>2, <4>1
    <3> QED
      BY <3>5, <3>6
  <2> QED
    BY <2>3, <2>4, <2>5, QuotaOfTurns
<1>6. ASSUME NEW p \in Process, NEW t \in Todo, Adds(p, t)
      PROVE  \/ Promised(key)' <= Promised(key)
             \/ Promised(key)' < quota[key].limit + Cardinality(Process)
  <2>1. new = used
    BY <1>6 DEF Adds, QuotaRead
  <2>2. CASE p \in D
    <3>1. QuotaKey(todos'[t].spec.role) = key
      BY <1>6, <2>2 DEF Adds, Charging, Mine
    <3>2. used < quota[key].limit
      BY <1>6, <3>1 DEF Adds, QuotaRead, QuotaLeft
    <3> QED
      BY <1>2, <1>3, <1>4, <2>1, <3>2
  <2>3. CASE p \notin D
    <3>1. ASSUME NEW q \in D PROVE q \in C
      <4>1. q \in Process \ {p} /\ turn'[q] = turn[q] /\ turn'[q].pc \notin {"idle", "dead"}
        BY <1>6, <2>3, <3>1 DEF Adds, Charging
      <4>2. Works(q)
        BY <4>1 DEF Works
      <4> QED
        BY <3>1, <4>1, <4>2, ChargingShrinks
    <3>2. Cardinality(D) <= Cardinality(C)
      BY <1>3, <3>1, FS_Subset
    <3> QED
      BY <1>2, <1>3, <1>4, <2>1, <3>2
  <2> QED
    BY <2>2, <2>3
<1> QED
  BY <1>1, <1>5, <1>6, WorkSteps

(* Checking the quota when a todo is listed and charging it when it is     *)
(* done (claimable, transition) oversteps a limit by at most what the      *)
(* other processes have picked before: with N processes, by N - 1.         *)
THEOREM OverrunIsBounded == IsFiniteSet(Process) => (TurnsSpec => OverrunBounded)
<1> SUFFICES ASSUME IsFiniteSet(Process) PROVE TurnsSpec => OverrunBounded
  OBVIOUS
<1> DEFINE Bounded ==
             \A key \in Key :
               quota[key].limit # 0 /\ quota'[key].limit = quota[key].limit
                 => \/ Promised(key)' <= Promised(key)
                    \/ Promised(key)' < quota[key].limit + Cardinality(Process)
<1>1. QuotaInv /\ [TurnsNext]_turnVars => [Bounded]_turnVars
  BY OverrunStep
<1> QED
  BY InitQuotaInv, QuotaInvStep, <1>1, PTL DEF TurnsSpec, OverrunBounded

-----------------------------------------------------------------------------
(* What is proved of Kernel holds when workers, planner and host sessions  *)
(* make the calls.                                                         *)

CallsInv == TurnsInv /\ LineageInv /\ GoalInv

LEMMA InitCallsInv == TurnsInit => CallsInv
BY InitTurnsInv, InitLineageInv, InitGoalInv DEF TurnsInit, CallsInv

LEMMA CallsInvStep == CallsInv /\ [TurnsNext]_turnVars => CallsInv'
<1>1. CallsInv /\ [TurnsNext]_turnVars => [Call]_vars
  BY TurnIsCall DEF CallsInv, TurnsInv
<1> QED
  BY <1>1, TurnsInvStep, LineageInvStep, GoalInvStep DEF CallsInv

(* The tables stay well formed and claims consistent, rework ends in a     *)
(* chain that is paid for, and goals close, whatever the processes do.     *)
THEOREM TurnsKeepTheTables ==
  TurnsSpec => [](TypeOK /\ ClaimConsistent /\ LineagePaid /\ LineageBounded
                    /\ LineageIsChain /\ GoalCloses)
<1>1. CallsInv => TypeOK /\ ClaimConsistent /\ LineagePaid /\ LineageBounded
                    /\ LineageIsChain /\ GoalCloses
  BY DEF CallsInv, TypeInv, LineageInv, GoalInv, GoalOK, GoalCloses
<1> QED
  BY InitCallsInv, CallsInvStep, <1>1, PTL DEF TurnsSpec

(* Settled work stays settled, verified work alone is charged, and nobody  *)
(* takes a claim over, whatever the processes do.                          *)
THEOREM TurnsKeepTheRules == TurnsSpec => SettledFinal /\ ChargedOnce /\ NoTakeover
<1> DEFINE Rules ==
             /\ \A t \in Todo : todos[t].status \in Settled => todos'[t].status = todos[t].status
             /\ Charged
             /\ \A t \in Todo : todos[t].status \in InFlight /\ todos'[t].status \in InFlight
                                  => todos'[t].claimedBy = todos[t].claimedBy
<1>1. TypeInv /\ [Call]_vars => [Rules]_vars
  BY StepMoves, ChargedStep DEF Moves, RowMove, ClaimMove, Present
<1>2. TurnsInv /\ [TurnsNext]_turnVars => [Rules]_vars
  BY <1>1, TurnIsCall DEF TurnsInv
<1> QED
  BY InitTurnsInv, TurnsInvStep, <1>2, PTL
     DEF TurnsSpec, SettledFinal, ChargedOnce, Charged, NoTakeover

(* Whatever the processes do, a lineage is one piece of work.              *)
THEOREM TurnsImplementWorkItems == TurnsSpec => LineageIsWorkItem
<1>1. CallsInv /\ [TurnsNext]_turnVars => [WorkItem!Next]_items
  BY TurnIsCall, ItemsStep DEF CallsInv, TurnsInv
<1>2. TurnsInit => WorkItem!Init
  BY InitItems DEF TurnsInit
<1> QED
  BY InitCallsInv, CallsInvStep, <1>1, <1>2, PTL DEF TurnsSpec, LineageIsWorkItem, WorkItem!Spec

=============================================================================
