----------------------------- MODULE KernelCalls -----------------------------
(***************************************************************************)
(* The calls of class Kernel as several processes make them.               *)
(*                                                                         *)
(* Every thread has a connection of its own (fleet/kernel/store.py) with   *)
(* isolation_level IMMEDIATE: the sqlite3 module begins the transaction    *)
(* before the first INSERT or UPDATE, so the SELECT a method starts with   *)
(* runs on its own, and other threads can commit between it and the        *)
(* transaction.  A call is therefore two steps: Read checks the guard on   *)
(* the row as it is, Commit runs the transaction on the row as it then is. *)
(***************************************************************************)
EXTENDS Kernel

CONSTANTS
  Calls,     (* bound: the calls each thread makes, by their op below       *)
  MaxClaims  (* bound: claims of one lineage, at most MaxRounds             *)

VARIABLE pending  \* the call each thread has read for and not yet written

callVars == <<todos, created, goals, rounds, quota, pending>>

(* A thread is known by the identity it claims with.                       *)
Thread == Worker
Idle == [op |-> "idle"]
On(op, t) == [op |-> op, todo |-> t]

Enter(c, call) ==
  /\ pending[c] = Idle
  /\ call.op \in Calls[c]
  /\ pending' = [pending EXCEPT ![c] = call]
  /\ UNCHANGED vars

Leave(c) == pending' = [pending EXCEPT ![c] = Idle]

-----------------------------------------------------------------------------
(* The reads.  What the transaction takes from them besides the todo goes  *)
(* along: the todos found expired, whether the lineage is exhausted, the   *)
(* plan change in the packet and whether the todo was in flight.           *)

ReadClaim(c, t)   ==
  /\ CanClaim(todos[t]) /\ rounds[todos[t].lineage] < MaxClaims
  /\ Enter(c, On("claim", t))
ReadRenew(c, t)   == CanRenew(todos[t], c) /\ Enter(c, On("renew", t))
ReadRun(c, t)     == CanRun(todos[t], c) /\ Enter(c, On("run", t))
ReadVerify(c, t)  == CanVerify(todos[t], c) /\ Enter(c, On("verify", t))
ReadReopen(c, t)  == CanReopen(todos[t]) /\ Enter(c, On("reopen", t))

ReadDone(c, t, evidence) == CanFinish(todos[t], evidence) /\ Enter(c, On("done", t))
ReadWait(c, t, verdict)  == CanWriteBack(todos[t]) /\ Enter(c, On(verdict, t))
ReadSuccessor(c, t) ==
  /\ CanWriteBack(todos[t])
  /\ Enter(c, On(IF Exhausted(todos[t]) THEN "needs_user" ELSE "successor", t))

ReadPropose(c, t, diff) ==
  /\ todos[t].spec.kind = "steer" /\ CanWriteBack(todos[t])
  /\ Enter(c, [op |-> "propose", todo |-> t, diff |-> diff])
ReadDecide(c, t, decision) ==
  /\ CanDecide(todos[t])
  /\ Enter(c, [op |-> decision, todo |-> t, diff |-> todos[t].diff,
               auto |-> todos[t].status # "needs_user"])

ReadExpired(c) ==
  /\ Expired(todos) # {}
  /\ Enter(c, [op |-> "requeue", expired |-> Expired(todos)])

ReadFreeze(c, g) == CanFreeze(goals[g]) /\ Enter(c, [op |-> "freeze", goal |-> g])

-----------------------------------------------------------------------------
(* The transactions.                                                       *)

CommitOn(c) ==
  LET p == pending[c] IN
  \/ p.op = "claim"     /\ ClaimTx(p.todo, c)
  \/ p.op = "renew"     /\ RenewTx(p.todo)
  \/ p.op = "run"       /\ MarkTx(p.todo, "running")
  \/ p.op = "verify"    /\ MarkTx(p.todo, "verifying")
  \/ p.op = "reopen"    /\ ReopenTx(p.todo)
  \/ p.op = "done"      /\ DoneTx(p.todo)
  \/ p.op \in Waiting   /\ WaitTx(p.todo, p.op)
  \/ p.op = "successor" /\ SuccessorTx(p.todo, todos[p.todo].spec)
  \/ p.op = "propose"   /\ ProposeTx(p.todo, p.diff)
  \/ p.op \in {"approved", "rejected"} /\ DecideTx(p.todo, p.op, p.diff, p.auto)
  \/ p.op = "requeue"   /\ RequeueTx(p.expired)
  \/ p.op = "freeze"    /\ FreezeTx(p.goal)

Commit(c) == CommitOn(c) /\ Leave(c)

(* The process dies between the two; nothing was written.                  *)
Die(c) == pending[c] # Idle /\ Leave(c) /\ UNCHANGED vars

-----------------------------------------------------------------------------
CallsInit == Init /\ pending = [c \in Thread |-> Idle]

Read(c) ==
  \/ \E t \in Todo :
       \/ ReadClaim(c, t) \/ ReadRenew(c, t) \/ ReadRun(c, t) \/ ReadVerify(c, t)
       \/ ReadReopen(c, t) \/ ReadSuccessor(c, t)
       \/ \E evidence \in BOOLEAN : ReadDone(c, t, evidence)
       \/ \E verdict \in Waiting : ReadWait(c, t, verdict)
       \/ \E diff \in Diffs : ReadPropose(c, t, diff)
       \/ \E decision \in {"approved", "rejected"} : ReadDecide(c, t, decision)
  \/ ReadExpired(c)
  \/ \E g \in Goal : ReadFreeze(c, g)

(* Calls that read nothing first, and time.                                *)
Alone ==
  /\ UNCHANGED pending
  /\ \/ \E g \in Goal : \/ CreateGoal(g, FALSE) \/ CreateGoalWithPlan(g)
                        \/ \E spec \in Specs : CreateTodo(g, spec)
     \/ \E t \in Todo : LapseLease(t)

CallsNext == Alone \/ \E c \in Thread : Read(c) \/ Commit(c) \/ Die(c)

CallsSpec == CallsInit /\ [][CallsNext]_callVars

-----------------------------------------------------------------------------

(* LineageBounded and LineagePaid of Kernel hold here too: attempts are    *)
(* counted in the transaction of the claim.  NoTakeover does not: claim    *)
(* and the write-backs do not look again at what they read.                *)

=============================================================================
