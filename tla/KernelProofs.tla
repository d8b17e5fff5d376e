----------------------------- MODULE KernelProofs -----------------------------
(***************************************************************************)
(* Proofs about Kernel for every set of goals, workers, roles and todo     *)
(* contents and every value of the limits: the tables are well formed and  *)
(* claims consistent; work is charged once and goals are closed; what a    *)
(* call may do to the rows there are and which rows it may add, and from   *)
(* that, that settled todos stay settled, that a claim is not taken over,  *)
(* that rework ends, and that a lineage is a piece of work of WorkItems.   *)
(***************************************************************************)
EXTENDS Kernel, KernelItems, SequenceTheorems, FiniteSetTheorems, WellFoundedInduction, TLAPS

USE KernelAssumption DEF Todo, Key, Nobody, NoRole, Kinds, InFlight, Settled, Waiting, Statuses

-----------------------------------------------------------------------------
(* Facts about the rows the calls write.                                   *)

LEMMA NoDiffType == NoDiff \in Diff
<1>1. <<>> \in Seq(Content)
  BY EmptySeq
<1>2. NoPatch \in [{} -> Patch]
  BY DEF NoPatch, Patch
<1>3. NoPatch \in UNION {[D -> Patch] : D \in SUBSET Todo}
  <2>1. {} \in SUBSET Todo
    OBVIOUS
  <2> QED
    BY <1>2, <2>1, Zenon
<1> QED
  BY <1>1, <1>3 DEF NoDiff, Diff

LEMMA PlanSpecType == PlanSpec \in Content
BY DEF PlanSpec, Content

LEMMA NewRowType ==
  ASSUME NEW g \in Goal, NEW spec \in Content, NEW lineage \in Todo, NEW gen \in Nat
  PROVE  /\ NewRow(g, spec, lineage, gen) \in Row
         /\ ClaimOK(NewRow(g, spec, lineage, gen))
BY NoDiffType DEF NewRow, Row, ClaimOK

(* Every UPDATE keeps a row well formed, and leaves the claim columns      *)
(* consistent when the call's guard held.                                  *)
LEMMA UpdateTypes ==
  ASSUME NEW r \in Row, ClaimOK(r)
  PROVE  /\ \A w \in Worker : CanClaim(r) => Claimed(r, w) \in Row /\ ClaimOK(Claimed(r, w))
         /\ IsExpired(r) => Requeued(r) \in Row /\ ClaimOK(Requeued(r))
         /\ \A s \in Settled \cup Waiting : Ended(r, s) \in Row /\ ClaimOK(Ended(r, s))
         /\ CanReopen(r) => Reopened(r) \in Row /\ ClaimOK(Reopened(r))
         /\ \A d \in Diff : Proposed(r, d) \in Row /\ ClaimOK(Proposed(r, d))
<1>0. 0 \in 0..2 /\ 1 \in 0..2 /\ 2 \in 0..2
  OBVIOUS
<1>1. \A w \in Worker : CanClaim(r) => Claimed(r, w) \in Row /\ ClaimOK(Claimed(r, w))
  BY <1>0, Zenon DEF Row, ClaimOK, CanClaim, Claimed
<1>2. IsExpired(r) => Requeued(r) \in Row /\ ClaimOK(Requeued(r))
  BY <1>0, Zenon DEF Row, ClaimOK, IsExpired, Requeued
<1>3. \A s \in Settled \cup Waiting : Ended(r, s) \in Row /\ ClaimOK(Ended(r, s))
  BY <1>0, Zenon DEF Row, ClaimOK, Ended
<1>4. CanReopen(r) => Reopened(r) \in Row /\ ClaimOK(Reopened(r))
  BY <1>0, Zenon DEF Row, ClaimOK, Reopened, CanReopen
<1>5. \A d \in Diff : Proposed(r, d) \in Row /\ ClaimOK(Proposed(r, d))
  BY <1>0, Zenon DEF Row, ClaimOK, Proposed
<1> QED
  BY <1>1, <1>2, <1>3, <1>4, <1>5

-----------------------------------------------------------------------------
(* Rows stay well formed and claims consistent: the inductive part.        *)

TypeInv == TypeOK /\ ClaimConsistent

(* What remains of TypeInv when goals, rounds and quota are left aside.    *)
RowsOK ==
  /\ todos \in [Todo -> Row]
  /\ created \in 0..MaxTodo
  /\ \A t \in Todo : Present(t) <=> t <= created
  /\ ClaimConsistent

(* One row is replaced by a good one.                                      *)
LEMMA ReplaceRow ==
  ASSUME TypeInv, NEW t \in Todo, Present(t),
         NEW row \in Row, ClaimOK(row), row.status # "absent",
         Update(t, row), created' = created
  PROVE  RowsOK'
BY DEF TypeInv, TypeOK, RowsOK, ClaimConsistent, Present, Update

(* A new row gets the next id.                                             *)
LEMMA InsertRow ==
  ASSUME TypeInv, NEW g \in Goal, NEW spec \in Content, Insert(g, spec)
  PROVE  RowsOK'
<1> DEFINE n   == created + 1
           row == NewRow(g, spec, n, 1)
<1>1. n \in Todo /\ n \notin 1..created /\ created' = n /\ 1 \in Nat
  BY DEF TypeInv, TypeOK, Insert
<1>2. row \in Row /\ ClaimOK(row) /\ row.status = "open"
  BY <1>1, NewRowType DEF NewRow
<1>3. todos' = [todos EXCEPT ![n] = row]
  BY DEF Insert, Update
<1> HIDE DEF row
<1>4. todos' \in [Todo -> Row] /\ ClaimConsistent'
  BY <1>1, <1>2, <1>3 DEF TypeInv, TypeOK, ClaimConsistent
<1>5. \A t \in Todo : Present(t)' <=> t <= created'
  BY <1>1, <1>2, <1>3 DEF TypeInv, TypeOK, Present
<1> QED
  BY <1>1, <1>4, <1>5 DEF RowsOK

LEMMA InitTypeInv == Init => TypeInv
<1> SUFFICES ASSUME Init PROVE TypeInv
  OBVIOUS
<1> DEFINE g0 == CHOOSE g \in Goal : TRUE
<1>1. g0 \in Goal
  OBVIOUS
<1>2. \A t \in Todo : NewRow(g0, PlanSpec, t, 1) \in Row
  BY <1>1, PlanSpecType, NewRowType
<1> HIDE DEF g0
<1>3. \A t \in Todo : todos[t] = [NewRow(g0, PlanSpec, t, 1) EXCEPT !.status = "absent"]
  BY DEF Init, g0
<1>4. \A t \in Todo : /\ todos[t] \in Row
                      /\ todos[t].status = "absent"
                      /\ todos[t].lease = "none" /\ todos[t].openAttempts = 0
  <2> SUFFICES ASSUME NEW t \in Todo
               PROVE  /\ todos[t] \in Row
                      /\ todos[t].status = "absent"
                      /\ todos[t].lease = "none" /\ todos[t].openAttempts = 0
    OBVIOUS
  <2> DEFINE r == NewRow(g0, PlanSpec, t, 1)
  <2>1. r \in Row /\ r.lease = "none" /\ r.openAttempts = 0
    BY <1>2 DEF NewRow
  <2>2. todos[t] = [r EXCEPT !.status = "absent"]
    BY <1>3
  <2> HIDE DEF r
  <2> QED
    BY <2>1, <2>2, Zenon DEF Row
<1>5. todos \in [Todo -> Row]
  BY <1>4 DEF Init
<1>6. \A t \in Todo : Present(t) <=> t <= created
  BY <1>4 DEF Present, Init
<1>7. ClaimConsistent
  BY <1>4 DEF ClaimConsistent, ClaimOK
<1>8. /\ created \in 0..MaxTodo
      /\ goals \in [Goal -> [status : {"absent", "active", "done"}, frozen : BOOLEAN]]
      /\ rounds \in [Todo -> Nat]
      /\ quota \in [Key -> [used : Nat, limit : Nat]]
  BY DEF Init
<1> QED
  BY <1>5, <1>6, <1>7, <1>8 DEF TypeInv, TypeOK

(* A plan change adds good rows and leaves the others good.                *)
LEMMA AddedType ==
  ASSUME created \in Nat, NEW diff \in Diff, NEW n \in 1..Len(diff.add),
         created + Len(diff.add) <= MaxTodo, NEW g \in Goal
  PROVE  /\ created + n \in Todo
         /\ Added(diff, g, n) \in Row
         /\ ClaimOK(Added(diff, g, n))
         /\ Added(diff, g, n).status = "open"
<1>1. diff.add \in Seq(Content)
  BY DEF Diff
<1>2. Len(diff.add) \in Nat /\ diff.add[n] \in Content
  BY <1>1, ElementOfSeq, LenProperties
<1>3. created \in Nat /\ created + n \in Todo
  BY <1>2
<1>4. Resolve(diff, diff.add[n].deps) \in SUBSET Ref
  <2>1. ASSUME NEW d \in diff.add[n].deps
        PROVE  (IF -d \in 1..Len(diff.add) THEN created - d ELSE d) \in Ref
    <3>1. d \in Ref
      BY <1>2 DEF Content
    <3> QED
      BY <3>1, <1>2, <1>3 DEF Ref
  <2> QED
    BY <2>1 DEF Resolve
<1> DEFINE spec == [diff.add[n] EXCEPT !.kind = "exec", !.deps = Resolve(diff, @)]
<1>5. spec \in Content
  BY <1>2, <1>4, Zenon DEF Content
<1>6. Added(diff, g, n) = NewRow(g, spec, created + n, 1)
  BY DEF Added
<1>7. Added(diff, g, n).status = "open"
  BY <1>6 DEF NewRow
<1> HIDE DEF spec
<1> QED
  BY <1>3, <1>5, <1>6, <1>7, NewRowType

LEMMA ChangedType ==
  ASSUME todos \in [Todo -> Row], NEW diff \in Diff, NEW t \in Todo, NEW u \in Todo
  PROVE  /\ Changed(diff, todos, u, t) \in Row
         /\ ClaimOK(todos[u]) => ClaimOK(Changed(diff, todos, u, t))
         /\ Changed(diff, todos, u, t).status = "absent" <=> todos[u].status = "absent"
<1> DEFINE r == todos[u]
<1>1. r \in Row
  OBVIOUS
<1>2. CASE ~Touchable(todos, u, t)
  BY <1>1, <1>2 DEF Changed
<1>3. CASE Touchable(todos, u, t) /\ u \in diff.cancel
  <2>1. Changed(diff, todos, u, t) = [r EXCEPT !.status = "superseded"]
    BY <1>3 DEF Changed
  <2>2. r.status \notin InFlight /\ r.status # "absent"
    BY <1>3 DEF Touchable
  <2> HIDE DEF r
  <2>3. [r EXCEPT !.status = "superseded"] \in Row
    BY <1>1, Zenon DEF Row
  <2>4. ClaimOK(r) => ClaimOK([r EXCEPT !.status = "superseded"])
    BY <1>1, <2>2, Zenon DEF Row, ClaimOK
  <2> QED
    BY <2>1, <2>2, <2>3, <2>4, Zenon DEF Row, r
<1>4. CASE Touchable(todos, u, t) /\ u \notin diff.cancel /\ u \in DOMAIN diff.modify
  <2> DEFINE spec == [r.spec EXCEPT !.files = diff.modify[u].files,
                                    !.verify = diff.modify[u].verify]
  <2>1. Changed(diff, todos, u, t) = [r EXCEPT !.spec = spec]
    BY <1>1, <1>4, Zenon DEF Changed, Row, Content
  <2>2. diff.modify[u] \in Patch
    BY <1>4 DEF Diff
  <2>3. spec \in Content
    BY <1>1, <2>2, Zenon DEF Row, Content, Patch
  <2> HIDE DEF spec, r
  <2>4. [r EXCEPT !.spec = spec] \in Row
    BY <1>1, <2>3, Zenon DEF Row
  <2>5. ClaimOK(r) => ClaimOK([r EXCEPT !.spec = spec])
    BY <1>1, Zenon DEF Row, ClaimOK
  <2>6. [r EXCEPT !.spec = spec].status = r.status
    BY <1>1, Zenon DEF Row
  <2> QED
    BY <2>1, <2>4, <2>5, <2>6 DEF r
<1>5. CASE Touchable(todos, u, t) /\ u \notin diff.cancel /\ u \notin DOMAIN diff.modify
  BY <1>1, <1>5 DEF Changed
<1> QED
  BY <1>2, <1>3, <1>4, <1>5

LEMMA PlanDiffRows ==
  ASSUME TypeInv, NEW t \in Todo, NEW decision \in {"approved", "rejected"},
         NEW diff \in Diff, ApplyPlanDiff(t, decision, diff)
  PROVE  RowsOK'
<1> DEFINE r  == todos[t]
           k  == Len(diff.add)
           ts == IF decision = "approved" THEN Approved(diff, t) ELSE todos
           d  == [r EXCEPT !.decision = decision]
           new == IF r.status # "needs_user" THEN d ELSE Closed(d)
<1>1. k \in Nat /\ created \in Nat /\ created <= MaxTodo
  BY LenProperties DEF Diff, TypeInv, TypeOK
<1>2. r \in Row /\ ClaimOK(r) /\ r.status \in InFlight \cup {"needs_user"} /\ t <= created
  BY DEF ApplyPlanDiff, DecideTx, CanDecide, TypeInv, TypeOK, ClaimConsistent, Present
<1>3. /\ new \in Row /\ ClaimOK(new) /\ new.status # "absent"
  <2> HIDE DEF r
  <2>1. d \in Row /\ ClaimOK(d) /\ d.status = r.status
    BY <1>2, Zenon DEF Row, ClaimOK
  <2> HIDE DEF d
  <2>2. CASE r.status = "needs_user"
    BY <2>1, <2>2, Zenon DEF Row, ClaimOK, Closed
  <2>3. CASE r.status # "needs_user"
    BY <1>2, <2>1, <2>3
  <2> QED
    BY <2>2, <2>3
<1>4. todos' = [ts EXCEPT ![t] = new]
  BY DEF ApplyPlanDiff, DecideTx
<1>5. CASE decision = "rejected"
  <2>1. ts = todos /\ created' = created
    BY <1>5 DEF ApplyPlanDiff, DecideTx
  <2>2. Update(t, new)
    BY <1>4, <2>1 DEF Update
  <2>3. Present(t)
    BY <1>2 DEF Present
  <2> HIDE DEF new
  <2> QED
    BY <1>3, <2>1, <2>2, <2>3, ReplaceRow
<1>6. CASE decision = "approved"
  <2>1. created' = created + k /\ created' <= MaxTodo /\ ts = Approved(diff, t)
    BY <1>6 DEF ApplyPlanDiff, DecideTx
  <2>2. ASSUME NEW u \in Todo
        PROVE  /\ ts[u] \in Row /\ ClaimOK(ts[u])
               /\ ts[u].status # "absent" <=> u <= created'
    <3>1. CASE u \in (created + 1)..(created + k)
      <4>1. u - created \in 1..k /\ created + (u - created) = u
        BY <1>1, <3>1
      <4>2. ts[u] = Added(diff, r.goal, u - created)
        BY <2>1, <3>1 DEF Approved
      <4>3. r.goal \in Goal
        BY <1>2 DEF Row
      <4> QED
        BY <1>1, <2>1, <3>1, <4>1, <4>2, <4>3, AddedType
    <3>2. CASE u \notin (created + 1)..(created + k)
      <4>1. ts[u] = Changed(diff, todos, u, t)
        BY <2>1, <3>2 DEF Approved
      <4>2. u <= created <=> u <= created'
        BY <1>1, <2>1, <3>2
      <4>3. todos[u].status # "absent" <=> u <= created
        BY DEF TypeInv, TypeOK, Present
      <4> QED
        BY <4>1, <4>2, <4>3, ChangedType DEF TypeInv, TypeOK, ClaimConsistent
    <3> QED
      BY <3>1, <3>2
  <2>3. ts \in [Todo -> Row]
    BY <2>1, <2>2 DEF Approved
  <2>4. t <= created'
    BY <1>1, <1>2, <2>1
  <2>5. created' \in 0..MaxTodo
    BY <1>1, <2>1
  <2> HIDE DEF ts, new
  <2>6. todos' \in [Todo -> Row] /\ ClaimConsistent'
    BY <1>3, <1>4, <2>2, <2>3 DEF ClaimConsistent
  <2>7. \A u \in Todo : Present(u)' <=> u <= created'
    BY <1>3, <1>4, <2>2, <2>3, <2>4 DEF Present
  <2> QED
    BY <2>5, <2>6, <2>7 DEF RowsOK
<1> QED
  BY <1>5, <1>6

(* The rework todo takes the next id and the old row is superseded.        *)
LEMMA SuccessorRows ==
  ASSUME TypeInv, NEW t \in Todo, NEW spec \in Content, WriteSuccessor(t, spec)
  PROVE  RowsOK'
<1> DEFINE r == todos[t]
           n == created + 1
<1>1. r \in Row /\ ClaimOK(r) /\ r.status \in InFlight /\ t <= created /\ Present(t)
  BY DEF WriteSuccessor, SuccessorTx, WaitTx, CanWriteBack, TypeInv, TypeOK, ClaimConsistent, Present
<1>2. CASE Update(t, Ended(r, "needs_user")) /\ created' = created
  <2>1. Ended(r, "needs_user") \in Row /\ ClaimOK(Ended(r, "needs_user"))
    BY <1>1, UpdateTypes
  <2>2. Ended(r, "needs_user").status # "absent"
    BY <1>1 DEF Ended, Row
  <2> HIDE DEF r
  <2> QED
    BY <1>1, <1>2, <2>1, <2>2, ReplaceRow
<1>3. CASE /\ created < MaxTodo
           /\ created' = n
           /\ todos' = [todos EXCEPT
                ![t] = Ended(r, "superseded"),
                ![n] = [NewRow(r.goal, Rework(spec), r.lineage, r.gen + 1) EXCEPT !.diff = r.diff]]
  <2> DEFINE old == Ended(r, "superseded")
             fresh == NewRow(r.goal, Rework(spec), r.lineage, r.gen + 1)
             new == [fresh EXCEPT !.diff = r.diff]
  <2>0. created \in Nat /\ created < MaxTodo /\ t <= created
    <3>1. created \in 0..MaxTodo
      BY DEF TypeInv, TypeOK
    <3> QED
      BY <1>1, <1>3, <3>1
  <2>1. n \in Todo /\ n # t /\ n \in Nat /\ \A u \in Todo : u <= n <=> u <= created \/ u = n
    BY <2>0
  <2>2. old \in Row /\ ClaimOK(old) /\ old.status = "superseded"
    <3>1. old \in Row /\ ClaimOK(old)
      BY <1>1, UpdateTypes
    <3>2. old.status = "superseded"
      BY <1>1, Zenon DEF Ended, Row
    <3> QED
      BY <3>1, <3>2
  <2>3. Rework(spec) \in Content
    BY <1>1, Zenon DEF Row, Content, Rework
  <2>4. r.goal \in Goal /\ r.lineage \in Todo /\ r.gen + 1 \in Nat /\ r.diff \in Diff
    BY <1>1 DEF Row
  <2>5. fresh \in Row /\ ClaimOK(fresh) /\ fresh.status = "open"
    BY <2>3, <2>4, NewRowType DEF NewRow
  <2>6. todos' = [todos EXCEPT ![t] = old, ![n] = new]
    BY <1>3
  <2> HIDE DEF old, fresh, r, n
  <2>7. new \in Row /\ ClaimOK(new) /\ new.status = "open"
    BY <2>4, <2>5, Zenon DEF Row, ClaimOK
  <2> HIDE DEF new
  <2>8. todos' \in [Todo -> Row] /\ ClaimConsistent'
    BY <2>1, <2>2, <2>6, <2>7 DEF TypeInv, TypeOK, ClaimConsistent
  <2>9. \A u \in Todo : Present(u)' <=> u <= created'
    BY <1>1, <1>3, <2>1, <2>2, <2>6, <2>7 DEF TypeInv, TypeOK, Present
  <2> QED
    BY <1>3, <2>1, <2>8, <2>9 DEF RowsOK
<1> QED
  BY <1>2, <1>3 DEF WriteSuccessor, SuccessorTx, WaitTx

(* Every call that replaces one row replaces it by a good one.             *)
LEMMA OneRowSteps ==
  ASSUME TypeInv, NEW t \in Todo
  PROVE  /\ \A w \in Worker : HolderStep(t, w) => RowsOK'
         /\ LapseLease(t) => RowsOK'
         /\ \A evidence \in BOOLEAN : WriteDone(t, evidence) => RowsOK'
         /\ \A verdict \in Waiting : WriteWaiting(t, verdict) => RowsOK'
         /\ Reopen(t) => RowsOK'
         /\ \A diff \in Diff : ProposePlanDiff(t, diff) => RowsOK'
<1> DEFINE r == todos[t]
<1>1. r \in Row /\ ClaimOK(r)
  BY DEF TypeInv, TypeOK, ClaimConsistent
<1>2. ASSUME NEW w \in Worker, Claim(t, w) PROVE RowsOK'
  <2>1. Update(t, Claimed(r, w)) /\ created' = created /\ Present(t)
    BY <1>1, <1>2, Zenon DEF Claim, ClaimTx, CanClaim, Present
  <2>2. Claimed(r, w) \in Row /\ ClaimOK(Claimed(r, w))
    BY <1>1, <1>2, UpdateTypes DEF Claim, ClaimTx, CanClaim
  <2>3. Claimed(r, w).status = "claimed"
    BY <1>1, Zenon DEF Row, Claimed
  <2>4. Claimed(r, w).status # "absent"
    BY <2>1, <2>3 DEF Present
  <2> HIDE DEF r
  <2> QED
    BY <2>1, <2>2, <2>4, ReplaceRow
<1>3. ASSUME NEW w \in Worker, RenewLease(t, w) PROVE RowsOK'
  <2>1. Update(t, [r EXCEPT !.lease = "live"]) /\ created' = created /\ Present(t)
    BY <1>1, <1>3, Zenon DEF RenewLease, RenewTx, CanRenew, Present
  <2>2. [r EXCEPT !.lease = "live"] \in Row /\ ClaimOK([r EXCEPT !.lease = "live"])
    BY <1>1, <1>3, Zenon DEF RenewLease, RenewTx, CanRenew, Row, ClaimOK
  <2>3. [r EXCEPT !.lease = "live"].status = r.status
    BY <1>1, Zenon DEF Row
  <2>4. [r EXCEPT !.lease = "live"].status # "absent"
    BY <2>1, <2>3 DEF Present
  <2> HIDE DEF r
  <2> QED
    BY <2>1, <2>2, <2>4, ReplaceRow
<1>4. ASSUME NEW w \in Worker, MarkRunning(t, w) PROVE RowsOK'
  <2>1. Update(t, [r EXCEPT !.status = "running"]) /\ created' = created /\ Present(t)
    BY <1>1, <1>4, Zenon DEF MarkRunning, MarkTx, CanRun, Present
  <2>2. [r EXCEPT !.status = "running"] \in Row /\ ClaimOK([r EXCEPT !.status = "running"])
    BY <1>1, <1>4, Zenon DEF MarkRunning, MarkTx, CanRun, Row, ClaimOK
  <2>3. [r EXCEPT !.status = "running"].status = "running"
    BY <1>1, Zenon DEF Row
  <2>4. [r EXCEPT !.status = "running"].status # "absent"
    BY <2>1, <2>3 DEF Present
  <2> HIDE DEF r
  <2> QED
    BY <2>1, <2>2, <2>4, ReplaceRow
<1>5. ASSUME NEW w \in Worker, MarkVerifying(t, w) PROVE RowsOK'
  <2>1. Update(t, [r EXCEPT !.status = "verifying"]) /\ created' = created /\ Present(t)
    BY <1>1, <1>5, Zenon DEF MarkVerifying, MarkTx, CanVerify, Present
  <2>2. [r EXCEPT !.status = "verifying"] \in Row /\ ClaimOK([r EXCEPT !.status = "verifying"])
    BY <1>1, <1>5, Zenon DEF MarkVerifying, MarkTx, CanVerify, Row, ClaimOK
  <2>3. [r EXCEPT !.status = "verifying"].status = "verifying"
    BY <1>1, Zenon DEF Row
  <2>4. [r EXCEPT !.status = "verifying"].status # "absent"
    BY <2>1, <2>3 DEF Present
  <2> HIDE DEF r
  <2> QED
    BY <2>1, <2>2, <2>4, ReplaceRow
<1>6. ASSUME LapseLease(t) PROVE RowsOK'
  <2>1. Update(t, [r EXCEPT !.lease = "expired"]) /\ created' = created /\ Present(t)
    BY <1>1, <1>6, Zenon DEF LapseLease, Present, ClaimOK
  <2>2. [r EXCEPT !.lease = "expired"] \in Row /\ ClaimOK([r EXCEPT !.lease = "expired"])
    BY <1>1, <1>6, Zenon DEF LapseLease, Row, ClaimOK
  <2>3. [r EXCEPT !.lease = "expired"].status = r.status
    BY <1>1, Zenon DEF Row
  <2>4. [r EXCEPT !.lease = "expired"].status # "absent"
    BY <2>1, <2>3 DEF Present
  <2> HIDE DEF r
  <2> QED
    BY <2>1, <2>2, <2>4, ReplaceRow
<1>7. ASSUME NEW evidence \in BOOLEAN, WriteDone(t, evidence) PROVE RowsOK'
  <2>1. Update(t, Ended(r, "done")) /\ created' = created /\ Present(t)
    BY <1>1, <1>7, Zenon DEF WriteDone, DoneTx, CanFinish, Present
  <2>2. Ended(r, "done") \in Row /\ ClaimOK(Ended(r, "done"))
    BY <1>1, <1>7, UpdateTypes DEF WriteDone, DoneTx, CanFinish
  <2>3. Ended(r, "done").status = "done"
    BY <1>1, Zenon DEF Row, Ended
  <2>4. Ended(r, "done").status # "absent"
    BY <2>1, <2>3 DEF Present
  <2> HIDE DEF r
  <2> QED
    BY <2>1, <2>2, <2>4, ReplaceRow
<1>8. ASSUME NEW verdict \in Waiting, WriteWaiting(t, verdict) PROVE RowsOK'
  <2>1. Update(t, Ended(r, verdict)) /\ created' = created /\ Present(t)
    BY <1>1, <1>8, Zenon DEF WriteWaiting, WaitTx, CanWriteBack, Present
  <2>2. Ended(r, verdict) \in Row /\ ClaimOK(Ended(r, verdict))
    BY <1>1, <1>8, UpdateTypes DEF WriteWaiting, WaitTx, CanWriteBack
  <2>3. Ended(r, verdict).status = verdict
    BY <1>1, Zenon DEF Row, Ended
  <2>4. Ended(r, verdict).status # "absent"
    BY <2>1, <2>3 DEF Present
  <2> HIDE DEF r
  <2> QED
    BY <2>1, <2>2, <2>4, ReplaceRow
<1>9. ASSUME Reopen(t) PROVE RowsOK'
  <2>1. Update(t, Reopened(r)) /\ created' = created /\ Present(t)
    BY <1>1, <1>9, Zenon DEF Reopen, ReopenTx, CanReopen, Present
  <2>2. Reopened(r) \in Row /\ ClaimOK(Reopened(r))
    BY <1>1, <1>9, UpdateTypes DEF Reopen, ReopenTx, CanReopen
  <2>3. Reopened(r).status = "open"
    BY <1>1, Zenon DEF Row, Reopened
  <2>4. Reopened(r).status # "absent"
    BY <2>1, <2>3 DEF Present
  <2> HIDE DEF r
  <2> QED
    BY <2>1, <2>2, <2>4, ReplaceRow
<1>10. ASSUME NEW diff \in Diff, ProposePlanDiff(t, diff) PROVE RowsOK'
  <2>1. Update(t, Proposed(r, diff)) /\ created' = created /\ Present(t)
    BY <1>1, <1>10, Zenon DEF ProposePlanDiff, ProposeTx, CanWriteBack, Present
  <2>2. Proposed(r, diff) \in Row /\ ClaimOK(Proposed(r, diff))
    BY <1>1, <1>10, UpdateTypes DEF ProposePlanDiff, ProposeTx, CanWriteBack
  <2>3. Proposed(r, diff).status = "needs_user"
    BY <1>1, Zenon DEF Row, Proposed
  <2>4. Proposed(r, diff).status # "absent"
    BY <2>1, <2>3 DEF Present
  <2> HIDE DEF r
  <2> QED
    BY <2>1, <2>2, <2>4, ReplaceRow
<1> QED
  BY <1>2, <1>3, <1>4, <1>5, <1>6, <1>7, <1>8, <1>9, <1>10 DEF HolderStep

LEMMA RequeueRows == TypeInv /\ RequeueExpiredLeases => RowsOK'
<1> SUFFICES ASSUME TypeInv, RequeueExpiredLeases PROVE RowsOK'
  OBVIOUS
<1>1. ASSUME NEW t \in Todo
      PROVE  /\ todos'[t] \in Row /\ ClaimOK(todos'[t])
             /\ todos'[t].status = "absent" <=> todos[t].status = "absent"
  <2>1. todos[t] \in Row /\ ClaimOK(todos[t])
    BY DEF TypeInv, TypeOK, ClaimConsistent
  <2>2. todos'[t] = IF IsExpired(todos[t]) THEN Requeued(todos[t]) ELSE todos[t]
    BY DEF RequeueExpiredLeases, RequeueTx, Expired, TakenBack
  <2>3. CASE IsExpired(todos[t])
    <3>1. Requeued(todos[t]).status = "open"
      BY <2>1, Zenon DEF Row, Requeued
    <3>2. todos[t].status # "absent"
      BY <2>3 DEF IsExpired
    <3> QED
      BY <2>1, <2>2, <2>3, <3>1, <3>2, UpdateTypes
  <2>4. CASE ~IsExpired(todos[t])
    BY <2>1, <2>2, <2>4
  <2> QED
    BY <2>3, <2>4
<1>2. todos' = [t \in Todo |-> todos'[t]] /\ created' = created
  BY DEF RequeueExpiredLeases, RequeueTx, Expired, TakenBack
<1> QED
  BY <1>1, <1>2 DEF RowsOK, TypeInv, TypeOK, ClaimConsistent, Present

(* The three small tables.                                                 *)
GoalsType  == goals \in [Goal -> [status : {"absent", "active", "done"}, frozen : BOOLEAN]]
RoundsType == rounds \in [Todo -> Nat]
QuotaType  == quota \in [Key -> [used : Nat, limit : Nat]]

LEMMA ChargeType ==
  ASSUME QuotaType, NEW role \in Role \cup {NoRole}, Charge(role)
  PROVE  QuotaType'
<1> DEFINE k == QuotaKey(role)
<1>1. k \in Key /\ quota[k] \in [used : Nat, limit : Nat]
  BY DEF QuotaType, QuotaKey
<1>2. quota[k].used + 1 \in Nat
  BY <1>1
<1>3. quota' = [quota EXCEPT ![k].used = quota[k].used + 1]
  BY DEF Charge
<1> HIDE DEF k
<1> QED
  BY <1>1, <1>2, <1>3, Zenon DEF QuotaType

(* The calls of Kernel with any content and any plan change, whoever makes *)
(* them: what is proved of these holds of Next and of every composition    *)
(* that changes the tables through the calls alone.                        *)
GoalCall(g) ==
  \/ \E frozen \in BOOLEAN : CreateGoal(g, frozen)
  \/ CreateGoalWithPlan(g)
  \/ FreezeGoal(g)
  \/ \E spec \in Content : CreateTodo(g, spec)
WriteBackCall(t) ==
  \/ \E evidence \in BOOLEAN : WriteDone(t, evidence)
  \/ \E spec \in Content : WriteSuccessor(t, spec)
  \/ \E verdict \in Waiting : WriteWaiting(t, verdict)
PlanCall(t) ==
  \E diff \in Diff :
    \/ ProposePlanDiff(t, diff)
    \/ \E decision \in {"approved", "rejected"} : ApplyPlanDiff(t, decision, diff)
OtherCall ==
  \/ \E g \in Goal : GoalCall(g)
  \/ \E t \in Todo, w \in Worker : RenewLease(t, w) \/ MarkRunning(t, w) \/ MarkVerifying(t, w)
  \/ \E t \in Todo : LapseLease(t) \/ WriteBackCall(t) \/ Reopen(t) \/ PlanCall(t)
  \/ RequeueExpiredLeases
  \/ \E key \in Key, limit \in Limits : SetQuota(key, limit)
  \/ NewDay
Call == OtherCall \/ \E t \in Todo, w \in Worker : Claim(t, w)

LEMMA NextIsCall == TypeInv /\ [Next]_vars => [Call]_vars
<1> SUFFICES ASSUME TypeInv, Next PROVE Call
  OBVIOUS
<1>1. \A t \in Todo : todos[t].spec \in Content /\ todos[t].diff \in Diff
  BY DEF TypeInv, TypeOK, Row
<1>2. \A g \in Goal : GoalStep(g) => GoalCall(g)
  BY DEF GoalStep, GoalCall
<1>3. \A t \in Todo : WriteBack(t) => WriteBackCall(t)
  BY <1>1, Zenon DEF WriteBack, WriteBackCall
<1>4. \A t \in Todo : PlanChange(t) => PlanCall(t)
  BY <1>1, Zenon DEF PlanChange, PlanCall
<1> QED
  BY <1>2, <1>3, <1>4, Zenon DEF Next, Call, OtherCall, HolderStep

(* One call keeps TypeInv.                                                 *)
LEMMA TypeInvStep == TypeInv /\ [Call]_vars => TypeInv'
<1> SUFFICES ASSUME TypeInv, [Call]_vars PROVE TypeInv'
  OBVIOUS
<1> SUFFICES RowsOK' /\ GoalsType' /\ RoundsType' /\ QuotaType'
  BY DEF RowsOK, GoalsType, RoundsType, QuotaType, TypeInv, TypeOK
<1>0. RowsOK /\ GoalsType /\ RoundsType /\ QuotaType
  BY DEF RowsOK, GoalsType, RoundsType, QuotaType, TypeInv, TypeOK
<1>r. \A t \in Todo : todos[t] \in Row
  BY <1>0 DEF RowsOK
<1>1. ASSUME NEW g \in Goal, GoalCall(g)
      PROVE  RowsOK' /\ GoalsType' /\ RoundsType' /\ QuotaType'
  <2>1. ASSUME NEW frozen \in BOOLEAN, CreateGoal(g, frozen)
        PROVE  RowsOK' /\ GoalsType' /\ RoundsType' /\ QuotaType'
    BY <1>0, <2>1, Zenon
       DEF CreateGoal, RowsOK, GoalsType, RoundsType, QuotaType, ClaimConsistent, Present
  <2>2. CASE CreateGoalWithPlan(g)
    <3>1. RowsOK'
      BY <2>2, InsertRow, PlanSpecType DEF CreateGoalWithPlan
    <3> QED
      BY <1>0, <2>2, <3>1, Zenon DEF CreateGoalWithPlan, GoalsType, RoundsType, QuotaType
  <2>3. CASE FreezeGoal(g)
    <3>1. RowsOK'
      BY <2>3, InsertRow, PlanSpecType DEF FreezeGoal, FreezeTx
    <3> QED
      BY <1>0, <2>3, <3>1, Zenon DEF FreezeGoal, FreezeTx, GoalsType, RoundsType, QuotaType
  <2>4. ASSUME NEW spec \in Content, CreateTodo(g, spec)
        PROVE  RowsOK' /\ GoalsType' /\ RoundsType' /\ QuotaType'
    <3>1. RowsOK'
      BY <2>4, InsertRow DEF CreateTodo
    <3> QED
      BY <1>0, <2>4, <3>1, Zenon DEF CreateTodo, GoalsType, RoundsType, QuotaType
  <2> QED
    BY <1>1, <2>1, <2>2, <2>3, <2>4 DEF GoalCall
<1>2. ASSUME NEW t \in Todo, NEW w \in Worker, HolderStep(t, w)
      PROVE  RowsOK' /\ GoalsType' /\ RoundsType' /\ QuotaType'
  <2>1. RowsOK'
    BY <1>2, OneRowSteps
  <2>2. goals' = goals /\ quota' = quota
    BY <1>2 DEF HolderStep, Claim, ClaimTx, RenewLease, RenewTx, MarkRunning, MarkVerifying, MarkTx
  <2>3. RoundsType'
    <3>1. CASE rounds' = rounds
      BY <1>0, <3>1 DEF RoundsType
    <3>2. CASE Claim(t, w)
      BY <1>0, <1>r, <3>2 DEF Claim, ClaimTx, RoundsType, Row
    <3> QED
      BY <1>2, <3>1, <3>2 DEF HolderStep, RenewLease, RenewTx, MarkRunning, MarkVerifying, MarkTx
  <2> QED
    BY <1>0, <2>1, <2>2, <2>3 DEF GoalsType, QuotaType
<1>3. ASSUME NEW t \in Todo, LapseLease(t) \/ WriteBackCall(t) \/ Reopen(t) \/ PlanCall(t)
      PROVE  RowsOK' /\ GoalsType' /\ RoundsType' /\ QuotaType'
  <2>1. ASSUME NEW evidence \in BOOLEAN, WriteDone(t, evidence)
        PROVE  RowsOK' /\ GoalsType' /\ RoundsType' /\ QuotaType'
    <3>1. RowsOK'
      BY <2>1, OneRowSteps
    <3>2. QuotaType'
      <4>1. Charge(todos[t].spec.role) /\ todos[t].spec.role \in Role \cup {NoRole}
        BY <1>r, <2>1 DEF WriteDone, DoneTx, Row, Content
      <4> QED
        BY <1>0, <4>1, ChargeType
    <3>3. GoalsType'
      BY <1>0, <2>1, Zenon DEF WriteDone, DoneTx, GoalsType
    <3>4. RoundsType'
      BY <1>0, <2>1, Zenon DEF WriteDone, DoneTx, RoundsType
    <3> QED
      BY <3>1, <3>2, <3>3, <3>4
  <2>2. ASSUME NEW spec \in Content, WriteSuccessor(t, spec)
        PROVE  RowsOK' /\ GoalsType' /\ RoundsType' /\ QuotaType'
    <3>1. RowsOK'
      BY <2>2, SuccessorRows
    <3> QED
      BY <1>0, <2>2, <3>1, Zenon DEF WriteSuccessor, SuccessorTx, WaitTx, GoalsType, RoundsType, QuotaType
  <2>3. CASE \/ LapseLease(t) \/ Reopen(t)
             \/ \E verdict \in Waiting : WriteWaiting(t, verdict)
             \/ \E diff \in Diff : ProposePlanDiff(t, diff)
    <3>1. RowsOK'
      BY <2>3, OneRowSteps, Zenon
    <3>2. UNCHANGED <<goals, rounds, quota>>
      BY <2>3, Zenon DEF LapseLease, Reopen, ReopenTx, WriteWaiting, WaitTx, ProposePlanDiff, ProposeTx
    <3> QED
      BY <1>0, <3>1, <3>2, Zenon DEF GoalsType, RoundsType, QuotaType
  <2>4. ASSUME NEW decision \in {"approved", "rejected"}, NEW diff \in Diff,
               ApplyPlanDiff(t, decision, diff)
        PROVE  RowsOK' /\ GoalsType' /\ RoundsType' /\ QuotaType'
    <3>1. RowsOK'
      BY <2>4, PlanDiffRows
    <3>2. UNCHANGED <<rounds, quota>>
      BY <2>4 DEF ApplyPlanDiff, DecideTx
    <3>3. GoalsType'
      BY <1>0, <2>4, Zenon DEF ApplyPlanDiff, DecideTx, GoalsType
    <3> QED
      BY <1>0, <3>1, <3>2, <3>3, Zenon DEF RoundsType, QuotaType
  <2> QED
    BY <1>3, <2>1, <2>2, <2>3, <2>4, Zenon DEF WriteBackCall, PlanCall
<1>4. CASE RequeueExpiredLeases
  <2>1. RowsOK'
    BY <1>4, RequeueRows
  <2> QED
    BY <1>0, <1>4, <2>1, Zenon DEF RequeueExpiredLeases, RequeueTx, Expired, GoalsType, RoundsType, QuotaType
<1>5. ASSUME NEW key \in Key, NEW limit \in Limits, SetQuota(key, limit)
      PROVE  RowsOK' /\ GoalsType' /\ RoundsType' /\ QuotaType'
  <2>1. limit \in Nat
    BY <1>5
  <2>2. QuotaType'
    BY <1>0, <1>5, <2>1, Zenon DEF SetQuota, QuotaType
  <2> QED
    BY <1>0, <1>5, <2>2, Zenon
       DEF SetQuota, RowsOK, GoalsType, RoundsType, ClaimConsistent, Present
<1>6. CASE NewDay
  <2>1. QuotaType'
    BY <1>0, <1>6, Zenon DEF NewDay, QuotaType
  <2> QED
    BY <1>0, <1>6, <2>1, Zenon
       DEF NewDay, RowsOK, GoalsType, RoundsType, ClaimConsistent, Present
<1>7. CASE UNCHANGED vars
  BY <1>0, <1>7, Zenon DEF vars, RowsOK, GoalsType, RoundsType, QuotaType, ClaimConsistent, Present
<1> QED
  BY <1>1, <1>2, <1>3, <1>4, <1>5, <1>6, <1>7, Zenon DEF Call, OtherCall, HolderStep

-----------------------------------------------------------------------------
(* The tables hold what their columns declare.                             *)
THEOREM TypeCorrect == Spec => []TypeOK
<1>1. TypeInv => TypeOK
  BY DEF TypeInv
<1> QED
  BY InitTypeInv, TypeInvStep, NextIsCall, <1>1, PTL DEF Spec

(* A todo in flight has one holder, one lease and one open attempt; a todo *)
(* that is not has none that count.                                        *)
THEOREM ClaimsAreConsistent == Spec => []ClaimConsistent
<1>1. TypeInv => ClaimConsistent
  BY DEF TypeInv
<1> QED
  BY InitTypeInv, TypeInvStep, NextIsCall, <1>1, PTL DEF Spec

-----------------------------------------------------------------------------
(* The steps that settle no todo, add none and touch no goal.              *)

Keeps(r, s) ==
  /\ s.goal = r.goal
  /\ Live(r) <=> Live(s)
  /\ ~Live(r) => s.status = r.status
Quiet == goals' = goals /\ \A u \in Todo : Keeps(todos[u], todos'[u])

LEMMA UpdateKeeps ==
  ASSUME NEW r \in Row
  PROVE  /\ Keeps(r, r)
         /\ \A w \in Worker : CanClaim(r) => Keeps(r, Claimed(r, w))
         /\ \A l \in {"live", "expired"} : Keeps(r, [r EXCEPT !.lease = l])
         /\ \A s \in {"running", "verifying"} :
              r.status \in InFlight => Keeps(r, [r EXCEPT !.status = s])
         /\ IsExpired(r) => Keeps(r, Requeued(r))
         /\ \A s \in Waiting : r.status \in InFlight => Keeps(r, Ended(r, s))
         /\ CanReopen(r) => Keeps(r, Reopened(r))
         /\ \A d \in Diff : r.status \in InFlight => Keeps(r, Proposed(r, d))
<1>1. Keeps(r, r)
  BY DEF Keeps
<1>2. \A w \in Worker : CanClaim(r) => Keeps(r, Claimed(r, w))
  BY Zenon DEF Row, Keeps, Live, CanClaim, Claimed
<1>3. \A l \in {"live", "expired"} : Keeps(r, [r EXCEPT !.lease = l])
  BY Zenon DEF Row, Keeps, Live
<1>4. \A s \in {"running", "verifying"} :
        r.status \in InFlight => Keeps(r, [r EXCEPT !.status = s])
  BY Zenon DEF Row, Keeps, Live
<1>5. IsExpired(r) => Keeps(r, Requeued(r))
  BY Zenon DEF Row, Keeps, Live, IsExpired, Requeued
<1>6. \A s \in Waiting : r.status \in InFlight => Keeps(r, Ended(r, s))
  BY Zenon DEF Row, Keeps, Live, Ended
<1>7. CanReopen(r) => Keeps(r, Reopened(r))
  BY Zenon DEF Row, Keeps, Live, CanReopen, Reopened
<1>8. \A d \in Diff : r.status \in InFlight => Keeps(r, Proposed(r, d))
  BY Zenon DEF Row, Keeps, Live, Proposed
<1> QED
  BY <1>1, <1>2, <1>3, <1>4, <1>5, <1>6, <1>7, <1>8

LEMMA OneKeeps ==
  ASSUME TypeInv, NEW t \in Todo, NEW row, Keeps(todos[t], row), Update(t, row), goals' = goals
  PROVE  Quiet
<1>1. \A u \in Todo : Keeps(todos[u], todos[u])
  BY UpdateKeeps DEF TypeInv, TypeOK
<1>2. \A u \in Todo : todos'[u] = IF u = t THEN row ELSE todos[u]
  BY DEF TypeInv, TypeOK, Update
<1> QED
  BY <1>1, <1>2, Zenon DEF Quiet

(* What is left when the quiet steps are set aside.                        *)
Insertion(g) ==
  \/ CreateGoalWithPlan(g) \/ FreezeGoal(g)
  \/ \E spec \in Content : CreateTodo(g, spec)
Loud ==
  \/ \E g \in Goal : Insertion(g) \/ \E frozen \in BOOLEAN : CreateGoal(g, frozen)
  \/ \E t \in Todo :
       \/ \E evidence \in BOOLEAN : WriteDone(t, evidence)
       \/ \E spec \in Content : CanWriteBack(todos[t]) /\ ~Exhausted(todos[t]) /\ SuccessorTx(t, spec)
       \/ \E decision \in {"approved", "rejected"}, diff \in Diff :
            ApplyPlanDiff(t, decision, diff)

LEMMA QuietOrLoud == TypeInv /\ [Call]_vars => Quiet \/ Loud
<1> SUFFICES ASSUME TypeInv, [Call]_vars, ~Loud PROVE Quiet
  OBVIOUS
<1>r. \A t \in Todo : todos[t] \in Row
  BY DEF TypeInv, TypeOK
<1>u. CASE todos' = todos /\ goals' = goals
  <2>1. \A t \in Todo : Keeps(todos[t], todos[t])
    BY <1>r, UpdateKeeps
  <2> QED
    BY <1>u, <2>1 DEF Quiet
<1>1. ASSUME NEW g \in Goal, GoalCall(g) PROVE Quiet
  BY <1>1 DEF Loud, Insertion, GoalCall
<1>2. ASSUME NEW t \in Todo, NEW w \in Worker, HolderStep(t, w) PROVE Quiet
  <2>1. CASE Claim(t, w)
    BY <1>r, <2>1, UpdateKeeps, OneKeeps DEF Claim, ClaimTx
  <2>2. CASE RenewLease(t, w)
    BY <1>r, <2>2, UpdateKeeps, OneKeeps DEF RenewLease, RenewTx
  <2>3. CASE MarkRunning(t, w)
    BY <1>r, <2>3, UpdateKeeps, OneKeeps DEF MarkRunning, CanRun, MarkTx
  <2>4. CASE MarkVerifying(t, w)
    BY <1>r, <2>4, UpdateKeeps, OneKeeps DEF MarkVerifying, CanVerify, MarkTx
  <2> QED
    BY <1>2, <2>1, <2>2, <2>3, <2>4 DEF HolderStep
<1>3. ASSUME NEW t \in Todo, LapseLease(t) PROVE Quiet
  BY <1>r, <1>3, UpdateKeeps, OneKeeps DEF LapseLease
<1>4. ASSUME NEW t \in Todo, WriteBackCall(t) PROVE Quiet
  <2>1. ASSUME NEW verdict \in Waiting, CanWriteBack(todos[t]), WaitTx(t, verdict) PROVE Quiet
    BY <1>r, <2>1, UpdateKeeps, OneKeeps DEF CanWriteBack, WaitTx
  <2>2. ASSUME NEW spec \in Content, WriteSuccessor(t, spec) PROVE Quiet
    BY <2>1, <2>2 DEF WriteSuccessor, Loud
  <2> QED
    BY <1>4, <2>1, <2>2 DEF WriteBackCall, WriteWaiting, Loud
<1>5. ASSUME NEW t \in Todo, Reopen(t) PROVE Quiet
  BY <1>r, <1>5, UpdateKeeps, OneKeeps DEF Reopen, ReopenTx
<1>6. ASSUME NEW t \in Todo, PlanCall(t) PROVE Quiet
  <2>1. ASSUME NEW diff \in Diff, ProposePlanDiff(t, diff) PROVE Quiet
    BY <1>r, <2>1, UpdateKeeps, OneKeeps DEF ProposePlanDiff, CanWriteBack, ProposeTx
  <2>3. \A diff \in Diff, decision \in {"approved", "rejected"} : ~ApplyPlanDiff(t, decision, diff)
    BY DEF Loud
  <2> QED
    BY <1>6, <2>1, <2>3, Zenon DEF PlanCall
<1>7. CASE RequeueExpiredLeases
  <2>1. ASSUME NEW u \in Todo PROVE Keeps(todos[u], todos'[u])
    <3>1. todos'[u] = IF IsExpired(todos[u]) THEN Requeued(todos[u]) ELSE todos[u]
      BY <1>7 DEF RequeueExpiredLeases, RequeueTx, Expired, TakenBack
    <3> QED
      BY <1>r, <3>1, UpdateKeeps
  <2> QED
    BY <1>7, <2>1 DEF Quiet, RequeueExpiredLeases, RequeueTx
<1>8. CASE UNCHANGED vars \/ NewDay \/ \E key \in Key, limit \in Limits : SetQuota(key, limit)
  BY <1>u, <1>8 DEF vars, NewDay, SetQuota
<1> QED
  BY <1>1, <1>2, <1>3, <1>4, <1>5, <1>6, <1>7, <1>8, Zenon DEF Call, OtherCall, HolderStep

-----------------------------------------------------------------------------
(* What the other steps do to the rows.                                    *)

LEMMA InsertEffect ==
  ASSUME TypeInv, NEW g \in Goal, Insertion(g)
  PROVE  /\ created' = created + 1 /\ created' \in Todo
         /\ \A u \in Todo \ {created'} : todos'[u] = todos[u]
         /\ todos'[created'].status = "open" /\ todos'[created'].goal = g
         /\ goals'[g].status # "absent"
         /\ \A h \in Goal \ {g} : goals'[h] = goals[h]
         /\ goals[g].status # "absent" => goals'[g].status = goals[g].status
         /\ quota' = quota
<1>1. /\ \E spec \in Content : Insert(g, spec)
      /\ quota' = quota
      /\ \/ goals[g].status = "absent"
            /\ goals' = [goals EXCEPT ![g] = [status |-> "active", frozen |-> TRUE]]
         \/ goals[g].status # "absent"
            /\ (goals' = goals \/ goals' = [goals EXCEPT ![g].frozen = TRUE])
  BY PlanSpecType DEF Insertion, CreateGoalWithPlan, FreezeGoal, CanFreeze, FreezeTx, CreateTodo
<1>2. PICK spec \in Content : Insert(g, spec)
  BY <1>1
<1>3. created' = created + 1 /\ created' \in Todo
  BY <1>2 DEF Insert, TypeInv, TypeOK
<1>4. todos' = [todos EXCEPT ![created'] = NewRow(g, spec, created + 1, 1)]
  BY <1>2, <1>3 DEF Insert, Update
<1>5. /\ \A u \in Todo \ {created'} : todos'[u] = todos[u]
      /\ todos'[created'].status = "open" /\ todos'[created'].goal = g
  BY <1>3, <1>4 DEF TypeInv, TypeOK, NewRow
<1>6. goals \in [Goal -> [status : {"absent", "active", "done"}, frozen : BOOLEAN]]
  BY DEF TypeInv, TypeOK
<1>7. /\ goals'[g].status # "absent"
      /\ \A h \in Goal \ {g} : goals'[h] = goals[h]
      /\ goals[g].status # "absent" => goals'[g].status = goals[g].status
  BY <1>1, <1>6
<1> QED
  BY <1>1, <1>3, <1>5, <1>7

LEMMA SuccessorEffect ==
  ASSUME TypeInv, NEW t \in Todo, NEW spec \in Content, CanWriteBack(todos[t]), SuccessorTx(t, spec)
  PROVE  /\ created' = created + 1 /\ created' \in Todo /\ t # created' /\ ~Present(created')
         /\ \A u \in Todo \ {t, created'} : todos'[u] = todos[u]
         /\ todos'[t].status = "superseded" /\ todos'[t].goal = todos[t].goal
         /\ todos'[created'].status = "open" /\ todos'[created'].goal = todos[t].goal
         /\ goals' = goals /\ quota' = quota
<1> DEFINE r   == todos[t]
           new == NewRow(r.goal, Rework(spec), r.lineage, r.gen + 1)
<1>1. created' = created + 1 /\ created' \in Todo /\ ~Present(created')
  BY DEF SuccessorTx, TypeInv, TypeOK
<1>2. r \in Row /\ t # created'
  BY <1>1 DEF TypeInv, TypeOK, CanWriteBack, Present
<1>3. /\ todos'[created'] = [new EXCEPT !.diff = r.diff]
      /\ todos'[t] = Ended(r, "superseded")
      /\ \A u \in Todo \ {t, created'} : todos'[u] = todos[u]
  BY <1>1, <1>2 DEF SuccessorTx, TypeInv, TypeOK
<1>4. todos'[t].status = "superseded" /\ todos'[t].goal = r.goal
  <2> HIDE DEF r
  <2> QED
    BY <1>2, <1>3, Zenon DEF Row, Ended
<1>5. todos'[created'].status = "open" /\ todos'[created'].goal = r.goal
  BY <1>3 DEF NewRow
<1> QED
  BY <1>1, <1>2, <1>3, <1>4, <1>5 DEF SuccessorTx

LEMMA DoneEffect ==
  ASSUME TypeInv, NEW t \in Todo, NEW evidence \in BOOLEAN, WriteDone(t, evidence)
  PROVE  /\ todos[t].status = "verifying"
         /\ \A u \in Todo \ {t} : todos'[u] = todos[u]
         /\ todos'[t].status = "done" /\ todos'[t].goal = todos[t].goal
         /\ todos'[t].spec = todos[t].spec
<1> DEFINE r == todos[t]
<1>1. r \in Row /\ r.status = "verifying"
  BY DEF TypeInv, TypeOK, WriteDone, CanFinish
<1>2. todos'[t] = Ended(r, "done") /\ \A u \in Todo \ {t} : todos'[u] = todos[u]
  BY DEF TypeInv, TypeOK, WriteDone, DoneTx, Update
<1>3. Ended(r, "done").status = "done" /\ Ended(r, "done").goal = r.goal
      /\ Ended(r, "done").spec = r.spec
  <2> HIDE DEF r
  <2> QED
    BY <1>1, Zenon DEF Row, Ended
<1> QED
  BY <1>1, <1>2, <1>3

LEMMA ChangedEffect ==
  ASSUME NEW diff \in Diff, NEW t \in Todo, NEW u \in Todo, todos[u] \in Row
  PROVE  LET s == Changed(diff, todos, u, t) IN
         /\ s.goal = todos[u].goal
         /\ s.status = "done" => todos[u].status = "done"
         /\ ~Touchable(todos, u, t) => s = todos[u]
<1> DEFINE r == todos[u]
<1>1. CASE Changed(diff, todos, u, t) = r
  BY <1>1
<1>2. CASE Touchable(todos, u, t) /\ u \in diff.cancel
  <2>1. Changed(diff, todos, u, t) = [r EXCEPT !.status = "superseded"]
    BY <1>2 DEF Changed
  <2>2. r \in Row
    OBVIOUS
  <2> HIDE DEF r
  <2>3. [r EXCEPT !.status = "superseded"].goal = r.goal
        /\ [r EXCEPT !.status = "superseded"].status = "superseded"
    BY <2>2, Zenon DEF Row
  <2> QED
    BY <1>2, <2>1, <2>3 DEF r
<1>3. CASE Touchable(todos, u, t) /\ u \notin diff.cancel /\ u \in DOMAIN diff.modify
  <2>1. PICK spec : Changed(diff, todos, u, t) = [r EXCEPT !.spec = spec]
    <3>1. Changed(diff, todos, u, t)
            = [r EXCEPT !.spec = [r.spec EXCEPT !.files = diff.modify[u].files,
                                                !.verify = diff.modify[u].verify]]
      BY <1>3, Zenon DEF Changed, Row, Content
    <3> QED
      BY <3>1
  <2>2. r \in Row
    OBVIOUS
  <2> HIDE DEF r
  <2>3. [r EXCEPT !.spec = spec].goal = r.goal /\ [r EXCEPT !.spec = spec].status = r.status
    BY <2>2, Zenon DEF Row
  <2> QED
    BY <1>3, <2>1, <2>3 DEF r
<1> QED
  BY <1>1, <1>2, <1>3 DEF Changed

(* A plan change touches only todos of its own goal, finishes none, and    *)
(* what it adds is open.                                                   *)
LEMMA DecideEffect ==
  ASSUME TypeInv, NEW t \in Todo, NEW decision \in {"approved", "rejected"},
         NEW diff \in Diff, ApplyPlanDiff(t, decision, diff)
  PROVE  /\ \A u \in Todo : Present(u) =>
              /\ todos'[u].goal = todos[u].goal
              /\ todos'[u].status = "done" => todos[u].status = "done"
              /\ todos[u].goal # todos[t].goal => todos'[u] = todos[u]
              /\ todos[u].status \in InFlight => todos'[u].status = todos[u].status
         /\ \A u \in Todo : ~Present(u) =>
              \/ todos'[u] = todos[u]
              \/ todos'[u].status = "open" /\ todos'[u].goal = todos[t].goal
         /\ todos[t].status # "needs_user" => Live(todos'[t])
         /\ Present(t) /\ quota' = quota
<1> DEFINE r   == todos[t]
           d   == [r EXCEPT !.decision = decision]
           new == IF r.status # "needs_user" THEN d ELSE Closed(d)
           ts  == IF decision = "approved" THEN Approved(diff, t) ELSE todos
<1>1. r \in Row /\ CanDecide(r) /\ Present(t)
  BY DEF ApplyPlanDiff, TypeInv, TypeOK, CanDecide, Present
<1>2. /\ new.goal = r.goal /\ new.status # "done"
      /\ r.status # "needs_user" => new.status = r.status
  <2> HIDE DEF r
  <2>1. d.status = r.status /\ d.goal = r.goal /\ d \in Row
    BY <1>1, Zenon DEF Row
  <2> HIDE DEF d
  <2>2. Closed(d).status = "superseded" /\ Closed(d).goal = d.goal
    BY <2>1, Zenon DEF Row, Closed
  <2> QED
    BY <1>1, <2>1, <2>2 DEF CanDecide
<1>3. todos'[t] = new /\ \A u \in Todo \ {t} : todos'[u] = ts[u]
  BY DEF ApplyPlanDiff, DecideTx, Approved, TypeInv, TypeOK
<1>4. ASSUME NEW u \in Todo, Present(u), u # t
      PROVE  /\ todos'[u].goal = todos[u].goal
             /\ todos'[u].status = "done" => todos[u].status = "done"
             /\ todos[u].goal # r.goal => todos'[u] = todos[u]
             /\ todos[u].status \in InFlight => todos'[u].status = todos[u].status
  <2>1. u \notin (created + 1)..(created + Len(diff.add)) /\ todos[u] \in Row
    BY <1>4 DEF TypeInv, TypeOK
  <2>2. todos'[u] = todos[u] \/ todos'[u] = Changed(diff, todos, u, t)
    BY <1>3, <1>4, <2>1 DEF Approved
  <2>3. CASE todos'[u] = Changed(diff, todos, u, t)
    BY <2>1, <2>3, ChangedEffect DEF Touchable
  <2> QED
    BY <2>2, <2>3
<1>5. ASSUME NEW u \in Todo, ~Present(u)
      PROVE  \/ todos'[u] = todos[u]
             \/ todos'[u].status = "open" /\ todos'[u].goal = r.goal
  <2>1. todos'[u] = ts[u]
    BY <1>1, <1>3, <1>5
  <2>2. CASE decision = "approved" /\ u \in (created + 1)..(created + Len(diff.add))
    <3>1. todos'[u] = Added(diff, r.goal, u - created)
      BY <2>1, <2>2 DEF Approved
    <3> QED
      BY <3>1 DEF Added, NewRow
  <2>3. CASE decision = "approved" /\ u \notin (created + 1)..(created + Len(diff.add))
    BY <1>5, <2>1, <2>3 DEF Approved, Changed, Touchable, Present
  <2> QED
    BY <2>1, <2>2, <2>3
<1>6. quota' = quota
  BY DEF ApplyPlanDiff, DecideTx
<1>7. r.status # "needs_user" => Live(new)
  BY <1>1, <1>2 DEF CanDecide, Live
<1> HIDE DEF new, ts
<1> QED
  BY <1>1, <1>2, <1>3, <1>4, <1>5, <1>6, <1>7

-----------------------------------------------------------------------------
(* Charging.                                                               *)

NoneDone == \A u \in Todo : todos'[u].status = "done" => todos[u].status = "done"
Charged == \A key \in Key :
             \/ quota'[key].used = quota[key].used + Cardinality(NewlyDone(key))
             \/ quota'[key].used = 0 /\ NewlyDone(key) = {}

(* Only the write-back of done finishes a todo.                            *)
LEMMA DoneIsWritten ==
  ASSUME TypeInv, [Call]_vars,
         \A t \in Todo, evidence \in BOOLEAN : ~WriteDone(t, evidence)
  PROVE  NoneDone
<1>1. CASE Quiet
  BY <1>1 DEF Quiet, Keeps, Live, NoneDone
<1>2. ASSUME NEW g \in Goal, Insertion(g) PROVE NoneDone
  BY <1>2, InsertEffect DEF NoneDone
<1>3. ASSUME NEW g \in Goal, NEW frozen \in BOOLEAN, CreateGoal(g, frozen) PROVE NoneDone
  BY <1>3 DEF CreateGoal, NoneDone
<1>4. ASSUME NEW t \in Todo, NEW spec \in Content, CanWriteBack(todos[t]), SuccessorTx(t, spec) PROVE NoneDone
  BY <1>4, SuccessorEffect DEF NoneDone
<1>5. ASSUME NEW t \in Todo, NEW decision \in {"approved", "rejected"}, NEW diff \in Diff,
             ApplyPlanDiff(t, decision, diff)
      PROVE  NoneDone
  BY <1>5, DecideEffect DEF NoneDone
<1> QED
  BY <1>1, <1>2, <1>3, <1>4, <1>5, QuietOrLoud DEF Loud

(* Who writes the table quota.                                             *)
LEMMA QuotaStep ==
  ASSUME [Call]_vars, \A t \in Todo, evidence \in BOOLEAN : ~WriteDone(t, evidence)
  PROVE  quota' = quota \/ NewDay \/ \E key \in Key, limit \in Limits : SetQuota(key, limit)
BY DEF Call, OtherCall, vars, GoalCall, CreateGoal, CreateGoalWithPlan, FreezeGoal, FreezeTx, CreateTodo,
   HolderStep, Claim, ClaimTx, RenewLease, RenewTx, MarkRunning, MarkVerifying, MarkTx, LapseLease,
   WriteBackCall, WriteSuccessor, SuccessorTx, WriteWaiting, WaitTx, Reopen, ReopenTx,
   PlanCall, ProposePlanDiff, ProposeTx, ApplyPlanDiff, DecideTx, RequeueExpiredLeases, RequeueTx

LEMMA ChargedStep == TypeInv /\ [Call]_vars => Charged
<1> SUFFICES ASSUME TypeInv, [Call]_vars, NEW key \in Key
             PROVE  \/ quota'[key].used = quota[key].used + Cardinality(NewlyDone(key))
                    \/ quota'[key].used = 0 /\ NewlyDone(key) = {}
  BY DEF Charged
<1>1. quota \in [Key -> [used : Nat, limit : Nat]] /\ quota[key].used \in Nat
  BY DEF TypeInv, TypeOK
<1>2. CASE \A t \in Todo, evidence \in BOOLEAN : ~WriteDone(t, evidence)
  <2>1. NewlyDone(key) = {} /\ Cardinality(NewlyDone(key)) = 0
    BY <1>2, DoneIsWritten, FS_EmptySet DEF NoneDone, NewlyDone
  <2>2. CASE quota' = quota
    BY <1>1, <2>1, <2>2
  <2>3. CASE NewDay
    BY <1>1, <2>1, <2>3 DEF NewDay
  <2>4. ASSUME NEW k \in Key, NEW limit \in Limits, SetQuota(k, limit)
        PROVE  quota'[key].used = quota[key].used
    BY <1>1, <2>4 DEF SetQuota
  <2> QED
    BY <1>1, <1>2, <2>1, <2>2, <2>3, <2>4, QuotaStep
<1>3. ASSUME NEW t \in Todo, NEW evidence \in BOOLEAN, WriteDone(t, evidence)
      PROVE  quota'[key].used = quota[key].used + Cardinality(NewlyDone(key))
  <2> DEFINE k == QuotaKey(todos[t].spec.role)
  <2>1. k \in Key
    <3>1. todos[t].spec.role \in Role \cup {NoRole}
      BY Zenon DEF TypeInv, TypeOK, Row, Content
    <3> QED
      BY <3>1 DEF QuotaKey
  <2>2. NewlyDone(key) = IF k = key THEN {t} ELSE {}
    BY <1>3, DoneEffect DEF NewlyDone
  <2>3. Cardinality(NewlyDone(key)) = IF k = key THEN 1 ELSE 0
    BY <2>2, FS_EmptySet, FS_Singleton
  <2>4. quota' = [quota EXCEPT ![k].used = @ + 1]
    BY <1>3 DEF WriteDone, DoneTx, Charge
  <2> HIDE DEF k
  <2> QED
    BY <1>1, <2>1, <2>3, <2>4
<1> QED
  BY <1>2, <1>3

(* Only verified work is charged, once and to its role (transition,        *)
(* _charge), whatever limits are set and whenever the day changes.         *)
THEOREM WorkIsChargedOnce == Spec => ChargedOnce
<1>1. TypeInv /\ [Call]_vars => [Charged]_vars
  BY ChargedStep
<1> QED
  BY InitTypeInv, TypeInvStep, NextIsCall, <1>1, PTL DEF Spec, ChargedOnce, Charged

-----------------------------------------------------------------------------
(* Closing.  GoalCloses alone is not inductive: a goal that is created     *)
(* must have no todos yet.                                                 *)

GoalsOwn == \A t \in Todo : Present(t) => goals[todos[t].goal].status # "absent"
GoalOK(g) == goals[g].status = "active" /\ DoneIn(todos, g) # {} => Unfinished(todos, g) # {}
GoalInv == TypeInv /\ GoalsOwn /\ \A g \in Goal : GoalOK(g)

LEMMA InitGoalInv == Init => GoalInv
<1> SUFFICES ASSUME Init PROVE GoalInv
  OBVIOUS
<1>1. TypeInv
  BY InitTypeInv
<1>2. \A t \in Todo : ~Present(t)
  BY <1>1 DEF Init, TypeInv, TypeOK
<1>3. \A g \in Goal : goals[g].status = "absent"
  BY DEF Init
<1> QED
  BY <1>1, <1>2, <1>3 DEF GoalInv, GoalsOwn, GoalOK

(* Every todo keeps its goal, and a new one is of a goal that exists.      *)
LEMMA GoalsOwnStep == GoalInv /\ [Call]_vars => GoalsOwn'
<1> SUFFICES ASSUME GoalInv, [Call]_vars, NEW u \in Todo, Present(u)'
             PROVE  goals'[todos'[u].goal].status # "absent"
  BY DEF GoalsOwn
<1>1. /\ TypeInv
      /\ todos[u].goal \in Goal /\ (Present(u) => goals[todos[u].goal].status # "absent")
      /\ goals \in [Goal -> [status : {"absent", "active", "done"}, frozen : BOOLEAN]]
  BY DEF GoalInv, GoalsOwn, TypeInv, TypeOK, Row
<1>2. CASE Quiet
  BY <1>1, <1>2 DEF Quiet, Keeps, Live, Present
<1>3. ASSUME NEW g \in Goal, Insertion(g) PROVE goals'[todos'[u].goal].status # "absent"
  BY <1>1, <1>3, InsertEffect DEF Present
<1>4. ASSUME NEW g \in Goal, NEW frozen \in BOOLEAN, CreateGoal(g, frozen)
      PROVE  goals'[todos'[u].goal].status # "absent"
  <2>1. todos' = todos /\ goals' = [goals EXCEPT ![g] = [status |-> "active", frozen |-> frozen]]
    BY <1>4 DEF CreateGoal
  <2>2. Present(u) /\ todos'[u].goal = todos[u].goal
    BY <2>1 DEF Present
  <2> QED
    BY <1>1, <2>1, <2>2
<1>5. ASSUME NEW t \in Todo, NEW spec \in Content, CanWriteBack(todos[t]), SuccessorTx(t, spec)
      PROVE  goals'[todos'[u].goal].status # "absent"
  <2>1. goals[todos[t].goal].status # "absent"
    BY <1>5 DEF GoalInv, GoalsOwn, Present, CanWriteBack
  <2> QED
    BY <1>1, <1>5, <2>1, SuccessorEffect DEF Present
<1>6. ASSUME NEW t \in Todo, NEW evidence \in BOOLEAN, WriteDone(t, evidence)
      PROVE  goals'[todos'[u].goal].status # "absent"
  <2>1. Present(u) /\ todos'[u].goal = todos[u].goal
    BY <1>1, <1>6, DoneEffect DEF Present
  <2> QED
    BY <1>1, <1>6, <2>1 DEF WriteDone, DoneTx
<1>7. ASSUME NEW t \in Todo, NEW decision \in {"approved", "rejected"}, NEW diff \in Diff,
             ApplyPlanDiff(t, decision, diff)
      PROVE  goals'[todos'[u].goal].status # "absent"
  <2>1. Present(t) /\ goals[todos[t].goal].status # "absent"
    BY <1>1, <1>7, DecideEffect DEF GoalInv, GoalsOwn
  <2>2. goals[todos'[u].goal].status # "absent" /\ todos'[u].goal \in Goal
    <3>1. todos[t].goal \in Goal
      BY <1>1 DEF TypeInv, TypeOK, Row
    <3> QED
      BY <1>1, <1>7, <2>1, <3>1, DecideEffect DEF Present
  <2> QED
    BY <1>1, <1>7, <2>2 DEF ApplyPlanDiff, DecideTx
<1> QED
  BY <1>1, <1>2, <1>3, <1>4, <1>5, <1>6, <1>7, QuietOrLoud DEF Loud

(* A goal that keeps its status, whose todos are finished by nobody and of *)
(* which something stays open if anything was, is as it should be.         *)
LEMMA GoalKept ==
  ASSUME GoalInv, NEW g \in Goal,
         goals[g].status = "absent" \/ goals'[g].status = goals[g].status,
         \A u \in Todo : todos'[u].status = "done" /\ todos'[u].goal = g
                           => todos[u].status = "done" /\ todos[u].goal = g,
         \A u \in Todo : Live(todos[u]) /\ todos[u].goal = g
                           => \E v \in Todo : Live(todos'[v]) /\ todos'[v].goal = g
  PROVE  GoalOK(g)'
<1> SUFFICES ASSUME goals'[g].status = "active",
                    NEW t \in Todo, todos'[t].status = "done" /\ todos'[t].goal = g
             PROVE  \E v \in Todo : Live(todos'[v]) /\ todos'[v].goal = g
  BY DEF GoalOK, DoneIn, Unfinished
<1>1. t \in DoneIn(todos, g) /\ goals[g].status = "active"
  BY DEF GoalInv, GoalsOwn, Present, DoneIn
<1>2. Unfinished(todos, g) # {}
  BY <1>1 DEF GoalInv, GoalOK
<1> QED
  BY <1>2 DEF Unfinished

LEMMA GoalOKStep ==
  ASSUME GoalInv, [Call]_vars, NEW g \in Goal
  PROVE  GoalOK(g)'
<1>1. /\ TypeInv
      /\ goals \in [Goal -> [status : {"absent", "active", "done"}, frozen : BOOLEAN]]
      /\ \A u \in Todo : todos[u].goal \in Goal
  BY DEF GoalInv, TypeInv, TypeOK, Row
<1>2. CASE Quiet
  <2>1. \A u \in Todo : /\ todos'[u].goal = todos[u].goal
                        /\ Live(todos[u]) => Live(todos'[u])
                        /\ todos'[u].status = "done" => todos[u].status = "done"
    BY <1>2 DEF Quiet, Keeps, Live
  <2>2. goals' = goals
    BY <1>2 DEF Quiet
  <2> QED
    BY <2>1, <2>2, GoalKept
<1>3. ASSUME NEW h \in Goal, Insertion(h) PROVE GoalOK(g)'
  <2>1. \A u \in Todo : Present(u) => todos'[u] = todos[u]
    BY <1>1, <1>3, InsertEffect DEF TypeInv, TypeOK
  <2>2. goals[g].status = "absent" \/ goals'[g].status = goals[g].status
    BY <1>3, <1>1, InsertEffect
  <2>3. \A u \in Todo : todos'[u].status = "done" => Present(u)
    BY <1>3, <1>1, InsertEffect DEF Present
  <2> QED
    BY <2>1, <2>2, <2>3, GoalKept DEF Live, Present
<1>4. ASSUME NEW h \in Goal, NEW frozen \in BOOLEAN, CreateGoal(h, frozen) PROVE GoalOK(g)'
  <2>1. /\ todos' = todos /\ goals[h].status = "absent"
        /\ goals' = [goals EXCEPT ![h] = [status |-> "active", frozen |-> frozen]]
    BY <1>4 DEF CreateGoal
  <2>2. goals[g].status = "absent" \/ goals'[g].status = goals[g].status
    BY <1>1, <2>1
  <2> QED
    BY <2>1, <2>2, GoalKept
<1>5. ASSUME NEW t \in Todo, NEW spec \in Content, CanWriteBack(todos[t]), SuccessorTx(t, spec)
      PROVE  GoalOK(g)'
  <2> DEFINE n == created'
  <2>1. /\ n \in Todo /\ t # n /\ ~Present(n)
        /\ \A u \in Todo \ {t, n} : todos'[u] = todos[u]
        /\ todos'[t].status = "superseded" /\ todos'[t].goal = todos[t].goal
        /\ todos'[n].status = "open" /\ todos'[n].goal = todos[t].goal
        /\ goals' = goals
    BY <1>1, <1>5, SuccessorEffect
  <2> HIDE DEF n
  <2>2. \A u \in Todo : todos'[u].status = "done" => u \notin {t, n}
    BY <2>1
  <2>3. Live(todos'[n])
    BY <2>1 DEF Live
  <2>4. ASSUME NEW u \in Todo, Live(todos[u]), todos[u].goal = g
        PROVE  \E v \in Todo : Live(todos'[v]) /\ todos'[v].goal = g
    <3>1. CASE u = t
      BY <2>1, <2>3, <2>4, <3>1
    <3>2. CASE u # t
      <4>1. u # n
        BY <2>1, <2>4 DEF Live, Present
      <4> QED
        BY <2>1, <2>4, <3>2, <4>1
    <3> QED
      BY <3>1, <3>2
  <2> QED
    BY <2>1, <2>2, <2>4, GoalKept
<1>6. ASSUME NEW t \in Todo, NEW evidence \in BOOLEAN, WriteDone(t, evidence) PROVE GoalOK(g)'
  <2> DEFINE G == todos[t].goal
  <2>1. goals' = [goals EXCEPT ![G].status = IF Unfinished(todos', G) = {} THEN "done" ELSE @]
    BY <1>6 DEF WriteDone, DoneTx
  <2>2. /\ \A u \in Todo \ {t} : todos'[u] = todos[u]
        /\ todos'[t].goal = G /\ G \in Goal
    BY <1>1, <1>6, DoneEffect
  <2> HIDE DEF G
  <2>3. CASE g = G
    BY <1>1, <2>1, <2>2, <2>3 DEF GoalOK
  <2>4. CASE g # G
    <3>1. goals'[g] = goals[g]
      BY <1>1, <2>1, <2>4
    <3>2. \A u \in Todo : todos'[u].goal = g => u # t
      BY <2>2, <2>4
    <3>3. \A u \in Todo : todos[u].goal = g => u # t
      BY <2>4 DEF G
    <3> QED
      BY <2>2, <3>1, <3>2, <3>3, GoalKept
  <2> QED
    BY <2>3, <2>4
<1>7. ASSUME NEW t \in Todo, NEW decision \in {"approved", "rejected"}, NEW diff \in Diff,
             ApplyPlanDiff(t, decision, diff)
      PROVE  GoalOK(g)'
  <2> DEFINE G == todos[t].goal
             closing == todos[t].status = "needs_user"
  <2>1. goals' = [goals EXCEPT ![G].status = IF closing /\ AllSettled(todos', G) THEN "done" ELSE @]
    BY <1>7 DEF ApplyPlanDiff, DecideTx
  <2>2. /\ \A u \in Todo : Present(u) =>
              /\ todos'[u].goal = todos[u].goal
              /\ todos'[u].status = "done" => todos[u].status = "done"
              /\ todos[u].goal # G => todos'[u] = todos[u]
        /\ \A u \in Todo : ~Present(u) =>
              todos'[u] = todos[u] \/ (todos'[u].status = "open" /\ todos'[u].goal = G)
        /\ ~closing => Live(todos'[t])
        /\ Present(t) /\ G \in Goal
    BY <1>1, <1>7, DecideEffect
  <2>3. \A u \in Todo : todos'[u].status = "done"
                          => Present(u) /\ todos[u].status = "done" /\ todos'[u].goal = todos[u].goal
    BY <2>2 DEF Present
  <2>4. todos[t].goal = G
    OBVIOUS
  <2> HIDE DEF G, closing
  <2>5. CASE g # G
    <3>1. goals'[g] = goals[g]
      BY <1>1, <2>1, <2>5
    <3>2. \A u \in Todo : Live(todos[u]) /\ todos[u].goal = g => todos'[u] = todos[u]
      BY <2>2, <2>5 DEF Live, Present
    <3> QED
      BY <2>3, <3>1, <3>2, GoalKept
  <2>6. CASE g = G /\ closing
    BY <1>1, <2>1, <2>6 DEF GoalOK, AllSettled
  <2>7. CASE g = G /\ ~closing
    <3>1. goals'[g].status = goals[g].status
      BY <1>1, <2>1, <2>7
    <3>2. Live(todos'[t]) /\ todos'[t].goal = g
      BY <2>2, <2>4, <2>7
    <3> QED
      BY <2>3, <3>1, <3>2, GoalKept
  <2> QED
    BY <2>5, <2>6, <2>7
<1> QED
  BY <1>1, <1>2, <1>3, <1>4, <1>5, <1>6, <1>7, QuietOrLoud DEF Loud

LEMMA GoalInvStep == GoalInv /\ [Call]_vars => GoalInv'
<1> SUFFICES ASSUME GoalInv, [Call]_vars PROVE GoalInv'
  OBVIOUS
<1>1. TypeInv' /\ GoalsOwn'
  BY TypeInvStep, GoalsOwnStep DEF GoalInv
<1>2. \A g \in Goal : GoalOK(g)'
  BY GoalOKStep
<1> QED
  BY <1>1, <1>2 DEF GoalInv

(* A goal whose todos are all settled, one of them done, is closed in the  *)
(* very step that settles the last one (transition, apply_plan_diff).      *)
THEOREM GoalsAreClosed == Spec => []GoalCloses
<1>1. GoalInv => GoalCloses
  BY DEF GoalInv, GoalOK, GoalCloses
<1>2. GoalInv => TypeInv
  BY DEF GoalInv
<1> QED
  BY InitGoalInv, GoalInvStep, NextIsCall, <1>1, <1>2, PTL DEF Spec

-----------------------------------------------------------------------------
(* What any step may do to a row that exists.                              *)

RowMove(r, s) ==
  /\ s.lineage = r.lineage /\ s.gen = r.gen
  /\ s.spec.deps = r.spec.deps /\ s.spec.role = r.spec.role
  /\ r.status \in Settled => s.status = r.status
  /\ s.status \in InFlight => r.status \in InFlight /\ s.claimedBy = r.claimedBy
  /\ s.status \in Waiting => r.status \in InFlight \cup Waiting
  /\ s.status = "done" => r.status \in InFlight \cup {"done"}

(* Every UPDATE is such a move when the guard of its call holds.           *)
LEMMA UpdateMoves ==
  ASSUME NEW r \in Row
  PROVE  /\ RowMove(r, r)
         /\ \A l \in {"live", "expired"} : RowMove(r, [r EXCEPT !.lease = l])
         /\ \A s \in {"running", "verifying"} :
              r.status \in InFlight => RowMove(r, [r EXCEPT !.status = s])
         /\ IsExpired(r) => RowMove(r, Requeued(r))
         /\ \A s \in Settled \cup Waiting : r.status \in InFlight => RowMove(r, Ended(r, s))
         /\ CanReopen(r) => RowMove(r, Reopened(r))
         /\ \A d \in Diff : r.status \in InFlight => RowMove(r, Proposed(r, d))
<1>1. RowMove(r, r)
  BY DEF RowMove
<1>2. \A l \in {"live", "expired"} : RowMove(r, [r EXCEPT !.lease = l])
  BY Zenon DEF Row, RowMove
<1>3. \A s \in {"running", "verifying"} :
        r.status \in InFlight => RowMove(r, [r EXCEPT !.status = s])
  BY Zenon DEF Row, RowMove
<1>4. IsExpired(r) => RowMove(r, Requeued(r))
  BY Zenon DEF Row, RowMove, IsExpired, Requeued
<1>5. \A s \in Settled \cup Waiting : r.status \in InFlight => RowMove(r, Ended(r, s))
  BY Zenon DEF Row, RowMove, Ended
<1>6. CanReopen(r) => RowMove(r, Reopened(r))
  BY Zenon DEF Row, RowMove, CanReopen, Reopened
<1>7. \A d \in Diff : r.status \in InFlight => RowMove(r, Proposed(r, d))
  BY Zenon DEF Row, RowMove, Proposed
<1> QED
  BY <1>1, <1>2, <1>3, <1>4, <1>5, <1>6, <1>7

(* A claim, which alone brings a row into flight, is paid with an attempt  *)
(* of the lineage.                                                         *)
Paid(l) == rounds'[l] = rounds[l] + 1 \/ rounds[l] >= MaxRounds
ClaimMove(r, s) ==
  /\ r.status = "open" /\ s.status = "claimed" /\ s.lineage = r.lineage /\ s.gen = r.gen
  /\ s.spec.deps = r.spec.deps /\ s.spec.role = r.spec.role
  /\ Paid(r.lineage)

(* A call that is no claim is a move of every row that exists, and any     *)
(* call is one of the two.                                                 *)
Still == \A u \in Todo : Present(u) => RowMove(todos[u], todos'[u])
Moves ==
  \A u \in Todo :
    Present(u) => RowMove(todos[u], todos'[u]) \/ ClaimMove(todos[u], todos'[u])

LEMMA OneMove ==
  ASSUME TypeInv, NEW t \in Todo, NEW row, RowMove(todos[t], row), Update(t, row)
  PROVE  Still
<1>1. \A u \in Todo : todos[u] \in Row
  BY DEF TypeInv, TypeOK
<1>2. \A u \in Todo : RowMove(todos[u], todos[u])
  BY <1>1, UpdateMoves
<1>3. \A u \in Todo : todos'[u] = IF u = t THEN row ELSE todos[u]
  BY DEF TypeInv, TypeOK, Update
<1> QED
  BY <1>2, <1>3, Zenon DEF Still

LEMMA ClaimMoves ==
  ASSUME TypeInv, NEW t \in Todo, NEW w \in Worker, Claim(t, w)
  PROVE  Moves
<1> DEFINE r == todos[t]
<1>1. r \in Row /\ r.status = "open"
  BY DEF TypeInv, TypeOK, Claim, CanClaim
<1>2. Claimed(r, w).lineage = r.lineage /\ Claimed(r, w).gen = r.gen /\ Claimed(r, w).spec = r.spec
      /\ Claimed(r, w).status = "claimed"
  <2> HIDE DEF r
  <2> QED
    BY <1>1, Zenon DEF Row, Claimed
<1>3. Paid(r.lineage)
  <2>1. r.lineage \in Todo /\ rounds \in [Todo -> Nat]
    BY <1>1, Zenon DEF Row, TypeInv, TypeOK
  <2>2. rounds' = [rounds EXCEPT ![r.lineage] = IF @ < MaxRounds THEN @ + 1 ELSE @]
    BY DEF Claim, ClaimTx
  <2> HIDE DEF r
  <2> QED
    BY <2>1, <2>2 DEF Paid
<1>4. \A u \in Todo : todos'[u] = IF u = t THEN Claimed(r, w) ELSE todos[u]
  BY DEF TypeInv, TypeOK, Claim, ClaimTx, Update
<1>5. \A u \in Todo : RowMove(todos[u], todos[u])
  BY UpdateMoves DEF TypeInv, TypeOK
<1> HIDE DEF r
<1>6. ClaimMove(r, Claimed(r, w))
  BY <1>1, <1>2, <1>3 DEF ClaimMove
<1> QED
  BY <1>4, <1>5, <1>6 DEF Moves, r

LEMMA InsertMoves ==
  ASSUME TypeInv, NEW g \in Goal, NEW spec \in Content, Insert(g, spec)
  PROVE  Still
<1>1. \A u \in Todo : Present(u) => todos'[u] = todos[u]
  BY DEF TypeInv, TypeOK, Insert, Update
<1>2. \A u \in Todo : RowMove(todos[u], todos[u])
  BY UpdateMoves DEF TypeInv, TypeOK
<1> QED
  BY <1>1, <1>2 DEF Still

LEMMA SuccessorMoves ==
  ASSUME TypeInv, NEW t \in Todo, NEW spec \in Content, CanWriteBack(todos[t]), SuccessorTx(t, spec)
  PROVE  Still
<1> DEFINE old == Ended(todos[t], "superseded")
<1>1. \A u \in Todo : todos[u] \in Row
  BY DEF TypeInv, TypeOK
<1>2. \A u \in Todo : RowMove(todos[u], todos[u])
  BY <1>1, UpdateMoves
<1>3. RowMove(todos[t], old)
  BY <1>1, UpdateMoves DEF CanWriteBack
<1>4. \A u \in Todo : Present(u) => u # created + 1
  BY DEF TypeInv, TypeOK
<1>5. \A u \in Todo : u # created + 1 => todos'[u] = IF u = t THEN old ELSE todos[u]
  BY DEF TypeInv, TypeOK, SuccessorTx
<1> HIDE DEF old
<1> QED
  BY <1>2, <1>3, <1>4, <1>5, Zenon DEF Still

LEMMA RequeueMoves ==
  ASSUME TypeInv, RequeueExpiredLeases
  PROVE  Still
<1>1. ASSUME NEW u \in Todo PROVE RowMove(todos[u], todos'[u])
  <2>1. todos[u] \in Row
    BY DEF TypeInv, TypeOK
  <2>2. todos'[u] = IF IsExpired(todos[u]) THEN Requeued(todos[u]) ELSE todos[u]
    BY DEF RequeueExpiredLeases, RequeueTx, Expired, TakenBack
  <2> QED
    BY <2>1, <2>2, UpdateMoves
<1> QED
  BY <1>1 DEF Still

LEMMA ChangedMoves ==
  ASSUME todos \in [Todo -> Row], NEW diff \in Diff, NEW t \in Todo, NEW u \in Todo
  PROVE  RowMove(todos[u], Changed(diff, todos, u, t))
<1> DEFINE r == todos[u]
<1>1. r \in Row /\ RowMove(r, r)
  BY UpdateMoves
<1>2. CASE Changed(diff, todos, u, t) = r
  BY <1>1, <1>2
<1>3. CASE Touchable(todos, u, t) /\ u \in diff.cancel
  <2>1. Changed(diff, todos, u, t) = [r EXCEPT !.status = "superseded"]
    BY <1>3 DEF Changed
  <2>2. r.status \in {"open"} \cup Waiting
    BY <1>3 DEF Touchable
  <2> HIDE DEF r
  <2> QED
    BY <1>1, <2>1, <2>2, Zenon DEF Row, RowMove, r
<1>4. CASE Touchable(todos, u, t) /\ u \notin diff.cancel /\ u \in DOMAIN diff.modify
  <2>1. PICK spec : /\ Changed(diff, todos, u, t) = [r EXCEPT !.spec = spec]
                    /\ spec.deps = r.spec.deps /\ spec.role = r.spec.role
    <3>1. Changed(diff, todos, u, t)
            = [r EXCEPT !.spec = [r.spec EXCEPT !.files = diff.modify[u].files,
                                                !.verify = diff.modify[u].verify]]
      BY <1>1, <1>4, Zenon DEF Changed, Row, Content
    <3>2. r.spec \in Content
      BY <1>1 DEF Row
    <3> HIDE DEF r
    <3> DEFINE new == [r.spec EXCEPT !.files = diff.modify[u].files, !.verify = diff.modify[u].verify]
    <3>3. new.deps = r.spec.deps /\ new.role = r.spec.role
      BY <3>2, Zenon DEF Content
    <3> QED
      BY <3>1, <3>3
  <2> HIDE DEF r
  <2> QED
    BY <1>1, <2>1, Zenon DEF Row, RowMove, r
<1> QED
  BY <1>2, <1>3, <1>4 DEF Changed

LEMMA DecideMoves ==
  ASSUME TypeInv, NEW t \in Todo, NEW decision \in {"approved", "rejected"},
         NEW diff \in Diff, ApplyPlanDiff(t, decision, diff)
  PROVE  Still
<1> DEFINE r   == todos[t]
           d   == [r EXCEPT !.decision = decision]
           new == IF r.status # "needs_user" THEN d ELSE Closed(d)
           ts  == IF decision = "approved" THEN Approved(diff, t) ELSE todos
<1>1. r \in Row /\ CanDecide(r)
  BY DEF ApplyPlanDiff, TypeInv, TypeOK
<1>2. RowMove(r, new)
  <2> HIDE DEF r
  <2>1. d.status = r.status /\ d.lineage = r.lineage /\ d.gen = r.gen /\ d.claimedBy = r.claimedBy
        /\ d.spec = r.spec /\ d \in Row
    BY <1>1, Zenon DEF Row
  <2> HIDE DEF d
  <2>2. CASE r.status = "needs_user"
    BY <2>1, <2>2, Zenon DEF Row, RowMove, Closed
  <2>3. CASE r.status # "needs_user"
    BY <1>1, <2>1, <2>3 DEF RowMove, CanDecide
  <2> QED
    BY <2>2, <2>3
<1>3. todos' = [ts EXCEPT ![t] = new]
  BY DEF ApplyPlanDiff, DecideTx
<1>4. ASSUME NEW u \in Todo, Present(u), u # t
      PROVE  RowMove(todos[u], todos'[u])
  <2>1. u \notin (created + 1)..(created + Len(diff.add))
    BY <1>4 DEF TypeInv, TypeOK
  <2>2. todos'[u] = ts[u]
    BY <1>3, <1>4 DEF Approved, TypeInv, TypeOK
  <2>3. CASE decision = "approved"
    BY <2>1, <2>2, <2>3, ChangedMoves DEF Approved, TypeInv, TypeOK
  <2>4. CASE decision = "rejected"
    BY <2>2, <2>4, UpdateMoves DEF TypeInv, TypeOK
  <2> QED
    BY <2>3, <2>4
<1>5. todos'[t] = new
  BY <1>3 DEF Approved, TypeInv, TypeOK
<1> HIDE DEF new, ts
<1> QED
  BY <1>2, <1>4, <1>5 DEF Still

LEMMA OtherMoves == TypeInv /\ [OtherCall]_vars => Still
<1> SUFFICES ASSUME TypeInv, [OtherCall]_vars PROVE Still
  OBVIOUS
<1>r. \A t \in Todo : todos[t] \in Row
  BY DEF TypeInv, TypeOK
<1>u. CASE todos' = todos
  <2>1. \A t \in Todo : RowMove(todos[t], todos[t])
    BY <1>r, UpdateMoves
  <2> QED
    BY <1>u, <2>1 DEF Still
<1>1. ASSUME NEW g \in Goal, GoalCall(g) PROVE Still
  <2>1. CASE \E frozen \in BOOLEAN : CreateGoal(g, frozen)
    BY <1>u, <2>1 DEF CreateGoal
  <2>2. CASE CreateGoalWithPlan(g) \/ FreezeGoal(g)
    BY <2>2, InsertMoves, PlanSpecType DEF CreateGoalWithPlan, FreezeGoal, FreezeTx
  <2>3. ASSUME NEW spec \in Content, CreateTodo(g, spec) PROVE Still
    BY <2>3, InsertMoves DEF CreateTodo
  <2> QED
    BY <1>1, <2>1, <2>2, <2>3 DEF GoalCall
<1>2. ASSUME NEW t \in Todo, NEW w \in Worker,
             RenewLease(t, w) \/ MarkRunning(t, w) \/ MarkVerifying(t, w)
      PROVE  Still
  <2>2. CASE RenewLease(t, w)
    BY <1>r, <2>2, UpdateMoves, OneMove DEF RenewLease, RenewTx
  <2>3. CASE MarkRunning(t, w)
    BY <1>r, <2>3, UpdateMoves, OneMove DEF MarkRunning, CanRun, MarkTx
  <2>4. CASE MarkVerifying(t, w)
    BY <1>r, <2>4, UpdateMoves, OneMove DEF MarkVerifying, CanVerify, MarkTx
  <2> QED
    BY <1>2, <2>2, <2>3, <2>4
<1>3. ASSUME NEW t \in Todo, LapseLease(t) PROVE Still
  BY <1>r, <1>3, UpdateMoves, OneMove DEF LapseLease
<1>4. ASSUME NEW t \in Todo, WriteBackCall(t) PROVE Still
  <2>1. ASSUME NEW evidence \in BOOLEAN, WriteDone(t, evidence) PROVE Still
    BY <1>r, <2>1, UpdateMoves, OneMove DEF WriteDone, CanFinish, DoneTx
  <2>2. ASSUME NEW verdict \in Waiting, CanWriteBack(todos[t]), WaitTx(t, verdict) PROVE Still
    BY <1>r, <2>2, UpdateMoves, OneMove DEF CanWriteBack, WaitTx
  <2>3. ASSUME NEW spec \in Content, WriteSuccessor(t, spec) PROVE Still
    BY <2>2, <2>3, SuccessorMoves DEF WriteSuccessor
  <2> QED
    BY <1>4, <2>1, <2>2, <2>3 DEF WriteBackCall, WriteWaiting
<1>5. ASSUME NEW t \in Todo, Reopen(t) PROVE Still
  BY <1>r, <1>5, UpdateMoves, OneMove DEF Reopen, ReopenTx
<1>6. ASSUME NEW t \in Todo, PlanCall(t) PROVE Still
  <2>1. ASSUME NEW diff \in Diff, ProposePlanDiff(t, diff) PROVE Still
    BY <1>r, <2>1, UpdateMoves, OneMove DEF ProposePlanDiff, CanWriteBack, ProposeTx
  <2> QED
    BY <1>6, <2>1, DecideMoves, Zenon DEF PlanCall
<1>7. CASE RequeueExpiredLeases
  BY <1>7, RequeueMoves
<1>8. CASE UNCHANGED vars \/ NewDay \/ \E key \in Key, limit \in Limits : SetQuota(key, limit)
  BY <1>u, <1>8 DEF vars, NewDay, SetQuota
<1> QED
  BY <1>1, <1>2, <1>3, <1>4, <1>5, <1>6, <1>7, <1>8, Zenon DEF OtherCall

LEMMA StepMoves == TypeInv /\ [Call]_vars => Moves
BY OtherMoves, ClaimMoves, Zenon DEF Call, Still, Moves

-----------------------------------------------------------------------------
(* Settled work is final: a settled todo is never claimed, taken back,     *)
(* reopened, cancelled or written back again (transition, reopen,          *)
(* apply_plan_diff).                                                       *)
THEOREM SettledStaysSettled == Spec => SettledFinal
<1> DEFINE Kept == \A t \in Todo : todos[t].status \in Settled => todos'[t].status = todos[t].status
<1>1. TypeInv /\ [Call]_vars => [Kept]_vars
  BY StepMoves DEF Moves, RowMove, ClaimMove, Present
<1> QED
  BY InitTypeInv, TypeInvStep, NextIsCall, <1>1, PTL DEF Spec, SettledFinal

(* A claim is not taken over: while a todo stays in flight its holder is   *)
(* the same (claim, requeue_expired_leases).                               *)
THEOREM ClaimsAreNotTakenOver == Spec => NoTakeover
<1> DEFINE Kept == \A t \in Todo : todos[t].status \in InFlight /\ todos'[t].status \in InFlight
                                   => todos'[t].claimedBy = todos[t].claimedBy
<1>1. TypeInv /\ [Call]_vars => [Kept]_vars
  BY StepMoves DEF Moves, RowMove, ClaimMove, Present
<1> QED
  BY InitTypeInv, TypeInvStep, NextIsCall, <1>1, PTL DEF Spec, NoTakeover

-----------------------------------------------------------------------------
(* Which rows a step adds: todos of their own lineage, or the rework of a  *)
(* todo in flight whose lineage is not exhausted.                          *)

Fresh(u) ==
  todos'[u].lineage = u /\ todos'[u].gen = 1 /\ todos'[u].status = "open"
Reworks(t, u) ==
  /\ Present(t) /\ todos[t].status \in InFlight /\ ~Exhausted(todos[t])
  /\ todos'[t].status = "superseded"
  /\ created' = created + 1
  /\ todos'[u].lineage = todos[t].lineage /\ todos'[u].gen = todos[t].gen + 1
  /\ todos'[u].status = "open"
NewRows ==
  /\ created' >= created
  /\ \A u \in (created + 1)..created' : Fresh(u) \/ \E t \in Todo : Reworks(t, u)

LEMMA InsertNewRows ==
  ASSUME TypeInv, NEW g \in Goal, NEW spec \in Content, Insert(g, spec)
  PROVE  NewRows
<1>1. created' = created + 1 /\ created + 1 \in Todo
  BY DEF Insert, TypeInv, TypeOK
<1>2. todos'[created + 1] = NewRow(g, spec, created + 1, 1)
  BY <1>1 DEF Insert, Update, TypeInv, TypeOK
<1>3. \A u \in (created + 1)..created' : u = created + 1
  BY <1>1 DEF TypeInv, TypeOK
<1>4. created' >= created
  BY <1>1 DEF TypeInv, TypeOK
<1> QED
  BY <1>2, <1>3, <1>4 DEF NewRows, Fresh, NewRow

LEMMA SuccessorNewRows ==
  ASSUME TypeInv, NEW t \in Todo, NEW spec \in Content, CanWriteBack(todos[t]),
         ~Exhausted(todos[t]), SuccessorTx(t, spec)
  PROVE  NewRows /\ Reworks(t, created + 1)
<1> DEFINE r   == todos[t]
           new == NewRow(r.goal, Rework(spec), r.lineage, r.gen + 1)
<1>1. created' = created + 1 /\ created + 1 \in Todo
  BY DEF SuccessorTx, TypeInv, TypeOK
<1>2. r \in Row /\ Present(t) /\ r.status \in InFlight /\ t # created + 1
  BY DEF TypeInv, TypeOK, CanWriteBack, Present
<1>3. /\ todos'[created + 1] = [new EXCEPT !.diff = r.diff]
      /\ todos'[t] = Ended(r, "superseded")
  BY <1>1, <1>2 DEF SuccessorTx, TypeInv, TypeOK
<1>4. todos'[t].status = "superseded"
  <2> HIDE DEF r
  <2> QED
    BY <1>2, <1>3, Zenon DEF Row, Ended
<1>5. LET s == todos'[created + 1] IN
      s.lineage = r.lineage /\ s.gen = r.gen + 1 /\ s.status = "open"
  BY <1>3 DEF NewRow
<1>6. Reworks(t, created + 1)
  BY <1>1, <1>2, <1>4, <1>5 DEF Reworks
<1>7. \A u \in (created + 1)..created' : u = created + 1
  BY <1>1 DEF TypeInv, TypeOK
<1>8. created' >= created
  BY <1>1 DEF TypeInv, TypeOK
<1> QED
  BY <1>6, <1>7, <1>8 DEF NewRows

LEMMA DecideNewRows ==
  ASSUME TypeInv, NEW t \in Todo, NEW decision \in {"approved", "rejected"},
         NEW diff \in Diff, ApplyPlanDiff(t, decision, diff)
  PROVE  NewRows
<1>0. created \in Nat /\ created' >= created /\ (decision = "rejected" => created' = created)
  <2>1. Len(diff.add) \in Nat
    BY LenProperties DEF Diff
  <2> QED
    BY <2>1 DEF ApplyPlanDiff, DecideTx, TypeInv, TypeOK
<1> SUFFICES ASSUME NEW u \in (created + 1)..created' PROVE Fresh(u)
  BY <1>0 DEF NewRows
<1>1. created' \in Int /\ decision = "approved"
      /\ created' = created + Len(diff.add) /\ created' <= MaxTodo
  <2>1. Len(diff.add) \in Nat
    BY LenProperties DEF Diff
  <2> QED
    BY <1>0, <2>1 DEF ApplyPlanDiff, DecideTx
<1>2. u \in Todo /\ u # t
  <2>1. Present(t)
    BY DEF ApplyPlanDiff, CanDecide, Present
  <2> QED
    BY <1>0, <1>1, <2>1 DEF TypeInv, TypeOK
<1>3. todos'[u] = Approved(diff, t)[u]
  BY <1>0, <1>1, <1>2 DEF ApplyPlanDiff, DecideTx, Approved
<1>4. todos'[u] = Added(diff, todos[t].goal, u - created)
  BY <1>0, <1>1, <1>2, <1>3 DEF Approved
<1>5. created + (u - created) = u
  BY <1>0
<1> QED
  BY <1>4, <1>5 DEF Added, NewRow, Fresh

LEMMA StepNewRows == TypeInv /\ [Call]_vars => NewRows
<1> SUFFICES ASSUME TypeInv, [Call]_vars PROVE NewRows
  OBVIOUS
<1>u. CASE created' = created
  BY <1>u DEF NewRows, TypeInv, TypeOK
<1>1. ASSUME NEW g \in Goal, GoalCall(g) PROVE NewRows
  <2>1. CASE \E frozen \in BOOLEAN : CreateGoal(g, frozen)
    BY <1>u, <2>1 DEF CreateGoal
  <2>2. CASE CreateGoalWithPlan(g) \/ FreezeGoal(g)
    BY <2>2, InsertNewRows, PlanSpecType DEF CreateGoalWithPlan, FreezeGoal, FreezeTx
  <2>3. ASSUME NEW spec \in Content, CreateTodo(g, spec) PROVE NewRows
    BY <2>3, InsertNewRows DEF CreateTodo
  <2> QED
    BY <1>1, <2>1, <2>2, <2>3 DEF GoalCall
<1>2. ASSUME NEW t \in Todo, NEW w \in Worker, HolderStep(t, w) PROVE NewRows
  BY <1>u, <1>2 DEF HolderStep, Claim, ClaimTx, RenewLease, RenewTx, MarkRunning, MarkVerifying, MarkTx
<1>3. ASSUME NEW t \in Todo, LapseLease(t) \/ WriteBackCall(t) \/ Reopen(t) PROVE NewRows
  <2>1. ASSUME NEW spec \in Content, WriteSuccessor(t, spec) PROVE NewRows
    BY <1>u, <2>1, SuccessorNewRows DEF WriteSuccessor, WaitTx
  <2> QED
    BY <1>u, <1>3, <2>1
       DEF LapseLease, WriteBackCall, WriteDone, DoneTx, WriteWaiting, WaitTx, Reopen, ReopenTx
<1>4. ASSUME NEW t \in Todo, PlanCall(t) PROVE NewRows
  <2>1. ASSUME NEW diff \in Diff, ProposePlanDiff(t, diff) PROVE NewRows
    BY <1>u, <2>1 DEF ProposePlanDiff, ProposeTx
  <2> QED
    BY <1>4, <2>1, DecideNewRows, Zenon DEF PlanCall
<1>5. CASE \/ UNCHANGED vars \/ NewDay \/ RequeueExpiredLeases
           \/ \E key \in Key, limit \in Limits : SetQuota(key, limit)
  BY <1>u, <1>5 DEF vars, NewDay, RequeueExpiredLeases, RequeueTx, SetQuota
<1> QED
  BY <1>1, <1>2, <1>3, <1>4, <1>5, Zenon DEF Call, OtherCall, HolderStep

(* No step forgets an attempt.                                             *)
LEMMA RoundsGrow ==
  TypeInv /\ [Call]_vars => \A l \in Todo : rounds'[l] \in Nat /\ rounds'[l] >= rounds[l]
<1> SUFFICES ASSUME TypeInv, [Call]_vars
             PROVE  \A l \in Todo : rounds'[l] \in Nat /\ rounds'[l] >= rounds[l]
  OBVIOUS
<1>u. CASE rounds' = rounds
  BY <1>u DEF TypeInv, TypeOK
<1>1. ASSUME NEW t \in Todo, NEW w \in Worker, Claim(t, w)
      PROVE  \A l \in Todo : rounds'[l] \in Nat /\ rounds'[l] >= rounds[l]
  <2>1. rounds \in [Todo -> Nat]
    BY DEF TypeInv, TypeOK
  <2>2. PICK k : rounds' = [rounds EXCEPT ![k] = IF @ < MaxRounds THEN @ + 1 ELSE @]
    BY <1>1 DEF Claim, ClaimTx
  <2> QED
    BY <2>1, <2>2
<1>2. CASE rounds' = rounds \/ \E t \in Todo, w \in Worker : Claim(t, w)
  BY <1>u, <1>1, <1>2
<1> QED
  BY <1>2 DEF Call, OtherCall, vars, GoalCall, CreateGoal, CreateGoalWithPlan, FreezeGoal, FreezeTx, CreateTodo,
     HolderStep, RenewLease, RenewTx, MarkRunning, MarkVerifying, MarkTx, LapseLease,
     WriteBackCall, WriteDone, DoneTx, WriteSuccessor, SuccessorTx, WriteWaiting, WaitTx,
     Reopen, ReopenTx, PlanCall, ProposePlanDiff, ProposeTx, ApplyPlanDiff, DecideTx,
     RequeueExpiredLeases, RequeueTx, SetQuota, NewDay

-----------------------------------------------------------------------------
(* Rework ends.  LineageBounded is not inductive: the step that makes a    *)
(* rework knows the attempts of the lineage, not its length.  LineagePaid  *)
(* ties the two together.                                                  *)

LineageInv == TypeInv /\ LineagePaid /\ LineageBounded /\ LineageIsChain

LEMMA InitLineageInv == Init => LineageInv
<1> SUFFICES ASSUME Init PROVE LineageInv
  OBVIOUS
<1>1. TypeInv
  BY InitTypeInv
<1>2. \A t \in Todo : ~Present(t)
  BY <1>1 DEF Init, TypeInv, TypeOK
<1> QED
  BY <1>1, <1>2 DEF LineageInv, LineagePaid, LineageBounded, LineageIsChain

(* Todo by todo: what it cost, and that its lineage may have it.           *)
LEMMA LineagePaidStep == LineageInv /\ [Call]_vars => LineagePaid' /\ LineageBounded'
<1> SUFFICES ASSUME LineageInv, [Call]_vars, NEW u \in Todo, Present(u)'
             PROVE  LET s == todos'[u] IN
                    /\ s.lineage <= created' /\ s.gen >= 1 /\ s.gen <= LineageLimit
                    /\ s.gen <= rounds'[s.lineage] + 1
                    /\ s.status \in InFlight => s.gen <= rounds'[s.lineage]
  BY DEF LineagePaid, LineageBounded
<1> DEFINE r == todos[u]
           s == todos'[u]
<1>1. TypeInv /\ TypeInv' /\ Moves /\ NewRows
  BY StepMoves, StepNewRows, TypeInvStep DEF LineageInv
<1>2. \A l \in Todo : rounds[l] \in Nat /\ rounds'[l] \in Nat /\ rounds'[l] >= rounds[l]
  BY RoundsGrow DEF LineageInv, TypeInv, TypeOK
<1>3. \A t \in Todo : todos[t].lineage \in Todo /\ todos[t].gen \in Nat
  BY <1>1, Zenon DEF TypeInv, TypeOK, Row
<1>4. created \in Nat /\ created' \in Nat /\ created' >= created
  BY <1>1 DEF TypeInv, TypeOK, NewRows
<1>5. CASE Present(u)
  <2>1. /\ r.lineage <= created /\ r.gen >= 1 /\ r.gen <= LineageLimit
        /\ r.gen <= rounds[r.lineage] + 1
        /\ r.status \in InFlight => r.gen <= rounds[r.lineage]
    BY <1>5 DEF LineageInv, LineagePaid, LineageBounded
  <2>2. CASE RowMove(r, s)
    BY <1>2, <1>3, <1>4, <2>1, <2>2 DEF RowMove
  <2>3. CASE ClaimMove(r, s)
    BY <1>2, <1>3, <1>4, <2>1, <2>3 DEF ClaimMove, Paid
  <2> QED
    BY <1>1, <1>5, <2>2, <2>3 DEF Moves
<1>6. CASE ~Present(u)
  <2>1. u \in (created + 1)..created'
    BY <1>1, <1>4, <1>6 DEF TypeInv, TypeOK
  <2>2. CASE Fresh(u)
    BY <1>2, <2>1, <2>2 DEF Fresh
  <2>3. ASSUME NEW t \in Todo, Reworks(t, u) PROVE /\ s.lineage <= created' /\ s.gen >= 1
               /\ s.gen <= LineageLimit /\ s.gen <= rounds'[s.lineage] + 1 /\ s.status = "open"
    <3>1. /\ todos[t].lineage <= created /\ todos[t].gen >= 1
          /\ todos[t].gen <= rounds[todos[t].lineage]
      BY <2>3 DEF Reworks, LineageInv, LineagePaid
    <3>2. rounds[todos[t].lineage] < LineageLimit
      BY <1>2, <1>3, <2>3 DEF Reworks, Exhausted
    <3> QED
      BY <1>2, <1>3, <1>4, <2>3, <3>1, <3>2 DEF Reworks
  <2> QED
    BY <1>1, <2>1, <2>2, <2>3 DEF NewRows
<1> QED
  BY <1>5, <1>6

(* A lineage stays a chain: a rework is made of the one todo of its        *)
(* lineage that is not settled, and settles it.                            *)
LEMMA LineageIsChainStep == LineageInv /\ [Call]_vars => LineageIsChain'
<1> SUFFICES ASSUME LineageInv, [Call]_vars, NEW t \in Todo, NEW u \in Todo,
                    Present(t)', Present(u)', t # u, todos'[t].lineage = todos'[u].lineage
             PROVE  /\ todos'[t].gen # todos'[u].gen
                    /\ Live(todos'[t]) => todos'[u].gen < todos'[t].gen
  BY DEF LineageIsChain
<1>1. TypeInv /\ TypeInv' /\ Moves /\ NewRows
  BY StepMoves, StepNewRows, TypeInvStep DEF LineageInv
<1>2. created \in Nat /\ created' \in Nat
  BY <1>1 DEF TypeInv, TypeOK
<1>3. \A v \in Todo : todos[v].lineage \in Todo /\ todos[v].gen \in Nat
  BY <1>1, Zenon DEF TypeInv, TypeOK, Row
<1>4. \A v \in Todo : ~Present(v) /\ Present(v)' => v \in (created + 1)..created'
  BY <1>1, <1>2 DEF TypeInv, TypeOK
<1>5. \A v \in Todo : Present(v) =>
        /\ todos'[v].lineage = todos[v].lineage /\ todos'[v].gen = todos[v].gen
        /\ Live(todos'[v]) => Live(todos[v])
        /\ todos[v].lineage <= created
  BY <1>1 DEF Moves, RowMove, ClaimMove, Live, Present, LineageInv, LineagePaid
<1>6. ASSUME NEW v \in Todo, NEW w \in Todo, v \in (created + 1)..created', Present(w), Fresh(v)
      PROVE  todos'[v].lineage # todos'[w].lineage
  BY <1>2, <1>3, <1>5, <1>6 DEF Fresh
<1>7. ASSUME NEW v \in Todo, NEW w \in Todo, NEW x \in Todo, Reworks(x, v), Present(w),
             todos'[v].lineage = todos'[w].lineage
      PROVE  todos'[w].gen < todos'[v].gen /\ ~Live(todos'[w])
  <2>1. Live(todos[x]) /\ todos[w].lineage = todos[x].lineage /\ Present(x)
    BY <1>5, <1>7 DEF Reworks, Live
  <2>2. CASE w = x
    BY <1>3, <1>5, <1>7, <2>2 DEF Reworks, Live
  <2>3. CASE w # x
    <3>1. todos[w].gen < todos[x].gen /\ (Live(todos[w]) => todos[x].gen < todos[w].gen)
      BY <1>7, <2>1, <2>3 DEF LineageInv, LineageIsChain
    <3> QED
      BY <1>3, <1>5, <1>7, <3>1 DEF Reworks
  <2> QED
    BY <2>2, <2>3
<1>8. CASE Present(t) /\ Present(u)
  BY <1>5, <1>8 DEF LineageInv, LineageIsChain
<1>9. CASE Present(t) /\ ~Present(u)
  <2>1. PICK x \in Todo : Reworks(x, u)
    BY <1>1, <1>4, <1>6, <1>9 DEF NewRows
  <2> QED
    BY <1>3, <1>5, <1>7, <1>9, <2>1
<1>10. CASE ~Present(t) /\ Present(u)
  <2>1. PICK x \in Todo : Reworks(x, t)
    BY <1>1, <1>4, <1>6, <1>10 DEF NewRows
  <2> QED
    BY <1>3, <1>5, <1>7, <1>10, <2>1
<1>11. CASE ~Present(t) /\ ~Present(u)
  <2>1. t \in (created + 1)..created' /\ u \in (created + 1)..created'
    BY <1>4, <1>11
  <2>2. created' # created + 1
    BY <1>2, <2>1
  <2>3. Fresh(t) /\ Fresh(u)
    BY <1>1, <2>1, <2>2 DEF NewRows, Reworks
  <2> QED
    BY <2>3 DEF Fresh
<1> QED
  BY <1>8, <1>9, <1>10, <1>11

LEMMA LineageInvStep == LineageInv /\ [Call]_vars => LineageInv'
BY TypeInvStep, LineagePaidStep, LineageIsChainStep DEF LineageInv

(* Each todo of a lineage but the newest has cost the lineage an attempt.  *)
THEOREM ReworkIsPaid == Spec => []LineagePaid
<1>1. LineageInv => LineagePaid
  BY DEF LineageInv
<1>2. LineageInv => TypeInv
  BY DEF LineageInv
<1> QED
  BY InitLineageInv, LineageInvStep, NextIsCall, <1>1, <1>2, PTL DEF Spec

(* No lineage has more todos than lineage_limit (transition), whatever     *)
(* reopenings, lost leases and plan changes come between.                  *)
THEOREM ReworkEnds == Spec => []LineageBounded
<1>1. LineageInv => LineageBounded
  BY DEF LineageInv
<1>2. LineageInv => TypeInv
  BY DEF LineageInv
<1> QED
  BY InitLineageInv, LineageInvStep, NextIsCall, <1>1, <1>2, PTL DEF Spec

(* The todos of a lineage are one chain of reworks and only its newest can *)
(* still be worked on.                                                     *)
THEOREM ReworkIsAChain == Spec => []LineageIsChain
<1>1. LineageInv => LineageIsChain
  BY DEF LineageInv
<1>2. LineageInv => TypeInv
  BY DEF LineageInv
<1> QED
  BY InitLineageInv, LineageInvStep, NextIsCall, <1>1, <1>2, PTL DEF Spec

-----------------------------------------------------------------------------
(* A set of numbers has a least one, and todos have one of most reworks.   *)

LEMMA NatLess ==
  \E R : IsWellFoundedOn(R, Nat) /\ \A x, y \in Nat : x < y => <<x, y>> \in R
<1>1. \A x, y \in Nat : x < y => <<x, y>> \in OpToRel(<, Nat)
  BY DEF OpToRel
<1> QED
  BY <1>1, NatLessThanWellFounded

LEMMA Minimal ==
  ASSUME NEW R, NEW T \in SUBSET Nat, T # {}, IsWellFoundedOn(R, Nat)
  PROVE  \E m \in T : \A n \in T : ~(<<n, m>> \in R)
BY WFMin

LEMMA Least ==
  ASSUME NEW T \in SUBSET Nat, T # {}
  PROVE  \E m \in T : \A n \in T : m <= n
<1>1. \E R : IsWellFoundedOn(R, Nat) /\ \A x, y \in Nat : x < y => <<x, y>> \in R
  BY NatLess
<1>2. ASSUME NEW R, IsWellFoundedOn(R, Nat), \A x, y \in Nat : x < y => <<x, y>> \in R
      PROVE  \E m \in T : \A n \in T : m <= n
  <2>1. \E m \in T : \A n \in T : ~(<<n, m>> \in R)
    BY <1>2, Minimal
  <2>2. PICK m \in T : \A n \in T : ~(<<n, m>> \in R)
    BY <2>1
  <2>3. ASSUME NEW n \in T PROVE m <= n
    <3>1. n \in Nat /\ m \in Nat
      OBVIOUS
    <3>2. ~(n < m)
      BY <1>2, <2>2, <3>1
    <3> QED
      BY <3>1, <3>2
  <2> QED
    BY <2>3
<1> QED
  BY <1>1, <1>2

-----------------------------------------------------------------------------
(* A lineage is one piece of work.  A row in flight is closed as           *)
(* superseded only to be reworked: the new todo carries the work on.       *)

LEMMA DroppedInFlight ==
  ASSUME TypeInv, [Call]_vars, NEW t \in Todo,
         todos[t].status \in InFlight, todos'[t].status = "superseded"
  PROVE  Reworks(t, created + 1)
<1>1. CASE Quiet
  BY <1>1 DEF Quiet, Keeps, Live
<1>2. ASSUME NEW g \in Goal, Insertion(g) PROVE FALSE
  BY <1>2, InsertEffect
<1>3. ASSUME NEW g \in Goal, NEW frozen \in BOOLEAN, CreateGoal(g, frozen) PROVE FALSE
  BY <1>3 DEF CreateGoal
<1>4. ASSUME NEW u \in Todo, NEW evidence \in BOOLEAN, WriteDone(u, evidence) PROVE FALSE
  BY <1>4, DoneEffect
<1>5. ASSUME NEW u \in Todo, NEW spec \in Content, CanWriteBack(todos[u]),
             ~Exhausted(todos[u]), SuccessorTx(u, spec)
      PROVE  Reworks(t, created + 1)
  BY <1>5, SuccessorEffect, SuccessorNewRows
<1>6. ASSUME NEW u \in Todo, NEW decision \in {"approved", "rejected"}, NEW diff \in Diff,
             ApplyPlanDiff(u, decision, diff)
      PROVE  FALSE
  BY <1>6, DecideEffect
<1> QED
  BY <1>1, <1>2, <1>3, <1>4, <1>5, <1>6, QuietOrLoud DEF Loud

(* The newest todo of a lineage, and how to recognise it.                  *)
LEMMA NewestIs ==
  ASSUME NEW ts, NEW S, NEW t \in S,
         \A u \in S : ts[u].gen \in Nat, \A u \in S \ {t} : ts[u].gen < ts[t].gen
  PROVE  t = CHOOSE v \in S : \A u \in S : ts[u].gen <= ts[v].gen
<1>1. \A u \in S : ts[u].gen <= ts[t].gen
  OBVIOUS
<1>2. \A v \in S : (\A u \in S : ts[u].gen <= ts[v].gen) => v = t
  OBVIOUS
<1> QED
  BY <1>1, <1>2

LEMMA NewestExists ==
  ASSUME LineageInv, NEW l \in Todo, Lineage(l) # {}
  PROVE  /\ Newest(l) \in Lineage(l)
         /\ \A u \in Lineage(l) : todos[u].gen <= todos[Newest(l)].gen
<1> DEFINE T == {n \in Nat : \E u \in Lineage(l) : todos[u].gen + n = LineageLimit}
<1>1. \A u \in Lineage(l) : todos[u].gen \in Nat /\ todos[u].gen <= LineageLimit
  BY DEF Lineage, LineageInv, LineageBounded, TypeInv, TypeOK, Row
<1>2. \A u \in Lineage(l) : LineageLimit - todos[u].gen \in T
  BY <1>1
<1>3. PICK m \in T : \A n \in T : m <= n
  <2>1. T \in SUBSET Nat /\ T # {}
    BY <1>2
  <2> HIDE DEF T
  <2> QED
    BY <2>1, Least
<1>4. PICK v \in Lineage(l) : todos[v].gen + m = LineageLimit
  BY <1>3
<1>5. ASSUME NEW u \in Lineage(l) PROVE todos[u].gen <= todos[v].gen
  <2>1. m <= LineageLimit - todos[u].gen
    BY <1>2, <1>3
  <2>2. m \in Nat /\ todos[u].gen \in Nat /\ todos[v].gen \in Nat
    BY <1>1, <1>3
  <2> QED
    BY <1>4, <2>1, <2>2
<1> QED
  BY <1>5 DEF Newest

(* The row of the newest todo moves as a piece of work may.                *)
Record(state, by, n) == [state |-> state, by |-> by, reworked |-> n]
Moved(x, y) ==
  <<x, y>> \in {<<"held", "queued">>, <<"held", "waiting">>, <<"held", "done">>,
               <<"waiting", "queued">>, <<"waiting", "dropped">>, <<"queued", "dropped">>}
ItemMove(a, b) ==
  \/ b = a
  \/ \E x, by, n : /\ a = Record(x, by, n)
                   /\ \/ x = "queued" /\ \E w \in Worker : b = Record("held", w, n)
                      \/ \E y : Moved(x, y) /\ b = Record(y, Nobody, n)

LEMMA RowItem ==
  ASSUME NEW r \in Row, NEW s \in Row, r.status # "absent", s.status # "absent", ClaimOK(s),
         RowMove(r, s) \/ ClaimMove(r, s), r.status \in InFlight => s.status # "superseded"
  PROVE  ItemMove(ItemOf(r), ItemOf(s))
<1>1. r.status \in Statuses /\ s.status \in Statuses /\ s.gen = r.gen
  BY DEF Row, RowMove, ClaimMove
<1>2. /\ StateOf("open") = "queued" /\ StateOf("done") = "done" /\ StateOf("superseded") = "dropped"
      /\ \A status \in InFlight : StateOf(status) = "held"
      /\ \A status \in Waiting : StateOf(status) = "waiting"
  BY DEF StateOf
<1>3. \A q \in {r, s} :
        ItemOf(q) = Record(StateOf(q.status), IF q.status \in InFlight THEN q.claimedBy ELSE Nobody,
                           r.gen - 1)
  BY <1>1 DEF ItemOf, Record
<1>4. CASE s.status \in InFlight /\ r.status \in InFlight
  <2>1. s.claimedBy = r.claimedBy
    BY <1>4 DEF RowMove, ClaimMove
  <2> QED
    BY <1>2, <1>3, <1>4, <2>1 DEF ItemMove
<1>5. CASE s.status \in InFlight /\ r.status \notin InFlight
  <2>1. r.status = "open" /\ s.claimedBy \in Worker
    BY <1>5 DEF RowMove, ClaimMove, ClaimOK, Row
  <2> QED
    BY <1>2, <1>3, <1>5, <2>1 DEF ItemMove
<1>6. CASE s.status \notin InFlight
  <2>1. RowMove(r, s)
    BY <1>6 DEF ClaimMove
  <2>2. \/ StateOf(s.status) = StateOf(r.status) /\ r.status \notin InFlight
        \/ Moved(StateOf(r.status), StateOf(s.status))
    BY <1>1, <1>2, <1>6, <2>1 DEF RowMove, Moved
  <2> QED
    BY <1>3, <1>6, <2>2 DEF ItemMove
<1> QED
  BY <1>4, <1>5, <1>6

Reset(a, state, by) == [a EXCEPT !.state = state, !.by = by]

LEMMA RecordReset ==
  \A x, by, n, y, z : Record(x, by, n).state = x /\ Reset(Record(x, by, n), y, z) = Record(y, z, n)
<1> TAKE x, by, n, y, z
<1> DEFINE Records == [state : {x, y}, by : {by, z}, reworked : {n}]
           a == Record(x, by, n)
<1>1. a \in Records /\ a.state = x /\ a.reworked = n
  BY DEF Record
<1>2. y \in {x, y} /\ z \in {by, z}
  OBVIOUS
<1>3. \A b \in Records : b.state = y /\ b.by = z /\ b.reworked = n => b = Record(y, z, n)
  BY DEF Record
<1> HIDE DEF a
<1>4. LET b == Reset(a, y, z) IN
      b \in Records /\ b.state = y /\ b.by = z /\ b.reworked = a.reworked
  BY <1>1, <1>2, Zenon DEF Reset
<1> HIDE DEF Records
<1>5. Reset(a, y, z) = Record(y, z, n)
  BY <1>1, <1>3, <1>4
<1> QED
  BY <1>1, <1>5 DEF a

LEMMA ItemMoves ==
  ASSUME NEW l \in Todo, ItemMove(items[l], items'[l])
  PROVE  items'[l] = items[l] \/ WorkItem!Move(l)
<1>1. CASE \E x, by, n : /\ items[l] = Record(x, by, n) /\ x = "queued"
                        /\ \E w \in Worker : items'[l] = Record("held", w, n)
  <2>1. PICK w \in Worker : \E x, by, n : /\ items[l] = Record(x, by, n) /\ x = "queued"
                                     /\ items'[l] = Record("held", w, n)
    BY <1>1
  <2>2. items[l].state \in {"queued"} /\ items'[l] = Reset(items[l], "held", w)
    BY <2>1, RecordReset
  <2> QED
    BY <2>2, Zenon DEF Reset, WorkItem!Move, WorkItem!Take, WorkItem!In
<1>2. CASE \E x, by, n, y : /\ items[l] = Record(x, by, n) /\ Moved(x, y)
                           /\ items'[l] = Record(y, Nobody, n)
  <2>1. PICK x, by, n, y : /\ items[l] = Record(x, by, n) /\ Moved(x, y)
                           /\ items'[l] = Record(y, Nobody, n)
    BY <1>2
  <2>2. items[l].state = x /\ items'[l] = Reset(items[l], y, Nobody)
    BY <2>1, RecordReset
  <2>3. WorkItem!Put(l, y)
    BY <2>2, Zenon DEF Reset, WorkItem!Put
  <2> QED
    BY <2>1, <2>2, <2>3
       DEF Moved, WorkItem!Move, WorkItem!GiveBack, WorkItem!Park, WorkItem!Resume,
           WorkItem!Finish, WorkItem!Drop, WorkItem!In
<1> QED
  BY <1>1, <1>2 DEF ItemMove

LEMMA LineageMoves ==
  ASSUME LineageInv, [Call]_vars, NEW l \in Todo
  PROVE  items'[l] = items[l] \/ WorkItem!Move(l)
<1> DEFINE L == Lineage(l)
           M == {t \in Todo : todos'[t].status # "absent" /\ todos'[t].lineage = l}
           n == Newest(l)
           k == CHOOSE t \in M : \A u \in M : todos'[u].gen <= todos'[t].gen
<1>1. LineageInv' /\ Moves /\ NewRows /\ TypeInv /\ TypeInv'
  BY LineageInvStep, StepMoves, StepNewRows DEF LineageInv
<1>2. /\ created \in Nat /\ created' \in Nat /\ created' >= created
      /\ \A t \in Todo : todos[t] \in Row /\ todos'[t] \in Row
      /\ \A t \in Todo : (todos[t].status # "absent" <=> t <= created)
                         /\ (todos'[t].status # "absent" <=> t <= created')
  BY <1>1 DEF NewRows, TypeInv, TypeOK, Present
<1>3. \A t \in L : t \in M /\ todos'[t].gen = todos[t].gen
  <2> SUFFICES ASSUME NEW t \in L PROVE t \in M /\ todos'[t].gen = todos[t].gen
    OBVIOUS
  <2>1. t \in Todo /\ Present(t) /\ todos[t].lineage = l
    BY DEF Lineage
  <2>2. todos'[t].lineage = l /\ todos'[t].gen = todos[t].gen
    BY <1>1, <2>1 DEF Moves, RowMove, ClaimMove
  <2>3. t <= created'
    BY <1>2, <2>1 DEF Present
  <2> QED
    BY <1>2, <2>1, <2>2, <2>3
<1>4. ASSUME NEW u \in M, u \notin L
      PROVE  /\ todos'[u].status = "open"
             /\ \/ u = l /\ u > created /\ todos'[u].gen = 1
                \/ \E t \in L : u = created + 1 /\ Reworks(t, u)
  <2>1. u \in (created + 1)..created'
    <3>1. u \in Todo /\ todos'[u].status # "absent" /\ todos'[u].lineage = l
      OBVIOUS
    <3>2. CASE Present(u)
      BY <1>1, <1>4, <3>1, <3>2 DEF Moves, RowMove, ClaimMove, Lineage
    <3>3. CASE ~Present(u)
      BY <1>2, <3>1, <3>3 DEF Present
    <3> QED
      BY <3>2, <3>3
  <2>2. CASE Fresh(u)
    BY <1>2, <2>1, <2>2 DEF Fresh
  <2>3. ASSUME NEW t \in Todo, Reworks(t, u) PROVE t \in L /\ u = created + 1
    BY <1>2, <2>1, <2>3 DEF Reworks, Lineage
  <2> QED
    BY <1>1, <2>1, <2>2, <2>3 DEF NewRows, Reworks
<1>5. /\ items[l] = IF L = {} THEN [state |-> "absent", by |-> Nobody, reworked |-> 0]
                    ELSE ItemOf(todos[n])
      /\ items'[l] = IF M = {} THEN [state |-> "absent", by |-> Nobody, reworked |-> 0]
                     ELSE ItemOf(todos'[k])
  BY DEF items, Lineage, Newest, Present
<1>6. \A t \in M : todos'[t].gen \in Nat
  BY <1>2 DEF Row
<1>7. CASE M = {}
  BY <1>3, <1>5, <1>7
<1>8. CASE L = {} /\ M # {}
  <2>1. M = {l} /\ todos'[l].status = "open" /\ todos'[l].gen = 1
    BY <1>4, <1>8
  <2>2. k = l
    BY <2>1
  <2>3. items'[l] = [state |-> "queued", by |-> Nobody, reworked |-> 0] /\ items[l].state = "absent"
    <3>1. ItemOf(todos'[l]) = [state |-> "queued", by |-> Nobody, reworked |-> 0]
      BY <2>1 DEF ItemOf, StateOf
    <3>2. items'[l] = ItemOf(todos'[l])
      BY <1>5, <1>8, <2>2
    <3>3. items[l].state = "absent"
      BY <1>5, <1>8
    <3> QED
      BY <3>1, <3>2, <3>3
  <2> QED
    BY <2>3 DEF WorkItem!Move, WorkItem!Create, WorkItem!In, WorkItem!Fresh
<1>9. CASE L # {}
  <2>1. n \in L /\ n \in Todo /\ Present(n) /\ todos[n].gen \in Nat
    BY <1>2, <1>9, NewestExists DEF Lineage, Row
  <2>2. \A u \in L \ {n} : todos[u].gen < todos[n].gen
    <3> SUFFICES ASSUME NEW u \in L, u # n PROVE todos[u].gen < todos[n].gen
      OBVIOUS
    <3>1. u \in Todo /\ Present(u) /\ todos[u].lineage = todos[n].lineage /\ todos[u].gen \in Nat
      BY <1>2, <2>1 DEF Lineage, Row
    <3>2. todos[u].gen # todos[n].gen
      BY <2>1, <3>1 DEF LineageInv, LineageIsChain
    <3>3. todos[u].gen <= todos[n].gen
      BY <1>9, NewestExists
    <3> QED
      BY <2>1, <3>1, <3>2, <3>3
  <2>3. ASSUME NEW t \in L, Reworks(t, created + 1), created + 1 \in M
        PROVE  items'[l] = items[l] \/ WorkItem!Move(l)
    <3>1. t \in Todo /\ Present(t) /\ todos[t].status \in InFlight
      BY <2>3 DEF Lineage, Reworks
    <3>2. n = t
      <4>1. n # t => todos[n].gen < todos[t].gen
        BY <2>1, <3>1 DEF LineageInv, LineageIsChain, Live, Lineage
      <4>2. todos[t].gen \in Nat
        BY <1>2, <3>1 DEF Row
      <4> QED
        BY <2>1, <2>2, <4>1, <4>2
    <3>3. todos'[created + 1].gen = todos[n].gen + 1 /\ todos'[created + 1].status = "open"
      BY <2>3, <3>2 DEF Reworks
    <3>4. \A u \in M : u \in L \/ u = created + 1
      <4>1. l <= created
        BY <2>1 DEF Lineage, LineageInv, LineagePaid
      <4> QED
        BY <1>2, <1>4, <4>1
    <3>5. \A u \in M \ {created + 1} : todos'[u].gen < todos'[created + 1].gen
      <4> SUFFICES ASSUME NEW u \in M, u # created + 1
                   PROVE  todos'[u].gen < todos'[created + 1].gen
        OBVIOUS
      <4>1. u \in L /\ todos'[u].gen = todos[u].gen /\ todos[u].gen \in Nat
        BY <1>2, <1>3, <3>4 DEF Lineage, Row
      <4>2. todos[u].gen <= todos[n].gen
        BY <1>9, <4>1, NewestExists
      <4> QED
        BY <2>1, <3>3, <4>1, <4>2
    <3>6. k = created + 1
      <4> HIDE DEF M
      <4> QED
        BY <1>6, <2>3, <3>5, NewestIs
    <3>7. todos[n].gen < LineageLimit
      <4>1. todos'[created + 1].gen <= LineageLimit
        BY <1>1, <2>3 DEF LineageInv, LineageBounded, Present
      <4> QED
        BY <2>1, <3>3, <4>1
    <3>8. /\ items[l] = [state |-> "held", by |-> todos[n].claimedBy, reworked |-> todos[n].gen - 1]
          /\ items'[l] = [state |-> "queued", by |-> Nobody, reworked |-> todos[n].gen]
      <4>1. M # {}
        BY <2>3
      <4> HIDE DEF L, M, n, k
      <4> QED
        BY <1>5, <1>9, <2>1, <3>1, <3>2, <3>3, <3>6, <4>1 DEF ItemOf, StateOf
    <3> HIDE DEF n
    <3> QED
      BY <2>1, <3>7, <3>8 DEF WorkItem!Move, WorkItem!Rework, WorkItem!In
  <2>4. CASE ~(\E t \in L : Reworks(t, created + 1) /\ created + 1 \in M)
    <3>1. M = L
      <4>1. l <= created
        BY <2>1 DEF Lineage, LineageInv, LineagePaid
      <4> QED
        BY <1>2, <1>3, <1>4, <2>4, <4>1
    <3>2. k = n
      <4>1. n \in M /\ \A u \in M \ {n} : todos'[u].gen < todos'[n].gen
        BY <1>3, <2>1, <2>2, <3>1
      <4> HIDE DEF M, n
      <4> QED
        BY <1>6, <4>1, NewestIs
    <3>3. RowMove(todos[n], todos'[n]) \/ ClaimMove(todos[n], todos'[n])
      BY <1>1, <2>1 DEF Moves
    <3>4. todos[n].status \in InFlight => todos'[n].status # "superseded"
      <4> SUFFICES ASSUME todos[n].status \in InFlight, todos'[n].status = "superseded" PROVE FALSE
        OBVIOUS
      <4>1. Reworks(n, created + 1)
        BY <1>1, <2>1, DroppedInFlight
      <4>2. created + 1 \in M
        <5>1. created' = created + 1 /\ todos'[created + 1].lineage = l
          BY <2>1, <4>1 DEF Reworks, Lineage
        <5>2. created + 1 \in Todo
          BY <1>1, <1>2, <5>1 DEF TypeInv, TypeOK
        <5> QED
          BY <1>2, <5>1, <5>2
      <4> QED
        BY <2>1, <2>4, <4>1, <4>2
    <3>5. n \in M /\ ClaimOK(todos'[n])
      BY <1>1, <2>1, <3>1 DEF TypeInv, ClaimConsistent
    <3>6. ItemMove(ItemOf(todos[n]), ItemOf(todos'[n]))
      BY <1>2, <2>1, <3>3, <3>4, <3>5, RowItem DEF Present
    <3>7. items[l] = ItemOf(todos[n]) /\ items'[l] = ItemOf(todos'[n])
      BY <1>5, <1>9, <3>1, <3>2
    <3> QED
      BY <3>6, <3>7, ItemMoves
  <2> QED
    BY <2>3, <2>4
<1> QED
  BY <1>7, <1>8, <1>9

LEMMA InitItems == Init => WorkItem!Init
<1> SUFFICES ASSUME Init PROVE WorkItem!Init
  OBVIOUS
<1>1. \A t \in Todo : ~Present(t)
  BY InitTypeInv DEF Init, TypeInv, TypeOK
<1> QED
  BY <1>1 DEF WorkItem!Init, WorkItem!Fresh, items, Lineage

LEMMA ItemsStep == LineageInv /\ [Call]_vars => [WorkItem!Next]_items
BY LineageMoves DEF WorkItem!Next

(* A lineage is one piece of work (WorkItems), whatever claims, lost       *)
(* leases, reworks, reopenings and plan changes its todos go through.      *)
THEOREM KernelImplementsWorkItems == Spec => LineageIsWorkItem
<1>1. LineageInv => TypeInv
  BY DEF LineageInv
<1> QED
  BY InitLineageInv, LineageInvStep, NextIsCall, InitItems, ItemsStep, <1>1, PTL
     DEF Spec, LineageIsWorkItem, WorkItem!Spec

=============================================================================
