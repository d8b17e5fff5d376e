------------------------------ MODULE CallsProofs ------------------------------
(***************************************************************************)
(* Proofs about KernelCalls for any number of threads: although each reads *)
(* before its transaction, and acts on a row as it has become meanwhile,   *)
(* the tables stay well formed and rework is paid for and ends.  Claims    *)
(* are not consistent here, so nothing below may rest on that they are.    *)
(***************************************************************************)
EXTENDS KernelCalls, KernelProofs

USE KernelAssumption DEF Todo, Key, Nobody, NoRole, Kinds, InFlight, Settled, Waiting, Statuses

-----------------------------------------------------------------------------
(* What a thread knows of the tables from its read until its transaction,  *)
(* whatever the others write in between: its todo exists; if it was in     *)
(* flight, the attempt that brought it there is counted; if it may have a  *)
(* successor, its lineage has room for one.                                *)

OnTodo == {"claim", "renew", "run", "verify", "reopen", "done", "successor",
           "propose", "approved", "rejected"} \cup Waiting

Cost(ts, rs, t) == ts[t].gen <= rs[ts[t].lineage]

Knows(ts, rs, p) ==
  /\ p.op \in OnTodo => p.todo \in Todo /\ ts[p.todo].status # "absent"
  /\ p.op \in {"run", "verify", "successor"} => Cost(ts, rs, p.todo)
  /\ p.op = "successor" => ts[p.todo].gen < LineageLimit
  /\ p.op \in {"propose", "approved", "rejected"} => p.diff \in Diff
  /\ p.op = "requeue" => p.expired \subseteq Todo /\ \A t \in p.expired : ts[t].status # "absent"
  /\ p.op = "freeze" => p.goal \in Goal

Pending == /\ pending = [c \in Thread |-> pending[c]]
           /\ \A c \in Thread : Knows(todos, rounds, pending[c])

(* The table of todos and the count of attempts, without the claims.       *)
RowsPaid ==
  /\ todos \in [Todo -> Row] /\ created \in 0..MaxTodo
  /\ \A t \in Todo : Present(t) <=> t <= created
  /\ rounds \in [Todo -> Nat]
  /\ LineagePaid /\ LineageBounded

CallsPaid == RowsPaid /\ GoalsType /\ QuotaType /\ Pending

(* What others may do to a todo that exists: its place in its lineage      *)
(* stays, and attempts are never forgotten.                                *)
Same(r, s) == s.status # "absent" /\ s.gen = r.gen /\ s.lineage = r.lineage
Grows ==
  /\ \A u \in Todo : Present(u) => Same(todos[u], todos'[u])
  /\ \A l \in Todo : rounds'[l] >= rounds[l]

LEMMA KnowsOn ==
  ASSUME RowsPaid, RowsPaid', Grows
  PROVE  \A p : Knows(todos, rounds, p) => Knows(todos', rounds', p)
<1>1. \A t \in Todo : /\ todos[t].lineage \in Todo /\ todos[t].gen \in Nat
                      /\ todos'[t].lineage \in Todo /\ todos'[t].gen \in Nat
  BY DEF RowsPaid, Row
<1>2. \A l \in Todo : rounds[l] \in Nat /\ rounds'[l] \in Nat
  BY DEF RowsPaid
<1>3. ASSUME NEW t \in Todo, todos[t].status # "absent"
      PROVE  /\ todos'[t].status # "absent" /\ todos'[t].gen = todos[t].gen
             /\ Cost(todos, rounds, t) => Cost(todos', rounds', t)
  BY <1>1, <1>2, <1>3 DEF Grows, Same, Present, Cost
<1> SUFFICES ASSUME NEW p, Knows(todos, rounds, p) PROVE Knows(todos', rounds', p)
  OBVIOUS
<1>4. p.op \in OnTodo => p.todo \in Todo /\ todos'[p.todo].status # "absent"
  BY <1>3 DEF Knows
<1>5. p.op \in {"run", "verify", "successor"} => Cost(todos', rounds', p.todo)
  BY <1>3 DEF Knows, OnTodo
<1>6. p.op = "successor" => todos'[p.todo].gen < LineageLimit
  BY <1>3 DEF Knows, OnTodo
<1>7. p.op = "requeue" => /\ p.expired \subseteq Todo
                          /\ \A t \in p.expired : todos'[t].status # "absent"
  BY <1>3 DEF Knows
<1> QED
  BY <1>4, <1>5, <1>6, <1>7 DEF Knows

-----------------------------------------------------------------------------
(* The transactions on the tables.                                         *)

(* Rows that are written or left: what each of them owes.                  *)
Owes(r, s) == /\ s \in Row /\ Same(r, s)
              /\ s.status \in InFlight => s.gen <= rounds'[s.lineage]

LEMMA RowsWritten ==
  ASSUME RowsPaid, created' = created, rounds' \in [Todo -> Nat],
         \A l \in Todo : rounds'[l] >= rounds[l],
         todos' = [u \in Todo |-> todos'[u]],
         \A u \in Todo : todos'[u] = todos[u] \/ (Present(u) /\ Owes(todos[u], todos'[u]))
  PROVE  RowsPaid' /\ Grows
<1>1. \A u \in Todo : /\ todos[u] \in Row /\ todos'[u] \in Row
                      /\ todos'[u].gen = todos[u].gen /\ todos'[u].lineage = todos[u].lineage
                      /\ Present(u) <=> todos'[u].status # "absent"
  BY DEF RowsPaid, Owes, Same, Present
<1>2. \A u \in Todo : todos[u].lineage \in Todo /\ todos[u].gen \in Nat
  BY <1>1 DEF Row
<1>3. \A l \in Todo : rounds[l] \in Nat /\ rounds'[l] \in Nat
  BY DEF RowsPaid
<1>4. ASSUME NEW u \in Todo, todos'[u].status # "absent"
      PROVE  /\ todos'[u].lineage <= created' /\ todos'[u].gen >= 1
             /\ todos'[u].gen <= rounds'[todos'[u].lineage] + 1
             /\ todos'[u].status \in InFlight => todos'[u].gen <= rounds'[todos'[u].lineage]
             /\ todos'[u].gen <= LineageLimit
  <2>1. /\ todos[u].lineage <= created /\ todos[u].gen >= 1
        /\ todos[u].gen <= rounds[todos[u].lineage] + 1
        /\ todos[u].status \in InFlight => todos[u].gen <= rounds[todos[u].lineage]
        /\ todos[u].gen <= LineageLimit
    BY <1>1, <1>4 DEF RowsPaid, LineagePaid, LineageBounded
  <2>2. rounds'[todos[u].lineage] >= rounds[todos[u].lineage]
    BY <1>2
  <2>3. todos'[u].status \in InFlight => todos'[u].gen <= rounds'[todos'[u].lineage]
    BY <1>1, <1>2, <1>3, <2>1, <2>2 DEF Owes
  <2> QED
    BY SMTT(20), <1>1, <1>2, <1>3, <2>1, <2>2, <2>3
<1>5. LineagePaid' /\ LineageBounded'
  BY <1>4 DEF LineagePaid, LineageBounded, Present
<1>6. todos' \in [Todo -> Row] /\ \A t \in Todo : Present(t)' <=> t <= created'
  BY <1>1 DEF RowsPaid, Present
<1>7. Grows
  BY <1>1 DEF Grows, Same, Present
<1> QED
  BY <1>5, <1>6, <1>7 DEF RowsPaid

(* A row that holds no todo yet stays so.                                  *)
LEMMA AbsentWritten ==
  ASSUME RowsPaid, NEW t \in Todo, ~Present(t), NEW s \in Row, s.status = "absent",
         Update(t, s), created' = created, rounds' = rounds
  PROVE  RowsPaid' /\ Grows
<1>1. todos' = [u \in Todo |-> IF u = t THEN s ELSE todos[u]]
  BY DEF Update, RowsPaid
<1>2. \A u \in Todo : /\ todos'[u] \in Row
                      /\ todos'[u].status = todos[u].status
                      /\ Present(u) => todos'[u] = todos[u]
  BY <1>1 DEF RowsPaid, Present
<1>3. \A u \in Todo : Present(u)' <=> Present(u)
  BY <1>2 DEF Present
<1>4. LineagePaid' /\ LineageBounded'
  BY <1>2, <1>3 DEF RowsPaid, LineagePaid, LineageBounded
<1>5. \A l \in Todo : rounds[l] \in Nat
  BY DEF RowsPaid
<1>6. Grows
  BY <1>2, <1>5 DEF Grows, Same, Present
<1>7. todos' \in [Todo -> Row]
  BY <1>1 DEF RowsPaid
<1> QED
  BY <1>3, <1>4, <1>6, <1>7 DEF RowsPaid

(* A row is replaced.                                                      *)
LEMMA OneWritten ==
  ASSUME RowsPaid, NEW t \in Todo, Present(t), NEW s, Update(t, s), Owes(todos[t], s),
         created' = created, rounds' \in [Todo -> Nat],
         \A l \in Todo : rounds'[l] >= rounds[l]
  PROVE  RowsPaid' /\ Grows
<1>1. todos' = [u \in Todo |-> IF u = t THEN s ELSE todos[u]]
  BY DEF Update, RowsPaid
<1>2. todos' = [u \in Todo |-> todos'[u]]
  BY <1>1
<1>3. \A u \in Todo : todos'[u] = todos[u] \/ (Present(u) /\ Owes(todos[u], todos'[u]))
  BY <1>1
<1> QED
  BY <1>2, <1>3, RowsWritten

(* Attempts stay as they are.                                              *)
LEMMA QuietWritten ==
  ASSUME RowsPaid, NEW t \in Todo, Present(t), NEW s, Update(t, s), s \in Row, Same(todos[t], s),
         s.status \in InFlight => todos[t].status \in InFlight \/ Cost(todos, rounds, t),
         created' = created, rounds' = rounds
  PROVE  RowsPaid' /\ Grows
<1>1. todos[t].lineage \in Todo /\ todos[t] \in Row
  BY DEF RowsPaid, Row
<1>2. \A l \in Todo : rounds[l] \in Nat
  BY DEF RowsPaid
<1>3. Owes(todos[t], s)
  BY <1>1 DEF Owes, Same, Cost, RowsPaid, LineagePaid
<1>4. rounds' \in [Todo -> Nat] /\ \A l \in Todo : rounds'[l] >= rounds[l]
  BY <1>2 DEF RowsPaid
<1> QED
  BY <1>3, <1>4, OneWritten

(* The UPDATEs, on a row of any status.                                    *)
LEMMA UpdatesKeep ==
  ASSUME NEW r \in Row, r.status # "absent"
  PROVE  /\ \A w \in Worker : Claimed(r, w) \in Row /\ Same(r, Claimed(r, w))
         /\ \A l \in {"live", "expired"} :
              /\ [r EXCEPT !.lease = l] \in Row /\ Same(r, [r EXCEPT !.lease = l])
              /\ [r EXCEPT !.lease = l].status = r.status
         /\ \A s \in {"running", "verifying"} :
              [r EXCEPT !.status = s] \in Row /\ Same(r, [r EXCEPT !.status = s])
         /\ Requeued(r) \in Row /\ Same(r, Requeued(r)) /\ Requeued(r).status = "open"
         /\ \A s \in Settled \cup Waiting :
              Ended(r, s) \in Row /\ Same(r, Ended(r, s)) /\ Ended(r, s).status = s
         /\ Reopened(r) \in Row /\ Same(r, Reopened(r)) /\ Reopened(r).status = "open"
         /\ \A d \in Diff : /\ Proposed(r, d) \in Row /\ Same(r, Proposed(r, d))
                            /\ Proposed(r, d).status = "needs_user"
<1>0. 0 \in 0..2 /\ 1 \in 0..2 /\ 2 \in 0..2
  OBVIOUS
<1>1. \A w \in Worker : Claimed(r, w) \in Row /\ Same(r, Claimed(r, w))
  BY <1>0, ZenonT(40) DEF Row, Same, Claimed
<1>2. \A l \in {"live", "expired"} :
        /\ [r EXCEPT !.lease = l] \in Row /\ Same(r, [r EXCEPT !.lease = l])
        /\ [r EXCEPT !.lease = l].status = r.status
  BY Zenon DEF Row, Same
<1>3. \A s \in {"running", "verifying"} :
        [r EXCEPT !.status = s] \in Row /\ Same(r, [r EXCEPT !.status = s])
  BY Zenon DEF Row, Same
<1>4. Requeued(r) \in Row /\ Same(r, Requeued(r)) /\ Requeued(r).status = "open"
  BY <1>0, Zenon DEF Row, Same, Requeued
<1>5. \A s \in Settled \cup Waiting :
        Ended(r, s) \in Row /\ Same(r, Ended(r, s)) /\ Ended(r, s).status = s
  BY <1>0, Zenon DEF Row, Same, Ended
<1>6. Reopened(r) \in Row /\ Same(r, Reopened(r)) /\ Reopened(r).status = "open"
  BY Zenon DEF Row, Same, Reopened
<1>7. \A d \in Diff : /\ Proposed(r, d) \in Row /\ Same(r, Proposed(r, d))
                      /\ Proposed(r, d).status = "needs_user"
  BY <1>0, Zenon DEF Row, Same, Proposed
<1> QED
  BY <1>1, <1>2, <1>3, <1>4, <1>5, <1>6, <1>7

LEMMA ClaimWritten ==
  ASSUME RowsPaid, NEW t \in Todo, Present(t), NEW w \in Worker, ClaimTx(t, w)
  PROVE  RowsPaid' /\ Grows
<1> DEFINE l == todos[t].lineage
<1>1. todos[t] \in Row /\ l \in Todo /\ todos[t].gen \in Nat
  BY DEF RowsPaid, Row
<1>2. \A k \in Todo : rounds[k] \in Nat
  BY DEF RowsPaid
<1>3. /\ todos[t].gen <= rounds[l] + 1 /\ todos[t].gen <= LineageLimit
  BY DEF RowsPaid, LineagePaid, LineageBounded
<1>4. rounds' = [rounds EXCEPT ![l] = IF rounds[l] < MaxRounds THEN rounds[l] + 1 ELSE rounds[l]]
  BY DEF ClaimTx
<1>5. Claimed(todos[t], w) \in Row /\ Same(todos[t], Claimed(todos[t], w))
  BY <1>1, UpdatesKeep DEF Present
<1> HIDE DEF l
<1>6. rounds' \in [Todo -> Nat] /\ \A k \in Todo : rounds'[k] >= rounds[k]
  BY <1>1, <1>2, <1>4 DEF RowsPaid
<1>7. todos[t].gen <= rounds'[l]
  BY <1>1, <1>2, <1>3, <1>4 DEF RowsPaid
<1>8. Owes(todos[t], Claimed(todos[t], w))
  BY <1>5, <1>7 DEF Owes, Same, l
<1> QED
  BY <1>6, <1>8, OneWritten DEF ClaimTx

(* The UPDATEs that count no attempt.  Marking a todo brings it back into  *)
(* flight if it was taken back meanwhile; its attempt was counted.         *)
LEMMA UpdateWritten ==
  ASSUME RowsPaid, NEW t \in Todo, Present(t), created' = created, rounds' = rounds,
         \/ Update(t, [todos[t] EXCEPT !.lease = "live"])
         \/ Update(t, [todos[t] EXCEPT !.lease = "expired"])
         \/ Cost(todos, rounds, t)
              /\ \E s \in {"running", "verifying"} : Update(t, [todos[t] EXCEPT !.status = s])
         \/ \E s \in Settled \cup Waiting : Update(t, Ended(todos[t], s))
         \/ Update(t, Reopened(todos[t]))
         \/ \E d \in Diff : Update(t, Proposed(todos[t], d))
  PROVE  RowsPaid' /\ Grows
<1> DEFINE r == todos[t]
<1>1. r \in Row /\ r.status # "absent"
  BY DEF RowsPaid, Present
<1> DEFINE Allowed(s) ==
             /\ Update(t, s) /\ s \in Row /\ Same(r, s)
             /\ s.status \in InFlight => r.status \in InFlight \/ Cost(todos, rounds, t)
<1>2. \E s : Allowed(s)
  <2>1. ASSUME NEW l \in {"live", "expired"}, Update(t, [r EXCEPT !.lease = l])
        PROVE  \E s : Allowed(s)
    <3>1. /\ [r EXCEPT !.lease = l] \in Row /\ Same(r, [r EXCEPT !.lease = l])
          /\ [r EXCEPT !.lease = l].status = r.status
      BY <1>1, UpdatesKeep, ZenonT(40)
    <3> QED
      BY <2>1, <3>1
  <2>2. ASSUME NEW s \in {"running", "verifying"}, Update(t, [r EXCEPT !.status = s]),
               Cost(todos, rounds, t)
        PROVE  \E x : Allowed(x)
    <3>1. [r EXCEPT !.status = s] \in Row /\ Same(r, [r EXCEPT !.status = s])
      BY <1>1, UpdatesKeep
    <3> QED
      BY <2>2, <3>1
  <2>3. ASSUME NEW s \in Settled \cup Waiting, Update(t, Ended(r, s))
        PROVE  \E x : Allowed(x)
    <3>1. Ended(r, s) \in Row /\ Same(r, Ended(r, s)) /\ Ended(r, s).status = s
      BY <1>1, UpdatesKeep, ZenonT(40)
    <3>2. s \notin InFlight
      OBVIOUS
    <3> QED
      BY <2>3, <3>1, <3>2
  <2>4. ASSUME Update(t, Reopened(r)) PROVE \E s : Allowed(s)
    <3>1. Reopened(r) \in Row /\ Same(r, Reopened(r)) /\ Reopened(r).status = "open"
      BY <1>1, UpdatesKeep
    <3> QED
      BY <2>4, <3>1
  <2>5. ASSUME NEW d \in Diff, Update(t, Proposed(r, d)) PROVE \E s : Allowed(s)
    <3>1. /\ Proposed(r, d) \in Row /\ Same(r, Proposed(r, d))
          /\ Proposed(r, d).status = "needs_user"
      BY <1>1, UpdatesKeep
    <3> QED
      BY <2>5, <3>1
  <2> HIDE DEF Allowed
  <2> QED
    BY <2>1, <2>2, <2>3, <2>4, <2>5
<1> QED
  BY <1>2, QuietWritten

(* Todos found expired are taken back, whatever they have become.          *)
LEMMA RequeueWritten ==
  ASSUME RowsPaid, NEW expired \in SUBSET Todo, \A t \in expired : Present(t), RequeueTx(expired)
  PROVE  RowsPaid' /\ Grows
<1>1. todos' = [t \in Todo |-> IF t \in expired THEN Requeued(todos[t]) ELSE todos[t]]
      /\ created' = created /\ rounds' = rounds
  BY DEF RequeueTx, TakenBack
<1>2. ASSUME NEW t \in expired PROVE Owes(todos[t], Requeued(todos[t]))
  <2>1. todos[t] \in Row /\ todos[t].status # "absent"
    BY DEF RowsPaid, Present
  <2>2. /\ Requeued(todos[t]) \in Row /\ Same(todos[t], Requeued(todos[t]))
        /\ Requeued(todos[t]).status = "open"
    BY <2>1, UpdatesKeep
  <2> QED
    BY <2>2 DEF Owes
<1>3. \A u \in Todo : todos'[u] = todos[u] \/ (Present(u) /\ Owes(todos[u], todos'[u]))
  BY <1>1, <1>2
<1>4. rounds' \in [Todo -> Nat] /\ \A l \in Todo : rounds'[l] >= rounds[l]
  BY <1>1 DEF RowsPaid
<1>5. todos' = [u \in Todo |-> todos'[u]]
  BY <1>1
<1> QED
  BY <1>1, <1>3, <1>4, <1>5, RowsWritten

(* New rows beside rows that are written or left.                          *)
Begins(s, n) == s \in Row /\ s.status = "open" /\ s.lineage = n /\ s.gen = 1

LEMMA RowsAdded ==
  ASSUME RowsPaid, created' \in created..MaxTodo, rounds' = rounds,
         todos' = [u \in Todo |-> todos'[u]],
         \A u \in Todo :
           IF u \in (created + 1)..created'
           THEN \/ Begins(todos'[u], u)
                \/ \E t \in Todo : /\ Present(t) /\ Cost(todos, rounds, t)
                                   /\ todos[t].gen < LineageLimit
                                   /\ todos'[u] \in Row /\ todos'[u].status = "open"
                                   /\ todos'[u].lineage = todos[t].lineage
                                   /\ todos'[u].gen = todos[t].gen + 1
           ELSE todos'[u] = todos[u] \/ (Present(u) /\ Owes(todos[u], todos'[u]))
  PROVE  RowsPaid' /\ Grows
<1>0. created \in Nat /\ created' \in Nat /\ created <= created' /\ created' <= MaxTodo
  BY DEF RowsPaid
<1>1. \A l \in Todo : rounds[l] \in Nat
  BY DEF RowsPaid
<1>2. \A u \in Todo : todos[u] \in Row /\ todos[u].gen \in Nat /\ todos[u].lineage \in Todo
  BY DEF RowsPaid, Row
<1>3. \A u \in Todo : Present(u) <=> u <= created
  BY DEF RowsPaid
<1>4. ASSUME NEW u \in Todo, u \in (created + 1)..created'
      PROVE  /\ todos'[u] \in Row /\ todos'[u].status = "open"
             /\ todos'[u].lineage <= created' /\ todos'[u].gen >= 1
             /\ todos'[u].gen <= rounds'[todos'[u].lineage] + 1
             /\ todos'[u].gen <= LineageLimit
  <2>1. CASE Begins(todos'[u], u)
    BY <1>0, <1>1, <1>4, <2>1 DEF Begins
  <2>2. ASSUME NEW t \in Todo, Present(t), Cost(todos, rounds, t), todos[t].gen < LineageLimit,
               todos'[u] \in Row, todos'[u].status = "open",
               todos'[u].lineage = todos[t].lineage, todos'[u].gen = todos[t].gen + 1
        PROVE  /\ todos'[u].lineage <= created' /\ todos'[u].gen >= 1
               /\ todos'[u].gen <= rounds'[todos'[u].lineage] + 1
               /\ todos'[u].gen <= LineageLimit
    <3>1. todos[t].lineage <= created /\ todos[t].gen <= rounds[todos[t].lineage]
      BY <2>2 DEF RowsPaid, LineagePaid, Cost
    <3>2. todos[t].gen \in Nat /\ todos[t].lineage \in Todo /\ LineageLimit \in Nat
      BY <1>2
    <3>3. todos'[u].gen >= 1 /\ todos'[u].gen <= LineageLimit
      BY <2>2, <3>2
    <3>4. todos'[u].lineage <= created'
      BY <1>0, <2>2, <3>1, <3>2
    <3>5. rounds'[todos'[u].lineage] = rounds[todos[t].lineage]
      BY <2>2
    <3>6. todos'[u].gen <= rounds'[todos'[u].lineage] + 1
      BY SMTT(20), <1>1, <2>2, <3>1, <3>2, <3>5
    <3> QED
      BY <3>3, <3>4, <3>6
  <2>3. \/ Begins(todos'[u], u)
        \/ \E t \in Todo : /\ Present(t) /\ Cost(todos, rounds, t)
                           /\ todos[t].gen < LineageLimit
                           /\ todos'[u] \in Row /\ todos'[u].status = "open"
                           /\ todos'[u].lineage = todos[t].lineage
                           /\ todos'[u].gen = todos[t].gen + 1
    BY <1>4
  <2>4. todos'[u] \in Row /\ todos'[u].status = "open"
    BY <2>3 DEF Begins
  <2> QED
    BY <2>1, <2>2, <2>3, <2>4
<1>5. ASSUME NEW u \in Todo, u \notin (created + 1)..created'
      PROVE  /\ todos'[u] \in Row /\ todos'[u].gen = todos[u].gen
             /\ todos'[u].lineage = todos[u].lineage
             /\ Present(u) <=> todos'[u].status # "absent"
             /\ todos'[u].status \in InFlight =>
                  todos'[u] = todos[u] \/ todos'[u].gen <= rounds'[todos'[u].lineage]
  BY <1>2, <1>5 DEF Owes, Same, Present
<1>6. todos' \in [Todo -> Row]
  BY <1>4, <1>5
<1>7. \A u \in Todo : todos'[u].status # "absent" <=> u <= created'
  <2> SUFFICES ASSUME NEW u \in Todo PROVE todos'[u].status # "absent" <=> u <= created'
    OBVIOUS
  <2>1. CASE u \in (created + 1)..created'
    BY <1>0, <1>4, <2>1
  <2>2. CASE u \notin (created + 1)..created'
    BY <1>0, <1>3, <1>5, <2>2
  <2> QED
    BY <2>1, <2>2
<1>8. ASSUME NEW u \in Todo, todos'[u].status # "absent"
      PROVE  /\ todos'[u].lineage <= created' /\ todos'[u].gen >= 1
             /\ todos'[u].gen <= rounds'[todos'[u].lineage] + 1
             /\ todos'[u].status \in InFlight => todos'[u].gen <= rounds'[todos'[u].lineage]
             /\ todos'[u].gen <= LineageLimit
  <2>1. CASE u \in (created + 1)..created'
    BY <1>4, <2>1
  <2>2. CASE u \notin (created + 1)..created'
    <3>1. Present(u)
      BY <1>5, <1>8, <2>2
    <3>2. /\ todos[u].lineage <= created /\ todos[u].gen >= 1
          /\ todos[u].gen <= rounds[todos[u].lineage] + 1
          /\ todos[u].status \in InFlight => todos[u].gen <= rounds[todos[u].lineage]
          /\ todos[u].gen <= LineageLimit
      BY <3>1 DEF RowsPaid, LineagePaid, LineageBounded
    <3> QED
      BY <1>0, <1>2, <1>5, <2>2, <3>2
  <2> QED
    BY <2>1, <2>2
<1>9. LineagePaid' /\ LineageBounded'
  BY <1>8 DEF LineagePaid, LineageBounded, Present
<1>10. Grows
  <2>1. ASSUME NEW u \in Todo, Present(u) PROVE Same(todos[u], todos'[u])
    <3>1. u \notin (created + 1)..created'
      BY <1>0, <1>3, <2>1
    <3> QED
      BY <1>5, <2>1, <3>1 DEF Same
  <2> QED
    BY <1>1, <2>1 DEF Grows
<1> QED
  BY <1>0, <1>6, <1>7, <1>9, <1>10 DEF RowsPaid, Present

LEMMA InsertWritten ==
  ASSUME RowsPaid, NEW g \in Goal, NEW spec \in Content, Insert(g, spec), rounds' = rounds
  PROVE  RowsPaid' /\ Grows
<1> DEFINE n == created + 1
           s == NewRow(g, spec, n, 1)
<1>1. created \in Nat /\ n \in Todo /\ created' = n /\ (created + 1)..created' = {n}
  BY DEF RowsPaid, Insert
<1>2. Begins(s, n)
  BY <1>1, NewRowType DEF Begins, NewRow
<1>3. todos' = [todos EXCEPT ![n] = s]
  BY DEF Insert, Update
<1> HIDE DEF s
<1>4. todos' = [u \in Todo |-> IF u = n THEN s ELSE todos[u]]
  BY <1>3 DEF RowsPaid
<1> HIDE DEF n
<1>5. created' \in created..MaxTodo
  BY <1>1 DEF n
<1> QED
  BY <1>1, <1>2, <1>4, <1>5, RowsAdded

LEMMA SuccessorWritten ==
  ASSUME RowsPaid, NEW t \in Todo, Present(t), Cost(todos, rounds, t), todos[t].gen < LineageLimit,
         SuccessorTx(t, todos[t].spec)
  PROVE  RowsPaid' /\ Grows
<1> DEFINE r == todos[t]
           n == created + 1
           x == [NewRow(r.goal, Rework(r.spec), r.lineage, r.gen + 1) EXCEPT !.diff = r.diff]
<1>1. created \in Nat /\ n \in Todo /\ created' = n /\ (created + 1)..created' = {n}
  BY DEF RowsPaid, SuccessorTx
<1>2. r \in Row /\ r.goal \in Goal /\ r.spec \in Content /\ r.lineage \in Todo /\ r.gen + 1 \in Nat
      /\ r.diff \in Diff
  <2>1. r \in Row
    BY DEF RowsPaid
  <2> HIDE DEF r
  <2>2. r.goal \in Goal /\ r.spec \in Content /\ r.lineage \in Todo /\ r.gen \in Nat /\ r.diff \in Diff
    BY <2>1 DEF Row
  <2> QED
    BY <2>1, <2>2
<1>3. t # n
  BY <1>1 DEF RowsPaid
<1>4. todos' = [todos EXCEPT ![t] = Ended(r, "superseded"), ![n] = x]
  BY DEF SuccessorTx
<1>5. x \in Row /\ x.status = "open" /\ x.lineage = r.lineage /\ x.gen = r.gen + 1
  <2>1. Rework(r.spec) \in Content
    <3>1. {} \in SUBSET Ref
      OBVIOUS
    <3> HIDE DEF r
    <3> QED
      BY <1>2, <3>1, Zenon DEF Rework, Content
  <2> DEFINE y == NewRow(r.goal, Rework(r.spec), r.lineage, r.gen + 1)
  <2>2. y \in Row /\ y.status = "open" /\ y.lineage = r.lineage /\ y.gen = r.gen + 1
    BY <1>2, <2>1, NewRowType DEF NewRow
  <2> HIDE DEF y, r
  <2>3. x = [y EXCEPT !.diff = r.diff]
    BY DEF y
  <2> HIDE DEF x
  <2> QED
    BY <1>2, <2>2, <2>3, Zenon DEF Row
<1>6. Owes(r, Ended(r, "superseded"))
  <2>1. /\ Ended(r, "superseded") \in Row /\ Same(r, Ended(r, "superseded"))
        /\ Ended(r, "superseded").status = "superseded"
    <3>1. r.status # "absent" /\ "superseded" \in Settled \cup Waiting
      BY DEF Present
    <3> HIDE DEF r
    <3> QED
      BY <1>2, <3>1, UpdatesKeep
  <2> QED
    BY <2>1 DEF Owes
<1> DEFINE e == Ended(r, "superseded")
<1> HIDE DEF x, e
<1>7. todos' = [u \in Todo |-> IF u = n THEN x ELSE IF u = t THEN e ELSE todos[u]]
  BY <1>1, <1>3, <1>4 DEF RowsPaid, e
<1>8. Owes(todos[t], e)
  BY <1>6 DEF e
<1> HIDE DEF n
<1>9. created' \in created..MaxTodo
  BY <1>1 DEF n
<1>10. todos' = [u \in Todo |-> todos'[u]]
  BY <1>7
<1>11. todos'[n] = x /\ \A u \in Todo : u # n => todos'[u] = todos[u] \/ (u = t /\ todos'[u] = e)
  BY <1>1, <1>7
<1>12. rounds' = rounds
  BY DEF SuccessorTx
<1> QED
  BY <1>1, <1>5, <1>8, <1>9, <1>10, <1>11, <1>12, RowsAdded

(* A plan change touches rows that are open or waiting by now, and decides *)
(* on a todo that may have been taken back, settled or claimed meanwhile.  *)
LEMMA DecideWritten ==
  ASSUME RowsPaid, NEW t \in Todo, Present(t), NEW decision \in {"approved", "rejected"},
         NEW diff \in Diff, NEW auto, DecideTx(t, decision, diff, auto)
  PROVE  RowsPaid' /\ Grows
<1> DEFINE r == todos[t]
           d == [r EXCEPT !.decision = decision]
           new == IF auto THEN d ELSE Closed(d)
           k == IF decision = "approved" THEN Len(diff.add) ELSE 0
<1>1. created \in Nat /\ t <= created /\ k \in Nat
  BY LenProperties DEF RowsPaid, Diff
<1>2. created' = created + k /\ created' <= MaxTodo /\ rounds' = rounds
  BY <1>1 DEF DecideTx
<1>3. Owes(r, new)
  <2>1. r \in Row /\ r.status # "absent"
    BY DEF RowsPaid, Present
  <2>2. r.status \in InFlight => r.gen <= rounds'[r.lineage]
    BY <1>2 DEF RowsPaid, LineagePaid
  <2> HIDE DEF r
  <2>3. d \in Row /\ Same(r, d) /\ d.status = r.status
    BY <2>1, Zenon DEF Row, Same
  <2>4. Closed(d) \in Row /\ Same(r, Closed(d)) /\ Closed(d).status = "superseded"
    <3> HIDE DEF d
    <3> QED
      BY <2>3, Zenon DEF Row, Same, Closed
  <2> HIDE DEF d
  <2>5. "superseded" \notin InFlight
    OBVIOUS
  <2> QED
    BY <2>2, <2>3, <2>4, <2>5 DEF Owes, Same
<1> DEFINE ts == IF decision = "approved" THEN Approved(diff, t) ELSE todos
<1>4. todos' = [ts EXCEPT ![t] = new]
  BY DEF DecideTx
<1>5. ASSUME NEW u \in Todo
      PROVE  IF u \in (created + 1)..created' THEN Begins(ts[u], u)
             ELSE ts[u] = todos[u] \/ (Present(u) /\ Owes(todos[u], ts[u]))
  <2>1. CASE decision = "rejected"
    BY <1>1, <1>2, <2>1
  <2>2. CASE decision = "approved"
    <3>1. ts[u] = IF u \in (created + 1)..(created + Len(diff.add))
                  THEN Added(diff, r.goal, u - created) ELSE Changed(diff, todos, u, t)
      BY <2>2 DEF Approved
    <3>2. CASE u \in (created + 1)..created'
      <4>1. u - created \in 1..Len(diff.add) /\ created + (u - created) = u
        BY <1>1, <1>2, <2>2, <3>2
      <4>2. ts[u] = Added(diff, r.goal, u - created)
        BY <1>2, <2>2, <3>1, <3>2
      <4>3. r.goal \in Goal
        BY DEF RowsPaid, Row
      <4>4. Added(diff, r.goal, u - created) \in Row /\ Added(diff, r.goal, u - created).status = "open"
        BY <1>1, <1>2, <2>2, <4>1, <4>3, AddedType
      <4>5. /\ Added(diff, r.goal, u - created).lineage = u
            /\ Added(diff, r.goal, u - created).gen = 1
        BY <4>1 DEF Added, NewRow
      <4> QED
        BY <3>2, <4>2, <4>4, <4>5 DEF Begins
    <3>3. CASE u \notin (created + 1)..created'
      <4>1. ts[u] = Changed(diff, todos, u, t)
        BY <1>2, <2>2, <3>1, <3>3
      <4>2. /\ ts[u] \in Row
            /\ ts[u].status = "absent" <=> todos[u].status = "absent"
            /\ RowMove(todos[u], ts[u])
        BY <4>1, ChangedType, ChangedMoves DEF RowsPaid
      <4>3. CASE ~Present(u)
        <5>1. ~Touchable(todos, u, t)
          BY <4>3 DEF Touchable, Present
        <5> QED
          BY <3>3, <4>1, <5>1 DEF Changed
      <4>4. CASE Present(u)
        <5>1. todos[u].status \in InFlight => todos[u].gen <= rounds'[todos[u].lineage]
          BY <1>2, <4>4 DEF RowsPaid, LineagePaid
        <5>2. ts[u].lineage = todos[u].lineage /\ ts[u].gen = todos[u].gen
              /\ (ts[u].status \in InFlight => todos[u].status \in InFlight)
          BY <4>2 DEF RowMove
        <5>3. Owes(todos[u], ts[u])
          <6> DEFINE s == ts[u]
          <6>1. s \in Row /\ s.status # "absent"
            BY <4>2, <4>4 DEF Present
          <6>2. /\ s.lineage = todos[u].lineage /\ s.gen = todos[u].gen
                /\ s.status \in InFlight => s.gen <= rounds'[s.lineage]
            BY <5>1, <5>2
          <6> HIDE DEF s
          <6>3. Owes(todos[u], s)
            BY <6>1, <6>2 DEF Owes, Same
          <6> QED
            BY <6>3 DEF s
        <5> QED
          BY <3>3, <4>4, <5>3
      <4> QED
        BY <4>3, <4>4
    <3> QED
      BY <3>2, <3>3
  <2> QED
    BY <2>1, <2>2
<1>6. ts = [u \in Todo |-> ts[u]]
  BY DEF Approved, RowsPaid
<1> HIDE DEF ts, new
<1>7. todos' = [u \in Todo |-> IF u = t THEN new ELSE ts[u]]
  BY <1>4, <1>6
<1>8. todos' = [u \in Todo |-> todos'[u]] /\ todos'[t] = new
      /\ \A u \in Todo : u # t => todos'[u] = ts[u]
  BY <1>7
<1> HIDE DEF k
<1>9. created' \in created..MaxTodo /\ t \notin (created + 1)..created'
  BY <1>1, <1>2 DEF RowsPaid
<1> QED
  BY <1>2, <1>3, <1>5, <1>8, <1>9, RowsAdded

-----------------------------------------------------------------------------
(* The steps.                                                              *)

(* A transaction runs with what its thread knows.                          *)
LEMMA CommitSteps ==
  ASSUME CallsPaid, NEW c \in Thread, CommitOn(c)
  PROVE  RowsPaid' /\ Grows /\ GoalsType' /\ QuotaType'
<1> DEFINE p == pending[c]
           t == p.todo
<1>1. Knows(todos, rounds, p)
  BY DEF CallsPaid, Pending
<1>2. RowsPaid /\ GoalsType /\ QuotaType
  BY DEF CallsPaid
<1>t. \A u \in Todo : todos[u] \in Row
  BY <1>2 DEF RowsPaid
<1>3. p.op \in OnTodo => t \in Todo /\ Present(t)
  BY <1>1 DEF Knows, Present
<1> HIDE DEF p
<1>4. CASE p.op = "claim" /\ ClaimTx(t, c)
  <2>1. c \in Worker /\ t \in Todo /\ Present(t)
    BY <1>3, <1>4 DEF Thread, OnTodo
  <2>2. RowsPaid' /\ Grows
    BY <1>2, <1>4, <2>1, ClaimWritten
  <2> QED
    BY <1>2, <1>4, <2>2, Zenon DEF ClaimTx, GoalsType, QuotaType
<1>5. CASE \/ p.op = "renew" /\ RenewTx(t)
           \/ p.op = "run" /\ MarkTx(t, "running")
           \/ p.op = "verify" /\ MarkTx(t, "verifying")
           \/ p.op = "reopen" /\ ReopenTx(t)
           \/ p.op \in Waiting /\ WaitTx(t, p.op)
           \/ p.op = "propose" /\ ProposeTx(t, p.diff)
  <2>1. t \in Todo /\ Present(t)
    BY <1>3, <1>5 DEF OnTodo
  <2>2. /\ p.op \in {"run", "verify"} => Cost(todos, rounds, t)
        /\ p.op = "propose" => p.diff \in Diff
    BY <1>1 DEF Knows
  <2>3. UNCHANGED <<created, goals, rounds, quota>>
    BY <1>5 DEF RenewTx, MarkTx, ReopenTx, WaitTx, ProposeTx
  <2>4. \/ Update(t, [todos[t] EXCEPT !.lease = "live"])
        \/ Cost(todos, rounds, t)
             /\ \E s \in {"running", "verifying"} : Update(t, [todos[t] EXCEPT !.status = s])
        \/ \E s \in Settled \cup Waiting : Update(t, Ended(todos[t], s))
        \/ Update(t, Reopened(todos[t]))
        \/ \E d \in Diff : Update(t, Proposed(todos[t], d))
    <3> HIDE DEF t
    <3> QED
      BY <1>5, <2>2 DEF RenewTx, MarkTx, ReopenTx, WaitTx, ProposeTx
  <2>5. RowsPaid' /\ Grows
    BY <1>2, <2>1, <2>3, <2>4, UpdateWritten
  <2> QED
    BY <1>2, <2>3, <2>5, Zenon DEF GoalsType, QuotaType
<1>6. CASE p.op = "done" /\ DoneTx(t)
  <2>1. t \in Todo /\ Present(t)
    BY <1>3, <1>6 DEF OnTodo
  <2> HIDE DEF t
  <2>2. "done" \in Settled \cup Waiting /\ Update(t, Ended(todos[t], "done"))
        /\ UNCHANGED <<created, rounds>>
    BY <1>6 DEF DoneTx
  <2>3. RowsPaid' /\ Grows
    BY <1>2, <2>1, <2>2, UpdateWritten
  <2>4. todos[t].goal \in Goal /\ todos[t].spec.role \in Role \cup {NoRole}
    BY <1>t, <2>1 DEF Row, Content
  <2>5. QuotaType'
    BY <1>2, <1>6, <2>4, ChargeType DEF DoneTx
  <2>6. GoalsType'
    BY <1>2, <1>6, Zenon DEF DoneTx, GoalsType
  <2> QED
    BY <2>3, <2>5, <2>6
<1>7. CASE p.op = "successor" /\ SuccessorTx(t, todos[t].spec)
  <2>1. t \in Todo /\ Present(t) /\ Cost(todos, rounds, t) /\ todos[t].gen < LineageLimit
    BY <1>1, <1>3, <1>7 DEF OnTodo, Knows
  <2>2. RowsPaid' /\ Grows
    BY <1>2, <1>7, <2>1, SuccessorWritten
  <2> QED
    BY <1>2, <1>7, <2>2, Zenon DEF SuccessorTx, GoalsType, QuotaType
<1>8. CASE p.op \in {"approved", "rejected"} /\ DecideTx(t, p.op, p.diff, p.auto)
  <2>1. t \in Todo /\ Present(t) /\ p.diff \in Diff
    BY <1>1, <1>3, <1>8 DEF OnTodo, Knows
  <2>2. RowsPaid' /\ Grows
    BY <1>2, <1>8, <2>1, DecideWritten
  <2>3. GoalsType' /\ QuotaType'
    BY <1>2, <1>8, ZenonT(40) DEF DecideTx, GoalsType, QuotaType
  <2> QED
    BY <2>2, <2>3
<1>9. CASE p.op = "requeue" /\ RequeueTx(p.expired)
  <2>1. p.expired \in SUBSET Todo /\ \A u \in p.expired : Present(u)
    BY <1>1, <1>9 DEF Knows, Present
  <2>2. RowsPaid' /\ Grows
    BY <1>2, <1>9, <2>1, RequeueWritten
  <2> QED
    BY <1>2, <1>9, <2>2, Zenon DEF RequeueTx, GoalsType, QuotaType
<1>10. CASE p.op = "freeze" /\ FreezeTx(p.goal)
  <2>1. p.goal \in Goal
    BY <1>1, <1>10 DEF Knows
  <2>2. RowsPaid' /\ Grows
    BY <1>2, <1>10, <2>1, InsertWritten, PlanSpecType DEF FreezeTx
  <2> QED
    BY <1>2, <1>10, <2>2, Zenon DEF FreezeTx, GoalsType, QuotaType
<1> QED
  BY <1>4, <1>5, <1>6, <1>7, <1>8, <1>9, <1>10 DEF CommitOn, p

(* A read learns what it needs from the guard it checks.                   *)
LEMMA ReadSteps ==
  ASSUME CallsPaid, NEW c \in Thread, Read(c)
  PROVE  \E call : Enter(c, call) /\ Knows(todos, rounds, call)
<1>1. RowsPaid
  BY DEF CallsPaid
<1>2. \A t \in Todo : /\ todos[t].status \in InFlight => Present(t) /\ Cost(todos, rounds, t)
                      /\ todos[t].status \in Waiting \cup {"open"} => Present(t)
                      /\ todos[t].gen \in Nat /\ todos[t].lineage \in Todo /\ todos[t].diff \in Diff
  <2> SUFFICES ASSUME NEW t \in Todo
               PROVE  /\ todos[t].status \in InFlight => Present(t) /\ Cost(todos, rounds, t)
                      /\ todos[t].status \in Waiting \cup {"open"} => Present(t)
                      /\ todos[t].gen \in Nat /\ todos[t].lineage \in Todo /\ todos[t].diff \in Diff
    OBVIOUS
  <2>1. todos[t] \in Row
    BY <1>1 DEF RowsPaid
  <2>2. todos[t].gen \in Nat /\ todos[t].lineage \in Todo /\ todos[t].diff \in Diff
    BY <2>1 DEF Row
  <2> QED
    BY <1>1, <2>2 DEF RowsPaid, LineagePaid, Present, Cost
<1>3. ASSUME NEW op, NEW t \in Todo, Enter(c, On(op, t)), Present(t),
             op \in OnTodo \ {"propose", "approved", "rejected"},
             op \in {"run", "verify", "successor"} => Cost(todos, rounds, t),
             op = "successor" => todos[t].gen < LineageLimit
      PROVE  \E call : Enter(c, call) /\ Knows(todos, rounds, call)
  <2>1. Knows(todos, rounds, On(op, t))
    BY <1>3 DEF Knows, On, OnTodo, Present
  <2> QED
    BY <1>3, <2>1
<1>4. ASSUME NEW t \in Todo,
             ReadClaim(c, t) \/ ReadRenew(c, t) \/ ReadRun(c, t) \/ ReadVerify(c, t)
               \/ ReadReopen(c, t)
      PROVE  \E call : Enter(c, call) /\ Knows(todos, rounds, call)
  <2>1. PICK op \in {"claim", "renew", "run", "verify", "reopen"} :
          /\ Enter(c, On(op, t))
          /\ todos[t].status \in InFlight
               \/ (op \in {"claim", "reopen"} /\ todos[t].status \in Waiting \cup {"open"})
    BY <1>4 DEF ReadClaim, ReadRenew, ReadRun, ReadVerify, ReadReopen,
                CanClaim, CanRenew, CanRun, CanVerify, CanReopen
  <2>2. Present(t) /\ (op \in {"run", "verify", "successor"} => Cost(todos, rounds, t))
    BY <1>2, <2>1
  <2> QED
    BY <1>3, <2>1, <2>2 DEF OnTodo
<1>5. ASSUME NEW t \in Todo, ReadSuccessor(c, t)
      PROVE  \E call : Enter(c, call) /\ Knows(todos, rounds, call)
  <2>1. Present(t) /\ Cost(todos, rounds, t)
    BY <1>2, <1>5 DEF ReadSuccessor, CanWriteBack
  <2>2. CASE Exhausted(todos[t])
    <3>1. Enter(c, On("needs_user", t))
      BY <1>5, <2>2 DEF ReadSuccessor
    <3> QED
      BY <1>3, <2>1, <3>1 DEF OnTodo
  <2>3. CASE ~Exhausted(todos[t])
    <3>1. Enter(c, On("successor", t))
      BY <1>5, <2>3 DEF ReadSuccessor
    <3>2. todos[t].gen < LineageLimit
      BY <1>1, <1>2, <2>1, <2>3 DEF Exhausted, Cost, RowsPaid
    <3> QED
      BY <1>3, <2>1, <3>1, <3>2 DEF OnTodo
  <2> QED
    BY <2>2, <2>3
<1>6. ASSUME NEW t \in Todo, NEW op \in Waiting \cup {"done"},
             todos[t].status \in InFlight, Enter(c, On(op, t))
      PROVE  \E call : Enter(c, call) /\ Knows(todos, rounds, call)
  BY <1>2, <1>3, <1>6 DEF OnTodo
<1>7. ASSUME NEW t \in Todo, NEW diff \in Diffs, ReadPropose(c, t, diff)
      PROVE  \E call : Enter(c, call) /\ Knows(todos, rounds, call)
  <2> DEFINE call == [op |-> "propose", todo |-> t, diff |-> diff]
  <2>1. Enter(c, call) /\ Present(t)
    BY <1>2, <1>7 DEF ReadPropose, CanWriteBack
  <2>2. Knows(todos, rounds, call)
    BY <2>1 DEF Knows, Present
  <2> QED
    BY <2>1, <2>2
<1>8. ASSUME NEW t \in Todo, NEW decision \in {"approved", "rejected"}, ReadDecide(c, t, decision)
      PROVE  \E call : Enter(c, call) /\ Knows(todos, rounds, call)
  <2> DEFINE call == [op |-> decision, todo |-> t, diff |-> todos[t].diff,
                      auto |-> todos[t].status # "needs_user"]
  <2>1. Enter(c, call) /\ Present(t) /\ todos[t].diff \in Diff
    BY <1>2, <1>8 DEF ReadDecide, CanDecide
  <2>2. Knows(todos, rounds, call)
    BY <2>1 DEF Knows, Present
  <2> QED
    BY <2>1, <2>2
<1>9. CASE ReadExpired(c)
  <2> DEFINE call == [op |-> "requeue", expired |-> Expired(todos)]
  <2>1. Enter(c, call) /\ Expired(todos) \subseteq Todo /\ \A t \in Expired(todos) : Present(t)
    BY <1>2, <1>9 DEF ReadExpired, Expired, IsExpired
  <2>2. Knows(todos, rounds, call)
    BY <2>1 DEF Knows, Present, OnTodo
  <2> QED
    BY <2>1, <2>2
<1>10. ASSUME NEW g \in Goal, ReadFreeze(c, g)
       PROVE  \E call : Enter(c, call) /\ Knows(todos, rounds, call)
  <2> DEFINE call == [op |-> "freeze", goal |-> g]
  <2>1. Enter(c, call)
    BY <1>10 DEF ReadFreeze
  <2>2. Knows(todos, rounds, call)
    BY DEF Knows, OnTodo
  <2> QED
    BY <2>1, <2>2
<1>11. ASSUME NEW t \in Todo, NEW evidence \in BOOLEAN, ReadDone(c, t, evidence)
       PROVE  \E call : Enter(c, call) /\ Knows(todos, rounds, call)
  BY <1>6, <1>11 DEF ReadDone, CanFinish
<1>12. ASSUME NEW t \in Todo, NEW verdict \in Waiting, ReadWait(c, t, verdict)
       PROVE  \E call : Enter(c, call) /\ Knows(todos, rounds, call)
  BY <1>6, <1>12 DEF ReadWait, CanWriteBack
<1> QED
  BY <1>4, <1>5, <1>7, <1>8, <1>9, <1>10, <1>11, <1>12 DEF Read

(* Calls without a read, and time.                                         *)
LEMMA AloneSteps ==
  ASSUME CallsPaid, Alone
  PROVE  RowsPaid' /\ Grows /\ GoalsType' /\ QuotaType'
<1>1. RowsPaid /\ GoalsType /\ QuotaType
  BY DEF CallsPaid
<1>2. ASSUME NEW g \in Goal, CreateGoal(g, FALSE)
      PROVE  RowsPaid' /\ Grows /\ GoalsType' /\ QuotaType'
  <2>1. UNCHANGED <<todos, created, rounds, quota>>
    BY <1>2 DEF CreateGoal
  <2>2. RowsPaid' /\ Grows
    <3>1. rounds' \in [Todo -> Nat] /\ \A l \in Todo : rounds'[l] >= rounds[l]
      BY <1>1, <2>1 DEF RowsPaid
    <3>2. todos' = [u \in Todo |-> todos'[u]]
      BY <1>1, <2>1 DEF RowsPaid
    <3> QED
      BY <1>1, <2>1, <3>1, <3>2, RowsWritten
  <2>3. GoalsType'
    BY <1>1, <1>2, Zenon DEF CreateGoal, GoalsType
  <2> QED
    BY <1>1, <2>1, <2>2, <2>3 DEF QuotaType
<1>3. ASSUME NEW g \in Goal, CreateGoalWithPlan(g)
      PROVE  RowsPaid' /\ Grows /\ GoalsType' /\ QuotaType'
  <2>1. RowsPaid' /\ Grows
    BY <1>1, <1>3, InsertWritten, PlanSpecType DEF CreateGoalWithPlan
  <2> QED
    BY <1>1, <1>3, <2>1, Zenon DEF CreateGoalWithPlan, GoalsType, QuotaType
<1>4. ASSUME NEW g \in Goal, NEW spec \in Specs, CreateTodo(g, spec)
      PROVE  RowsPaid' /\ Grows /\ GoalsType' /\ QuotaType'
  <2>1. spec \in Content
    OBVIOUS
  <2>2. RowsPaid' /\ Grows
    BY <1>1, <1>4, <2>1, InsertWritten DEF CreateTodo
  <2> QED
    BY <1>1, <1>4, <2>2, Zenon DEF CreateTodo, GoalsType, QuotaType
<1>5. ASSUME NEW t \in Todo, LapseLease(t)
      PROVE  RowsPaid' /\ Grows /\ GoalsType' /\ QuotaType'
  <2>1. Update(t, [todos[t] EXCEPT !.lease = "expired"]) /\ UNCHANGED <<created, goals, rounds, quota>>
    BY <1>5 DEF LapseLease
  <2>2. CASE Present(t)
    <3>1. RowsPaid' /\ Grows
      BY <1>1, <2>1, <2>2, UpdateWritten
    <3> QED
      BY <1>1, <2>1, <3>1, Zenon DEF GoalsType, QuotaType
  <2>3. CASE ~Present(t)
    <3>1. /\ [todos[t] EXCEPT !.lease = "expired"] \in Row
          /\ [todos[t] EXCEPT !.lease = "expired"].status = "absent"
      <4>1. todos[t] \in Row /\ todos[t].status = "absent"
        BY <1>1, <2>3 DEF RowsPaid, Present
      <4> QED
        BY <4>1, Zenon DEF Row
    <3>2. RowsPaid' /\ Grows
      BY <1>1, <2>1, <2>3, <3>1, AbsentWritten
    <3> QED
      BY <1>1, <2>1, <3>2, Zenon DEF GoalsType, QuotaType
  <2> QED
    BY <2>2, <2>3
<1> QED
  BY <1>2, <1>3, <1>4, <1>5 DEF Alone

LEMMA CallsPaidStep == CallsPaid /\ [CallsNext]_callVars => CallsPaid'
<1> SUFFICES ASSUME CallsPaid, [CallsNext]_callVars PROVE CallsPaid'
  OBVIOUS
<1>1. RowsPaid /\ GoalsType /\ QuotaType
      /\ pending = [c \in Thread |-> pending[c]] /\ \A c \in Thread : Knows(todos, rounds, pending[c])
  BY DEF CallsPaid, Pending
<1>2. Knows(todos, rounds, Idle) /\ Knows(todos', rounds', Idle)
  BY DEF Knows, Idle, OnTodo
<1>3. ASSUME NEW c \in Thread, Leave(c), RowsPaid', Grows, GoalsType', QuotaType'
      PROVE  CallsPaid'
  <2>1. pending' = [d \in Thread |-> IF d = c THEN Idle ELSE pending[d]]
    BY <1>1, <1>3 DEF Leave
  <2>2. \A d \in Thread : Knows(todos', rounds', pending[d])
    BY <1>1, <1>3, KnowsOn
  <2>3. \A d \in Thread : Knows(todos', rounds', pending'[d])
    BY <1>2, <2>1, <2>2
  <2>4. pending' = [d \in Thread |-> pending'[d]]
    BY <2>1
  <2> QED
    BY <1>3, <2>3, <2>4 DEF CallsPaid, Pending
<1>4. ASSUME UNCHANGED vars PROVE RowsPaid' /\ Grows /\ GoalsType' /\ QuotaType'
  <2>1. todos' = todos /\ created' = created /\ goals' = goals /\ rounds' = rounds /\ quota' = quota
    BY <1>4 DEF vars
  <2>2. rounds' \in [Todo -> Nat] /\ \A l \in Todo : rounds'[l] >= rounds[l]
    BY <1>1, <2>1 DEF RowsPaid
  <2>3. todos' = [u \in Todo |-> todos'[u]]
    BY <1>1, <2>1 DEF RowsPaid
  <2>4. RowsPaid' /\ Grows
    BY <1>1, <2>1, <2>2, <2>3, RowsWritten
  <2> QED
    BY <1>1, <2>1, <2>4 DEF GoalsType, QuotaType
<1>5. ASSUME NEW c \in Thread, Read(c) PROVE CallsPaid'
  <2>1. PICK call : Enter(c, call) /\ Knows(todos, rounds, call)
    BY <1>5, ReadSteps
  <2>2. UNCHANGED vars /\ pending' = [d \in Thread |-> IF d = c THEN call ELSE pending[d]]
    BY <1>1, <2>1 DEF Enter
  <2>3. todos' = todos /\ rounds' = rounds
    BY <2>2 DEF vars
  <2>4. \A d \in Thread : Knows(todos', rounds', pending'[d])
    BY <1>1, <2>1, <2>2, <2>3
  <2>5. pending' = [d \in Thread |-> pending'[d]]
    BY <2>2
  <2> QED
    BY <1>4, <2>2, <2>4, <2>5 DEF CallsPaid, Pending
<1>6. ASSUME NEW c \in Thread, Commit(c) \/ Die(c) PROVE CallsPaid'
  BY <1>3, <1>4, <1>6, CommitSteps DEF Commit, Die
<1>7. CASE UNCHANGED pending /\ RowsPaid' /\ Grows /\ GoalsType' /\ QuotaType'
  <2>1. \A d \in Thread : Knows(todos', rounds', pending[d])
    BY <1>1, <1>7, KnowsOn
  <2>2. pending' = pending
    BY <1>7
  <2>3. pending' = [d \in Thread |-> pending'[d]] /\ \A d \in Thread : Knows(todos', rounds', pending'[d])
    BY <1>1, <2>1, <2>2
  <2> QED
    BY <1>7, <2>3 DEF CallsPaid, Pending
<1>8. CASE Alone
  BY <1>7, <1>8, AloneSteps DEF Alone
<1>9. CASE UNCHANGED callVars
  BY <1>4, <1>7, <1>9 DEF callVars, vars
<1> QED
  BY <1>5, <1>6, <1>8, <1>9 DEF CallsNext

LEMMA InitCallsPaid == CallsInit => CallsPaid
<1> SUFFICES ASSUME CallsInit PROVE CallsPaid
  OBVIOUS
<1>1. LineageInv
  BY InitLineageInv DEF CallsInit
<1>2. RowsPaid /\ GoalsType /\ QuotaType
  BY <1>1 DEF LineageInv, TypeInv, TypeOK, RowsPaid, GoalsType, QuotaType
<1>3. pending = [c \in Thread |-> Idle]
  BY DEF CallsInit
<1>4. Knows(todos, rounds, Idle)
  BY DEF Knows, Idle, OnTodo
<1> QED
  BY <1>2, <1>3, <1>4 DEF CallsPaid, Pending

(* The tables stay well formed although the row a transaction changes may  *)
(* no longer be as its thread read it (Kernel.claim, transition, ...).     *)
THEOREM CallsAreTyped == CallsSpec => []TypeOK
<1>1. CallsPaid => TypeOK
  BY DEF CallsPaid, RowsPaid, GoalsType, QuotaType, TypeOK
<1> QED
  BY InitCallsPaid, CallsPaidStep, <1>1, PTL DEF CallsSpec

(* Rework is paid for although reads and transactions are apart: attempts  *)
(* are counted in the transaction of the claim, and never forgotten.       *)
THEOREM CallsPayForRework == CallsSpec => []LineagePaid
<1>1. CallsPaid => LineagePaid
  BY DEF CallsPaid, RowsPaid
<1> QED
  BY InitCallsPaid, CallsPaidStep, <1>1, PTL DEF CallsSpec

(* Rework ends: a lineage never gets longer than its limit, also when two  *)
(* threads write back one todo at once and each makes a successor.         *)
THEOREM CallsEndRework == CallsSpec => []LineageBounded
<1>1. CallsPaid => LineageBounded
  BY DEF CallsPaid, RowsPaid
<1> QED
  BY InitCallsPaid, CallsPaidStep, <1>1, PTL DEF CallsSpec

===============================================================================
