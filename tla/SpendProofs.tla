----------------------------- MODULE SpendProofs -----------------------------
(***************************************************************************)
(* Proofs about Spend for every chain of models, every retry policy, any   *)
(* answers of providers, any number of threads, calls and charges: what a  *)
(* blocked role reports, that events are counted once, that the pool of    *)
(* the day loses no charge, and that an approval is decided once.          *)
(***************************************************************************)
EXTENDS Spend, FiniteSetTheorems, TLAPS

USE DEF Level

LEMMA Bounds == MaxAttempts \in Nat /\ MaxAttempts >= 1 /\ Default \in Nat /\ Seeded \subseteq Level
BY SpendAssumption

USE Bounds

-----------------------------------------------------------------------------
(* The inductive invariant: the tables, and what each thread knows.        *)

Pool == [row : BOOLEAN, used : Nat, limit : {0, Default}]
Event == [call : Nat, names : SUBSET Level]

Routed == {"review", "direct", "plan"}
JobName == Routed \cup {"none", "scan", "check", "status", "sync", "expire"}

AnyModel == {ChainOf(job)[i] : job \in JobName, i \in Nat}
FailureRow == [model : AnyModel, tries : Nat, kind : {"HARD", "TRANSIENT"}]

ThreadRow == [pc : {"idle", "routing", "answered", "scanning", "loading", "missing",
                    "summing", "raising", "expiring"},
              job : JobName, at : Nat, tries : 0..MaxAttempts - 1, rounds : 0..MaxAttempts - 1,
              failed : Seq(FailureRow), seen : Pool \cup {NoRow}, sum : Nat]

FailureOK(job, i, f) ==
  /\ f.model = ChainOf(job)[i]
  /\ f.tries <= MaxAttempts /\ (f.tries = 0 <=> f.model \in Keyless)
  /\ f.kind # "HARD" => f.tries = IF job = "plan" THEN 1 ELSE MaxAttempts

(* The planner never repeats an attempt: that is why it reports one.       *)
Honest(r) ==
  /\ r.job \in Routed /\ r.at >= 1
  /\ r.job = "plan" => r.tries = 0
  /\ Len(r.failed) = r.at - 1
  /\ \A i \in 1..Len(r.failed) : FailureOK(r.job, i, r.failed[i])

(* A scan has counted the lines it has passed; who is about to write the   *)
(* default of a pool is never at a pool whose row was there; sync stops    *)
(* short of the day.                                                       *)
ThreadOK(r, evs, counted, n) ==
  /\ r \in ThreadRow
  /\ r.pc \in {"routing", "answered"} => Honest(r)
  /\ r.pc = "answered" => r.sum \in 1..n
  /\ r.pc = "scanning" => /\ r.at <= Len(evs) /\ r.sum <= Len(evs)
                          /\ 1..r.at \subseteq counted
  /\ r.pc \in {"loading", "missing"} => r.at \in 1..3 /\ (r.job = "sync" => r.at <= 2)
  /\ r.pc = "missing" /\ "daily" \in Seeded => r.at <= 2
  /\ r.pc \in {"summing", "raising"} => r.job = "sync" /\ r.at \in 1..2
  /\ r.pc = "raising" => r.seen \in Pool

ThreadsOK ==
  /\ DOMAIN threads = Thread
  /\ \A t \in Thread : ThreadOK(threads[t], events, ToSet(usage), calls)

EventsOK ==
  /\ calls \in Nat /\ events \in Seq(Event)
  /\ \A i \in 1..Len(events) : events[i].call \in 1..calls

CountsOK ==
  /\ usage \in Seq(Nat) /\ ToSet(usage) \subseteq 1..Len(events)
  /\ IsInjective(usage)
  /\ scanned \in 0..Len(events) /\ 1..scanned \subseteq ToSet(usage)

PoolsOK ==
  /\ budgets \in [Level -> Pool] /\ spent \in [Level -> Nat]
  /\ "daily" \in Seeded => budgets["daily"].row /\ budgets["daily"].used = spent["daily"]

ApprovalOK ==
  /\ approval \in {"none", "pending", "approve", "reject"} /\ late \in BOOLEAN
  /\ wins \in {0, 1} /\ (approval \in {"none", "pending"} => wins = 0 /\ assured = FALSE)
  /\ assured \in BOOLEAN /\ (assured = TRUE => approval = "approve")

SpendInv == EventsOK /\ CountsOK /\ PoolsOK /\ ApprovalOK /\ ThreadsOK

-----------------------------------------------------------------------------
(* A step of one thread: its own row, and tables that only grow.           *)

Grows ==
  /\ Len(events) <= Len(events') /\ calls <= calls'
  /\ ToSet(usage) \subseteq ToSet(usage')

Steps(t) ==
  /\ Grows
  /\ \E r : /\ threads' = [threads EXCEPT ![t] = r]
            /\ ThreadOK(r, events', ToSet(usage'), calls')

LEMMA StepsKeep ==
  ASSUME ThreadsOK, EventsOK, EventsOK', NEW t \in Thread, Steps(t)
  PROVE  ThreadsOK'
<1>1. PICK r : threads' = [threads EXCEPT ![t] = r] /\ ThreadOK(r, events', ToSet(usage'), calls')
  BY DEF Steps
<1>2. DOMAIN threads' = Thread
  BY <1>1 DEF ThreadsOK
<1>3. ASSUME NEW u \in Thread
      PROVE  ThreadOK(threads'[u], events', ToSet(usage'), calls')
  <2>1. CASE u = t
    BY <1>1, <2>1 DEF ThreadsOK
  <2>2. CASE u # t
    <3>1. threads'[u] = threads[u] /\ ThreadOK(threads[u], events, ToSet(usage), calls)
      BY <1>1, <2>2 DEF ThreadsOK
    <3>2. calls \in Nat /\ calls' \in Nat /\ Len(events) \in Nat /\ Len(events') \in Nat
      BY DEF EventsOK
    <3>3. threads[u].at \in Nat /\ threads[u].sum \in Nat
      BY <3>1 DEF ThreadOK, ThreadRow
    <3> QED
      BY <3>1, <3>2, <3>3 DEF ThreadOK, Steps, Grows
  <2> QED
    BY <2>1, <2>2
<1> QED
  BY <1>2, <1>3 DEF ThreadsOK

LEMMA IdleOK ==
  ASSUME NEW evs, NEW counted, NEW n
  PROVE  /\ Idle \in ThreadRow /\ Idle.tries = 0 /\ Idle.at = 0 /\ Idle.sum = 0
         /\ Idle.failed = <<>> /\ Idle.pc = "idle"
         /\ ThreadOK(Idle, evs, counted, n)
<1>1. Idle \in ThreadRow
  BY DEF Idle, ThreadRow, JobName, NoRow
<1> QED
  BY <1>1 DEF Idle, ThreadOK

LEMMA KindIs == \A s : KindOf(s) \in {"HARD", "TRANSIENT"}
BY DEF KindOf

LEMMA MaxOfTwo ==
  ASSUME NEW a \in Nat, NEW b \in Nat
  PROVE  Max({a, b}) \in {a, b} /\ Max({a, b}) >= a /\ Max({a, b}) >= b
<1>1. \E x \in {a, b} : \A y \in {a, b} : x >= y
  BY SMT
<1> QED
  BY <1>1 DEF Max

LEMMA SumIsNat ==
  ASSUME CountsOK, NEW l
  PROVE  SumUsage(l) \in Nat
<1>1. IsFiniteSet(1..Len(usage))
  BY FS_Interval DEF CountsOK
<1>2. DOMAIN usage = 1..Len(usage)
  BY DEF CountsOK
<1>3. IsFiniteSet({i \in DOMAIN usage : l \in events[usage[i]].names})
  BY <1>1, <1>2, FS_Subset
<1> QED
  BY <1>3, FS_CardinalityType DEF SumUsage

-----------------------------------------------------------------------------
(* Routing.                                                                *)

SameCounts == UNCHANGED <<usage, scanned>>
SamePools == UNCHANGED <<budgets, spent>>
SameApproval == UNCHANGED <<approval, late, wins, assured>>
SameEvents == UNCHANGED <<events, calls>>

LEMMA SameTables ==
  ASSUME SpendInv
  PROVE  /\ SameEvents => EventsOK'
         /\ SameEvents /\ SameCounts => CountsOK' /\ Grows
         /\ SamePools => PoolsOK'
         /\ SameApproval => ApprovalOK'
<1>1. SameEvents => EventsOK'
  BY DEF SpendInv, EventsOK, SameEvents
<1>2. SameEvents /\ SameCounts => CountsOK'
  BY DEF SpendInv, CountsOK, SameEvents, SameCounts, IsInjective
<1>3. SameEvents /\ SameCounts => Grows
  BY DEF SpendInv, EventsOK, SameEvents, SameCounts, Grows
<1>4. SamePools => PoolsOK'
  BY DEF SpendInv, PoolsOK, SamePools
<1>5. SameApproval => ApprovalOK'
  BY DEF SpendInv, ApprovalOK, SameApproval
<1> QED
  BY <1>1, <1>2, <1>3, <1>4, <1>5

(* A candidate that is given up is added to those before it.               *)
LEMMA FailedGrows ==
  ASSUME NEW r \in ThreadRow, Honest(r), NEW tries \in Nat, NEW kind \in {"HARD", "TRANSIENT"}
  PROVE  /\ r.at \in Nat /\ r.at + 1 \in Nat /\ 0 \in 0..MaxAttempts - 1
         /\ Append(r.failed, Failure(ChainOf(r.job)[r.at], tries, kind)) \in Seq(FailureRow)
<1>1. r.at \in Nat /\ r.job \in JobName /\ r.failed \in Seq(FailureRow)
  BY DEF ThreadRow
<1>2. ChainOf(r.job)[r.at] \in AnyModel
  BY <1>1 DEF AnyModel
<1>3. Failure(ChainOf(r.job)[r.at], tries, kind) \in FailureRow
  BY <1>2 DEF Failure, FailureRow
<1> QED
  BY <1>1, <1>3

LEMMA GivenUp ==
  ASSUME NEW r \in ThreadRow, Honest(r), NEW tries \in Nat, NEW kind \in {"HARD", "TRANSIENT"},
         FailureOK(r.job, r.at, Failure(ChainOf(r.job)[r.at], tries, kind)),
         NEW g, g.job = r.job, g.at = r.at + 1, g.tries \in {r.tries, 0},
         g.failed = Append(r.failed, Failure(ChainOf(r.job)[r.at], tries, kind))
  PROVE  Honest(g)
<1> DEFINE f == Failure(ChainOf(r.job)[r.at], tries, kind)
<1>1. /\ r.at \in Nat /\ r.job \in JobName /\ r.failed \in Seq(FailureRow)
      /\ r.job \in Routed /\ Len(r.failed) = r.at - 1 /\ (r.job = "plan" => r.tries = 0)
      /\ \A i \in 1..Len(r.failed) : FailureOK(r.job, i, r.failed[i])
  BY DEF ThreadRow, Honest
<1>2. ChainOf(r.job)[r.at] \in AnyModel
  BY <1>1 DEF AnyModel
<1>3. f \in FailureRow
  BY <1>2 DEF Failure, FailureRow
<1>4. g.failed = Append(r.failed, f) /\ FailureOK(r.job, r.at, f)
  OBVIOUS
<1> HIDE DEF f
<1>5. /\ Len(Append(r.failed, f)) = r.at
      /\ Append(r.failed, f)[r.at] = f
      /\ \A i \in 1..r.at - 1 : Append(r.failed, f)[i] = r.failed[i]
  BY <1>1, <1>3
<1>6. \A i \in 1..Len(g.failed) : FailureOK(g.job, i, g.failed[i])
  <2> SUFFICES ASSUME NEW i \in 1..r.at PROVE FailureOK(r.job, i, Append(r.failed, f)[i])
    BY <1>4, <1>5
  <2>1. CASE i = r.at
    BY <2>1, <1>4, <1>5
  <2>2. CASE i # r.at
    <3>1. i \in 1..r.at - 1 /\ i \in 1..Len(r.failed)
      BY <2>2, <1>1
    <3> QED
      BY <3>1, <1>1, <1>5
  <2> QED
    BY <2>1, <2>2
<1>7. g.at >= 1 /\ Len(g.failed) = g.at - 1
  BY <1>1, <1>4, <1>5
<1> QED
  BY <1>1, <1>6, <1>7 DEF Honest

(* Steps that touch no table.                                              *)
Own(t) == \E r : Become(t, r) /\ ThreadOK(r, events, ToSet(usage), calls)

LEMMA OwnKeeps ==
  ASSUME SpendInv, NEW t \in Thread, Own(t),
         SameEvents, SameCounts, SamePools, SameApproval
  PROVE  SpendInv'
<1>1. EventsOK' /\ CountsOK' /\ Grows /\ PoolsOK' /\ ApprovalOK'
  BY SameTables
<1>2. Steps(t)
  BY <1>1 DEF Own, Steps, Become, SameEvents, SameCounts
<1>3. ThreadsOK'
  BY <1>1, <1>2, StepsKeep DEF SpendInv
<1> QED
  BY <1>1, <1>3 DEF SpendInv

LEMMA RouteStartKeeps ==
  ASSUME SpendInv, NEW t \in Thread, NEW job \in Routed, RouteStart(t, job)
  PROVE  SpendInv'
<1> DEFINE s == [Idle EXCEPT !.pc = "routing", !.job = job, !.at = 1]
<1>1. s \in ThreadRow /\ s.pc = "routing" /\ s.job = job /\ s.at = 1 /\ s.tries = 0 /\ s.failed = <<>>
  BY IdleOK DEF ThreadRow, JobName
<1>2. Honest(s)
  <2>1. Len(s.failed) = 0
    BY <1>1
  <2> QED
    BY <1>1, <2>1 DEF Honest
<1>3. ThreadOK(s, events, ToSet(usage), calls)
  BY <1>1, <1>2 DEF ThreadOK
<1> QED
  BY <1>3, OwnKeeps DEF RouteStart, Own, SameEvents, SameCounts, SamePools, SameApproval

LEMMA RouteSkipKeeps ==
  ASSUME SpendInv, NEW t \in Thread, RouteSkip(t)
  PROVE  SpendInv'
<1> DEFINE r == threads[t]
           f == Failure(ChainOf(r.job)[r.at], 0, "HARD")
           g == [r EXCEPT !.at = r.at + 1, !.failed = Append(r.failed, f)]
<1>1. /\ r \in ThreadRow /\ Honest(r) /\ r.pc = "routing" /\ Become(t, g)
      /\ ChainOf(r.job)[r.at] \in Keyless
  BY DEF SpendInv, ThreadsOK, ThreadOK, RouteSkip
<1>2. r.at + 1 \in Nat /\ Append(r.failed, f) \in Seq(FailureRow)
  BY <1>1, FailedGrows
<1>3. FailureOK(r.job, r.at, f)
  BY <1>1 DEF FailureOK, Failure
<1> HIDE DEF f
<1>4. /\ g \in ThreadRow /\ g.pc = "routing" /\ g.job = r.job /\ g.at = r.at + 1
      /\ g.tries = r.tries /\ g.failed = Append(r.failed, f)
  BY <1>1, <1>2 DEF ThreadRow
<1> HIDE DEF g, r
<1>5. Honest(g)
  BY <1>1, <1>3, <1>4, GivenUp DEF f
<1>6. ThreadOK(g, events, ToSet(usage), calls)
  BY <1>4, <1>5 DEF ThreadOK
<1> QED
  BY <1>1, <1>6, OwnKeeps DEF RouteSkip, Own, SameEvents, SameCounts, SamePools, SameApproval

LEMMA RouteTryKeeps ==
  ASSUME SpendInv, NEW t \in Thread, RouteTry(t)
  PROVE  SpendInv'
<1> DEFINE r == threads[t]
           m == ChainOf(r.job)[r.at]
<1>1. /\ r \in ThreadRow /\ Honest(r) /\ r.pc = "routing" /\ m \notin Keyless
      /\ SameCounts /\ SamePools /\ SameApproval
  BY DEF SpendInv, ThreadsOK, ThreadOK, RouteTry, SameCounts, SamePools, SameApproval
<1>2. r.tries \in 0..MaxAttempts - 1 /\ r.job \in Routed /\ (r.job = "plan" => r.tries = 0)
  BY <1>1 DEF ThreadRow, Honest
<1>3. PICK a \in Answers :
        LET kind == KindOf(Signal(a)) IN
        IF a.status = "200"
        THEN /\ calls' = calls + 1
             /\ Become(t, [r EXCEPT !.pc = "answered", !.sum = calls + 1])
             /\ events' = IF r.job = "plan" THEN events
                          ELSE Append(events, [call |-> calls + 1, names |-> Named(r.job)])
        ELSE /\ Become(t, IF r.tries + 1 < AttemptsFor(r.job, kind)
                          THEN [r EXCEPT !.tries = @ + 1]
                          ELSE GiveUp(r, m, kind))
             /\ UNCHANGED <<mix, events, calls>>
  BY DEF RouteTry
<1> DEFINE kind == KindOf(Signal(a))
<1>4. kind \in {"HARD", "TRANSIENT"}
  BY KindIs
<1> HIDE DEF kind
<1>5. CASE a.status = "200"
  <2> DEFINE g == [r EXCEPT !.pc = "answered", !.sum = calls + 1]
             e == [call |-> calls + 1, names |-> Named(r.job)]
  <2>1. /\ calls \in Nat /\ calls' = calls + 1 /\ events \in Seq(Event)
        /\ \A i \in 1..Len(events) : events[i].call \in 1..calls
    BY <1>3, <1>5 DEF SpendInv, EventsOK
  <2>2. e \in Event /\ e.call = calls + 1
    BY <2>1 DEF Event, Named
  <2>3. events' = events \/ events' = Append(events, e)
    BY <1>3, <1>5
  <2> HIDE DEF e
  <2>4. EventsOK' /\ Len(events) <= Len(events')
    <3>1. CASE events' = events
      BY <2>1, <3>1 DEF EventsOK
    <3>2. CASE events' = Append(events, e)
      <4>1. events' \in Seq(Event) /\ Len(events') = Len(events) + 1
        BY <3>2, <2>1, <2>2
      <4>2. \A i \in 1..Len(events') : events'[i].call \in 1..calls'
        BY <3>2, <2>1, <2>2
      <4> QED
        BY <2>1, <4>1, <4>2 DEF EventsOK
    <3> QED
      BY <2>3, <3>1, <3>2
  <2>5. CountsOK' /\ Grows
    BY <1>1, <2>1, <2>4 DEF SpendInv, CountsOK, EventsOK, SameCounts, Grows, IsInjective
  <2>6. g \in ThreadRow /\ g.pc = "answered" /\ g.sum = calls + 1 /\ g.job = r.job
        /\ g.at = r.at /\ g.tries = r.tries /\ g.failed = r.failed
    <3>1. calls + 1 \in Nat
      BY <2>1
    <3> HIDE DEF m
    <3> QED
      BY <1>1, <3>1 DEF ThreadRow
  <2>7. Become(t, g)
    BY <1>3, <1>5
  <2> HIDE DEF g, r
  <2>8. Honest(g)
    BY <1>1, <2>6 DEF Honest
  <2>9. ThreadOK(g, events', ToSet(usage'), calls')
    BY <2>1, <2>6, <2>8 DEF ThreadOK
  <2>10. ThreadsOK'
    BY <2>4, <2>5, <2>7, <2>9, StepsKeep DEF Steps, Become, SpendInv
  <2> QED
    BY <1>1, <2>4, <2>5, <2>10, SameTables DEF SpendInv
<1>6. CASE a.status # "200" /\ r.tries + 1 < AttemptsFor(r.job, kind)
  <2> DEFINE g == [r EXCEPT !.tries = r.tries + 1]
  <2>1. r.job # "plan" /\ r.tries + 1 \in 0..MaxAttempts - 1
    BY <1>2, <1>6 DEF AttemptsFor
  <2>2. Become(t, g) /\ SameEvents
    BY <1>3, <1>6 DEF SameEvents, kind
  <2>3. g \in ThreadRow /\ g.pc = "routing" /\ g.job = r.job /\ g.at = r.at
        /\ g.tries = r.tries + 1 /\ g.failed = r.failed
    BY <1>1, <2>1 DEF ThreadRow
  <2> HIDE DEF g, r
  <2>4. ThreadOK(g, events, ToSet(usage), calls)
    BY <1>1, <2>1, <2>3 DEF ThreadOK, Honest
  <2> QED
    BY <1>1, <2>2, <2>4, OwnKeeps DEF Own
<1>7. CASE a.status # "200" /\ ~(r.tries + 1 < AttemptsFor(r.job, kind))
  <2> DEFINE f == Failure(m, r.tries + 1, kind)
             g == [r EXCEPT !.at = r.at + 1, !.tries = 0, !.failed = Append(r.failed, f)]
  <2>1. Become(t, g) /\ SameEvents
    BY <1>3, <1>7 DEF SameEvents, kind, GiveUp
  <2>2. r.at + 1 \in Nat /\ Append(r.failed, f) \in Seq(FailureRow) /\ r.tries + 1 \in Nat
        /\ 0 \in 0..MaxAttempts - 1
    BY SMTT(20), <1>1, <1>2, <1>4, FailedGrows
  <2>3. FailureOK(r.job, r.at, f)
    BY <1>1, <1>2, <1>4, <1>7 DEF FailureOK, Failure, AttemptsFor
  <2> HIDE DEF f
  <2>4. /\ g \in ThreadRow /\ g.pc = "routing" /\ g.job = r.job /\ g.at = r.at + 1
        /\ g.tries = 0 /\ g.failed = Append(r.failed, f)
    BY <1>1, <2>2 DEF ThreadRow
  <2> HIDE DEF g, r
  <2>5. Honest(g)
    BY <1>1, <1>4, <2>2, <2>3, <2>4, GivenUp DEF f
  <2>6. ThreadOK(g, events, ToSet(usage), calls)
    BY <2>4, <2>5 DEF ThreadOK
  <2> QED
    BY <1>1, <2>1, <2>6, OwnKeeps DEF Own
<1> QED
  BY <1>5, <1>6, <1>7

LEMMA RouteBlockedKeeps ==
  ASSUME SpendInv, NEW t \in Thread, RouteBlocked(t)
  PROVE  SpendInv'
<1> DEFINE r == threads[t]
           g == [Idle EXCEPT !.pc = "routing", !.job = "direct", !.at = 1, !.rounds = r.rounds + 1]
<1>1. r \in ThreadRow /\ (Become(t, Idle) \/ (r.rounds + 1 < MaxAttempts /\ Become(t, g)))
  BY DEF SpendInv, ThreadsOK, ThreadOK, RouteBlocked
<1>2. CASE Become(t, Idle)
  BY <1>2, IdleOK, OwnKeeps DEF RouteBlocked, Own, SameEvents, SameCounts, SamePools, SameApproval
<1>3. CASE r.rounds + 1 < MaxAttempts /\ Become(t, g)
  <2>1. r.rounds + 1 \in 0..MaxAttempts - 1
    BY <1>1, <1>3 DEF ThreadRow
  <2>2. g \in ThreadRow /\ g.pc = "routing" /\ g.job = "direct" /\ g.at = 1 /\ g.failed = <<>>
    <3>1. ASSUME NEW b \in ThreadRow, NEW k \in 0..MaxAttempts - 1
          PROVE  [b EXCEPT !.pc = "routing", !.job = "direct", !.at = 1, !.rounds = k] \in ThreadRow
      BY DEF ThreadRow, JobName, Routed
    <3>2. g \in ThreadRow
      BY <2>1, <3>1, IdleOK
    <3> QED
      BY <3>2, IdleOK DEF ThreadRow
  <2>3. Become(t, g)
    BY <1>3
  <2> HIDE DEF g
  <2>4. Len(g.failed) = 0
    BY <2>2
  <2>5. ThreadOK(g, events, ToSet(usage), calls)
    BY <2>2, <2>4 DEF ThreadOK, Honest, Routed
  <2> QED
    BY <2>3, <2>5, OwnKeeps DEF RouteBlocked, Own, SameEvents, SameCounts, SamePools, SameApproval
<1> QED
  BY <1>1, <1>2, <1>3

LEMMA RouteOkKeeps ==
  ASSUME SpendInv, NEW t \in Thread, RouteOk(t)
  PROVE  SpendInv'
<1> DEFINE e == [call |-> threads[t].sum, names |-> {"task", "project"}]
<1>1. /\ threads[t].sum \in 1..calls /\ Become(t, Idle)
      /\ SameCounts /\ SamePools /\ SameApproval /\ calls' = calls
      /\ events' = events \/ events' = Append(events, e)
  BY DEF SpendInv, ThreadsOK, ThreadOK, RouteOk, SameCounts, SamePools, SameApproval
<1>2. calls \in Nat /\ events \in Seq(Event) /\ \A i \in 1..Len(events) : events[i].call \in 1..calls
  BY DEF SpendInv, EventsOK
<1>3. e \in Event /\ e.call \in 1..calls
  BY <1>1, <1>2 DEF Event
<1> HIDE DEF e
<1>4. EventsOK' /\ Len(events) <= Len(events')
  <2>1. CASE events' = events
    BY <1>1, <1>2, <2>1 DEF EventsOK
  <2>2. CASE events' = Append(events, e)
    <3>1. events' \in Seq(Event) /\ Len(events') = Len(events) + 1
      BY <2>2, <1>2, <1>3
    <3>2. \A i \in 1..Len(events') : events'[i].call \in 1..calls'
      BY <1>1, <2>2, <1>2, <1>3
    <3> QED
      BY <1>1, <1>2, <3>1, <3>2 DEF EventsOK
  <2> QED
    BY <1>1, <2>1, <2>2
<1>5. CountsOK' /\ Grows
  BY <1>1, <1>2, <1>4 DEF SpendInv, CountsOK, EventsOK, SameCounts, Grows, IsInjective
<1>6. ThreadsOK'
  BY <1>1, <1>4, <1>5, IdleOK, StepsKeep DEF Steps, Become, SpendInv
<1> QED
  BY <1>1, <1>4, <1>5, <1>6, SameTables DEF SpendInv

-----------------------------------------------------------------------------
(* Scans.                                                                  *)

LEMMA ScanStartKeeps ==
  ASSUME SpendInv, NEW t \in Thread, ScanStart(t)
  PROVE  SpendInv'
<1> DEFINE g == [Idle EXCEPT !.pc = "scanning", !.job = "scan", !.sum = Len(events)]
<1>1. Len(events) \in Nat
  BY DEF SpendInv, EventsOK
<1>2. g \in ThreadRow /\ g.pc = "scanning" /\ g.at = 0 /\ g.sum = Len(events)
  BY <1>1, IdleOK DEF ThreadRow, JobName
<1>3. Become(t, g)
  BY DEF ScanStart
<1> HIDE DEF g
<1>4. 1..g.at = {}
  BY <1>2
<1>5. ThreadOK(g, events, ToSet(usage), calls)
  BY <1>1, <1>2, <1>4 DEF ThreadOK
<1> QED
  BY <1>3, <1>5, OwnKeeps DEF ScanStart, Own, SameEvents, SameCounts, SamePools, SameApproval

(* An event gets its row; no row is written twice.                         *)
LEMMA RecordKeeps ==
  ASSUME CountsOK, EventsOK, NEW n \in 1..Len(events)
  PROVE  /\ Record(n) \in Seq(Nat) /\ IsInjective(Record(n))
         /\ ToSet(Record(n)) = ToSet(usage) \cup {n}
<1>1. usage \in Seq(Nat) /\ IsInjective(usage) /\ n \in Nat
  BY DEF CountsOK, EventsOK
<1>2. CASE n \in ToSet(usage)
  BY <1>1, <1>2 DEF Record
<1>3. CASE n \notin ToSet(usage)
  <2>1. Record(n) = Append(usage, n)
    BY <1>3 DEF Record
  <2>2. /\ Append(usage, n) \in Seq(Nat) /\ Len(Append(usage, n)) = Len(usage) + 1
        /\ Append(usage, n)[Len(usage) + 1] = n
        /\ \A i \in 1..Len(usage) : Append(usage, n)[i] = usage[i]
        /\ DOMAIN Append(usage, n) = 1..(Len(usage) + 1) /\ DOMAIN usage = 1..Len(usage)
        /\ Len(usage) \in Nat
    BY <1>1
  <2>3. \A i \in 1..(Len(usage) + 1) : i \in 1..Len(usage) \/ i = Len(usage) + 1
    BY <2>2
  <2>4. IsInjective(Append(usage, n))
    BY <1>1, <1>3, <2>2, <2>3 DEF IsInjective, ToSet
  <2>5. ToSet(Append(usage, n)) = ToSet(usage) \cup {n}
    <3>1. ToSet(Append(usage, n)) \subseteq ToSet(usage) \cup {n}
      BY <2>2, <2>3 DEF ToSet
    <3>2. ToSet(usage) \subseteq ToSet(Append(usage, n))
      BY <2>2 DEF ToSet
    <3>3. n \in ToSet(Append(usage, n))
      BY <2>2 DEF ToSet
    <3> QED
      BY <3>1, <3>2, <3>3
  <2> QED
    BY <2>1, <2>2, <2>4, <2>5
<1> QED
  BY <1>2, <1>3

LEMMA ScanLineKeeps ==
  ASSUME SpendInv, NEW t \in Thread, ScanLine(t)
  PROVE  SpendInv'
<1> DEFINE r == threads[t]
           g == [r EXCEPT !.at = r.at + 1]
<1>1. /\ r \in ThreadRow /\ r.pc = "scanning" /\ r.at < Len(events) /\ r.sum <= Len(events)
      /\ 1..r.at \subseteq ToSet(usage) /\ Become(t, g)
      /\ usage' = Record(r.at + 1) /\ scanned' = scanned
      /\ SameEvents /\ SamePools /\ SameApproval
  BY DEF SpendInv, ThreadsOK, ThreadOK, ScanLine, SameEvents, SamePools, SameApproval
<1>2. r.at \in Nat /\ Len(events) \in Nat /\ r.at + 1 \in 1..Len(events)
  BY <1>1 DEF ThreadRow, SpendInv, EventsOK
<1>3. g \in ThreadRow /\ g.pc = "scanning" /\ g.at = r.at + 1 /\ g.sum = r.sum
  <2>1. r.at + 1 \in Nat
    BY <1>2
  <2> QED
    BY <1>1, <2>1 DEF ThreadRow
<1> HIDE DEF g, r
<1>4. /\ usage' \in Seq(Nat) /\ IsInjective(usage')
      /\ ToSet(usage') = ToSet(usage) \cup {r.at + 1}
  BY <1>1, <1>2, RecordKeeps DEF SpendInv
<1>5. CountsOK'
  BY <1>1, <1>2, <1>4 DEF SpendInv, CountsOK, SameEvents
<1>6. EventsOK' /\ Grows
  BY <1>1, <1>2, <1>4 DEF SpendInv, EventsOK, SameEvents, Grows
<1>7. 1..g.at \subseteq ToSet(usage')
  <2>1. 1..g.at = (1..r.at) \cup {r.at + 1}
    BY <1>2, <1>3
  <2> QED
    BY <1>1, <1>4, <2>1
<1>8. ThreadOK(g, events', ToSet(usage'), calls')
  BY <1>1, <1>2, <1>3, <1>7 DEF ThreadOK, SameEvents
<1>9. ThreadsOK'
  BY <1>1, <1>6, <1>8, StepsKeep DEF Steps, Become, SpendInv
<1> QED
  BY <1>1, <1>5, <1>6, <1>9, SameTables DEF SpendInv

LEMMA ScanEndKeeps ==
  ASSUME SpendInv, NEW t \in Thread, ScanEnd(t)
  PROVE  SpendInv'
<1> DEFINE r == threads[t]
<1>1. /\ r \in ThreadRow /\ r.at = Len(events) /\ r.sum <= Len(events)
      /\ 1..r.at \subseteq ToSet(usage) /\ Become(t, Idle)
      /\ scanned' = Max({scanned, r.sum}) /\ usage' = usage
      /\ SameEvents /\ SamePools /\ SameApproval
  BY DEF SpendInv, ThreadsOK, ThreadOK, ScanEnd, SameEvents, SamePools, SameApproval
<1>2. r.sum \in Nat /\ scanned \in 0..Len(events) /\ Len(events) \in Nat
  BY <1>1 DEF ThreadRow, SpendInv, CountsOK, EventsOK
<1> HIDE DEF r
<1>3. scanned' \in {scanned, r.sum}
  BY <1>1, <1>2, MaxOfTwo
<1>4. scanned' \in 0..Len(events) /\ 1..scanned' \subseteq ToSet(usage)
  <2>1. 1..scanned \subseteq ToSet(usage)
    BY DEF SpendInv, CountsOK
  <2>2. 1..r.sum \subseteq 1..r.at
    BY <1>1, <1>2
  <2>3. 1..scanned' \subseteq ToSet(usage)
    BY <1>1, <1>3, <2>1, <2>2
  <2>4. scanned' \in 0..Len(events)
    BY <1>1, <1>2, <1>3
  <2> QED
    BY <2>3, <2>4
<1>5. CountsOK'
  BY <1>1, <1>4 DEF SpendInv, CountsOK, SameEvents, IsInjective
<1>6. EventsOK' /\ Grows
  BY <1>1, <1>2 DEF SpendInv, EventsOK, SameEvents, Grows
<1>7. ThreadsOK'
  BY <1>1, <1>6, IdleOK, StepsKeep DEF Steps, Become, SpendInv
<1> QED
  BY <1>1, <1>5, <1>6, <1>7, SameTables DEF SpendInv

-----------------------------------------------------------------------------
(* Budgets.                                                                *)

Sized == SameEvents /\ SameCounts /\ SameApproval

LEMMA PoolStep ==
  ASSUME SpendInv, NEW t \in Thread, Own(t), Sized, PoolsOK'
  PROVE  SpendInv'
<1>1. EventsOK' /\ CountsOK' /\ Grows /\ ApprovalOK'
  BY SameTables DEF Sized
<1>2. Steps(t)
  BY <1>1 DEF Own, Steps, Become, SameEvents, SameCounts, Sized
<1>3. ThreadsOK'
  BY <1>1, <1>2, StepsKeep DEF SpendInv
<1> QED
  BY <1>1, <1>3 DEF SpendInv

LEMMA LevelAt == \A i \in 1..3 : Order[i] \in Level /\ (i <= 2 => Order[i] # "daily")
BY DEF Order

LEMMA PoolAt ==
  ASSUME PoolsOK
  PROVE  \A l \in Level : budgets[l] \in Pool /\ budgets[l].used \in Nat /\ budgets[l].row \in BOOLEAN
BY DEF PoolsOK, Pool

(* Where a manager goes from a pool.                                       *)
LEMMA AdvanceOK ==
  ASSUME NEW r \in ThreadRow, r.at \in 1..3, NEW evs, NEW counted, NEW n
  PROVE  ThreadOK(Advance(r), evs, counted, n)
<1> DEFINE last == IF r.job = "sync" THEN 2 ELSE 3
           pc == IF r.job = "sync" THEN "summing" ELSE "loading"
           g == [r EXCEPT !.pc = pc, !.at = r.at + 1]
<1>1. CASE r.at + 1 > last
  BY <1>1, IdleOK DEF Advance
<1>2. CASE ~(r.at + 1 > last)
  <2>1. r.at + 1 \in Nat /\ r.at + 1 \in 1..3 /\ (r.job = "sync" => r.at + 1 <= 2)
    BY <1>2
  <2>2. g \in ThreadRow /\ g.pc = pc /\ g.at = r.at + 1 /\ g.job = r.job
    BY <2>1 DEF ThreadRow
  <2>3. Advance(r) = g
    BY <1>2 DEF Advance
  <2> HIDE DEF g
  <2> QED
    BY <2>1, <2>2, <2>3 DEF ThreadOK
<1> QED
  BY <1>1, <1>2

LEMMA LoadStartKeeps ==
  ASSUME SpendInv, NEW t \in Thread, NEW job \in {"check", "status"}, LoadStart(t, job)
  PROVE  SpendInv'
<1> DEFINE g == [Idle EXCEPT !.pc = "loading", !.job = job, !.at = 1]
<1>1. g \in ThreadRow /\ g.pc = "loading" /\ g.at = 1 /\ g.job = job
  BY IdleOK DEF ThreadRow, JobName
<1>2. Become(t, g)
  BY DEF LoadStart
<1> HIDE DEF g
<1>3. ThreadOK(g, events, ToSet(usage), calls)
  BY <1>1 DEF ThreadOK
<1> QED
  BY <1>2, <1>3, OwnKeeps DEF LoadStart, Own, SameEvents, SameCounts, SamePools, SameApproval

LEMMA LoadKeeps ==
  ASSUME SpendInv, NEW t \in Thread, Load(t)
  PROVE  SpendInv'
<1> DEFINE r == threads[t]
           b == budgets[Order[r.at]]
           missing == [r EXCEPT !.pc = "missing"]
           raising == [r EXCEPT !.pc = "raising", !.seen = b]
<1>1. /\ r \in ThreadRow /\ r.pc = "loading" /\ r.at \in 1..3 /\ (r.job = "sync" => r.at <= 2)
      /\ Sized /\ SamePools
  BY DEF SpendInv, ThreadsOK, ThreadOK, Load, Sized, SameEvents, SameCounts, SamePools, SameApproval
<1>2. b \in Pool /\ ("daily" \in Seeded /\ ~b.row => r.at <= 2)
  <2>1. "daily" \in Seeded => budgets["daily"].row
    BY DEF SpendInv, PoolsOK
  <2>2. b \in Pool /\ Order[r.at] \in Level
    BY <1>1, LevelAt, PoolAt DEF SpendInv
  <2>3. r.at = 3 => Order[r.at] = "daily"
    BY DEF Order
  <2>4. r.at = 3 \/ r.at <= 2
    BY <1>1
  <2> QED
    BY <2>1, <2>2, <2>3, <2>4
<1>3. PoolsOK'
  BY <1>1, SameTables
<1>4. Own(t)
  <2>1. CASE ~b.row
    <3>1. /\ missing \in ThreadRow /\ missing.pc = "missing" /\ missing.at = r.at
          /\ missing.job = r.job
      BY <1>1 DEF ThreadRow
    <3>2. Become(t, missing)
      BY <2>1 DEF Load
    <3> HIDE DEF missing, r, b
    <3> QED
      BY <1>1, <1>2, <2>1, <3>1, <3>2 DEF Own, ThreadOK
  <2>2. CASE b.row /\ r.job = "check" /\ Exceeded(b)
    <3>1. Become(t, Idle)
      BY <2>2 DEF Load
    <3> QED
      BY <3>1, IdleOK DEF Own
  <2>3. CASE b.row /\ r.job = "sync"
    <3>1. /\ raising \in ThreadRow /\ raising.pc = "raising" /\ raising.at = r.at
          /\ raising.job = r.job /\ raising.seen = b
      BY <1>1, <1>2 DEF ThreadRow
    <3>2. Become(t, raising)
      BY <2>3 DEF Load
    <3> HIDE DEF raising, r, b
    <3> QED
      BY <1>1, <1>2, <2>3, <3>1, <3>2 DEF Own, ThreadOK
  <2>4. CASE b.row /\ r.job # "sync" /\ ~(r.job = "check" /\ Exceeded(b))
    <3>1. Become(t, Advance(r))
      BY <2>4 DEF Load
    <3>2. ThreadOK(Advance(r), events, ToSet(usage), calls)
      BY <1>1, AdvanceOK
    <3> QED
      BY <3>1, <3>2 DEF Own
  <2> QED
    BY <2>1, <2>2, <2>3, <2>4
<1> QED
  BY <1>1, <1>3, <1>4, PoolStep

(* A pool that is replaced leaves the day exact unless it is the day's.    *)
LEMMA PoolReplaced ==
  ASSUME SpendInv, NEW l \in Level, NEW b \in Pool, spent' = spent,
         budgets' = [budgets EXCEPT ![l] = b],
         l = "daily" /\ "daily" \in Seeded => b.row /\ b.used = budgets["daily"].used
  PROVE  PoolsOK'
<1>1. budgets \in [Level -> Pool] /\ spent \in [Level -> Nat]
  BY DEF SpendInv, PoolsOK
<1>2. budgets' \in [Level -> Pool]
  BY <1>1
<1>3. l # "daily" => budgets'["daily"] = budgets["daily"]
  BY <1>1
<1>4. l = "daily" => budgets'["daily"] = b
  BY <1>1
<1> QED
  BY <1>1, <1>2, <1>3, <1>4 DEF SpendInv, PoolsOK

LEMMA LoadDefaultKeeps ==
  ASSUME SpendInv, NEW t \in Thread, LoadDefault(t)
  PROVE  SpendInv'
<1> DEFINE r == threads[t]
           fresh == [row |-> TRUE, used |-> 0, limit |-> Default]
           raising == [r EXCEPT !.pc = "raising", !.seen = fresh]
<1>1. /\ r \in ThreadRow /\ r.pc = "missing" /\ r.at \in 1..3 /\ (r.job = "sync" => r.at <= 2)
      /\ ("daily" \in Seeded => r.at <= 2) /\ Sized
      /\ budgets' = [budgets EXCEPT ![Order[r.at]] = fresh] /\ spent' = spent
  BY DEF SpendInv, ThreadsOK, ThreadOK, LoadDefault, Sized, SameEvents, SameCounts, SameApproval
<1>2. fresh \in Pool
  BY DEF Pool
<1>3. PoolsOK'
  <2>1. Order[r.at] \in Level /\ ("daily" \in Seeded => Order[r.at] # "daily")
    BY <1>1, LevelAt
  <2> QED
    BY <1>1, <1>2, <2>1, PoolReplaced
<1>4. Own(t)
  <2>1. CASE r.job = "sync"
    <3>1. /\ raising \in ThreadRow /\ raising.pc = "raising" /\ raising.at = r.at
          /\ raising.job = r.job /\ raising.seen = fresh
      BY <1>1, <1>2 DEF ThreadRow
    <3>2. Become(t, raising)
      BY <2>1 DEF LoadDefault
    <3> HIDE DEF raising, r, fresh
    <3> QED
      BY <1>1, <1>2, <2>1, <3>1, <3>2 DEF Own, ThreadOK
  <2>2. CASE r.job # "sync"
    <3>1. Become(t, Advance(r))
      BY <2>2 DEF LoadDefault
    <3>2. ThreadOK(Advance(r), events, ToSet(usage), calls)
      BY <1>1, AdvanceOK
    <3> QED
      BY <3>1, <3>2 DEF Own
  <2> QED
    BY <2>1, <2>2
<1> QED
  BY <1>1, <1>3, <1>4, PoolStep

LEMMA ConsumeKeeps ==
  ASSUME SpendInv, NEW t \in Thread, Consume(t)
  PROVE  SpendInv'
<1> DEFINE g == [Idle EXCEPT !.pc = "loading", !.job = "check", !.at = 1]
<1>1. /\ Become(t, g) /\ Sized
      /\ budgets' = [l \in Level |-> Charged(budgets[l])]
      /\ spent' = [l \in Level |-> spent[l] + 1]
  BY DEF Consume, Sized, SameEvents, SameCounts, SameApproval
<1>2. g \in ThreadRow /\ g.pc = "loading" /\ g.at = 1 /\ g.job = "check"
  BY IdleOK DEF ThreadRow, JobName
<1> HIDE DEF g
<1>3. Own(t)
  BY <1>1, <1>2 DEF ThreadOK, Own
<1>4. ASSUME NEW b \in Pool
      PROVE  Charged(b) \in Pool /\ (b.row => Charged(b).row /\ Charged(b).used = b.used + 1)
  BY DEF Charged, Pool
<1>5. PoolsOK'
  <2>1. budgets \in [Level -> Pool] /\ spent \in [Level -> Nat]
        /\ ("daily" \in Seeded => budgets["daily"].row /\ budgets["daily"].used = spent["daily"])
    BY DEF SpendInv, PoolsOK
  <2>2. \A l \in Level : budgets'[l] = Charged(budgets[l]) /\ budgets[l] \in Pool
    BY <1>1, <2>1
  <2>3. budgets' \in [Level -> Pool] /\ spent' \in [Level -> Nat]
    BY <1>1, <1>4, <2>1
  <2>4. spent'["daily"] = spent["daily"] + 1
    BY <1>1
  <2> QED
    BY <1>4, <2>1, <2>2, <2>3, <2>4 DEF PoolsOK
<1> QED
  BY <1>1, <1>3, <1>5, PoolStep

LEMMA SetLimitKeeps ==
  ASSUME SpendInv, NEW t \in Thread, NEW l \in Level, NEW limit \in {0, Default},
         SetLimit(t, l, limit)
  PROVE  SpendInv'
<1> DEFINE b == [budgets[l] EXCEPT !.row = TRUE, !.limit = limit]
<1>1. budgets \in [Level -> Pool] /\ budgets[l] \in Pool
  BY DEF SpendInv, PoolsOK
<1>2. b \in Pool /\ b.row = TRUE /\ b.used = budgets[l].used
  BY <1>1 DEF Pool
<1>3. budgets' = [budgets EXCEPT ![l] = b] /\ spent' = spent
  BY <1>1 DEF SetLimit
<1> HIDE DEF b
<1>4. PoolsOK'
  BY <1>2, <1>3, PoolReplaced
<1> QED
  BY <1>4, SameTables DEF SpendInv, SetLimit, SameEvents, SameCounts, SameApproval, ThreadsOK

LEMMA ResetKeeps ==
  ASSUME SpendInv, NEW t \in Thread, NEW l \in Level, Reset(t, l)
  PROVE  SpendInv'
<1> DEFINE b == [budgets[l] EXCEPT !.row = TRUE, !.used = 0]
<1>1. /\ budgets \in [Level -> Pool] /\ budgets[l] \in Pool /\ spent \in [Level -> Nat]
      /\ ("daily" \in Seeded => budgets["daily"].row /\ budgets["daily"].used = spent["daily"])
  BY DEF SpendInv, PoolsOK
<1>2. b \in Pool /\ b.row = TRUE /\ b.used = 0
  BY <1>1 DEF Pool
<1>3. budgets' = [budgets EXCEPT ![l] = b] /\ spent' = [spent EXCEPT ![l] = 0]
  BY <1>1 DEF Reset
<1> HIDE DEF b
<1>4. budgets' \in [Level -> Pool] /\ spent' \in [Level -> Nat]
  BY <1>1, <1>2, <1>3
<1>5. "daily" \in Seeded => budgets'["daily"].row /\ budgets'["daily"].used = spent'["daily"]
  <2>1. CASE l = "daily"
    BY <1>1, <1>2, <1>3, <2>1
  <2>2. CASE l # "daily"
    BY <1>1, <1>3, <2>2
  <2> QED
    BY <2>1, <2>2
<1>6. PoolsOK'
  BY <1>4, <1>5 DEF PoolsOK
<1> QED
  BY <1>6, SameTables DEF SpendInv, Reset, SameEvents, SameCounts, SameApproval, ThreadsOK

LEMMA SyncStartKeeps ==
  ASSUME SpendInv, NEW t \in Thread, SyncStart(t)
  PROVE  SpendInv'
<1> DEFINE g == [Idle EXCEPT !.pc = "summing", !.job = "sync", !.at = 1]
<1>1. g \in ThreadRow /\ g.pc = "summing" /\ g.at = 1 /\ g.job = "sync"
  BY IdleOK DEF ThreadRow, JobName
<1>2. Become(t, g)
  BY DEF SyncStart
<1> HIDE DEF g
<1>3. ThreadOK(g, events, ToSet(usage), calls)
  BY <1>1 DEF ThreadOK
<1> QED
  BY <1>2, <1>3, OwnKeeps DEF SyncStart, Own, SameEvents, SameCounts, SamePools, SameApproval

LEMMA SyncSumKeeps ==
  ASSUME SpendInv, NEW t \in Thread, SyncSum(t)
  PROVE  SpendInv'
<1> DEFINE r == threads[t]
           sum == SumUsage(Order[r.at])
           g == [r EXCEPT !.pc = "loading", !.sum = sum]
<1>1. r \in ThreadRow /\ r.pc = "summing" /\ r.job = "sync" /\ r.at \in 1..2
  BY DEF SpendInv, ThreadsOK, ThreadOK, SyncSum
<1>2. sum \in Nat
  BY SumIsNat DEF SpendInv
<1> HIDE DEF sum
<1>3. Own(t)
  <2>1. CASE sum = 0
    <3>1. Become(t, Advance(r))
      BY <2>1 DEF SyncSum, sum
    <3>2. r.at \in 1..3
      BY <1>1
    <3> QED
      BY <1>1, <3>1, <3>2, AdvanceOK DEF Own
  <2>2. CASE sum # 0
    <3>1. Become(t, g)
      BY <2>2 DEF SyncSum, sum
    <3>2. g \in ThreadRow /\ g.pc = "loading" /\ g.at = r.at /\ g.job = r.job
      BY <1>1, <1>2 DEF ThreadRow
    <3> HIDE DEF g, r
    <3> QED
      BY <1>1, <3>1, <3>2 DEF Own, ThreadOK
  <2> QED
    BY <2>1, <2>2
<1> QED
  BY <1>3, OwnKeeps DEF SyncSum, SameEvents, SameCounts, SamePools, SameApproval

LEMMA SyncRaiseKeeps ==
  ASSUME SpendInv, NEW t \in Thread, SyncRaise(t)
  PROVE  SpendInv'
<1> DEFINE r == threads[t]
           b == [row |-> TRUE, used |-> r.sum, limit |-> r.seen.limit]
<1>1. /\ r \in ThreadRow /\ r.job = "sync" /\ r.at \in 1..2 /\ r.seen \in Pool
      /\ Become(t, Advance(r)) /\ Sized /\ spent' = spent
      /\ (budgets' = budgets \/ budgets' = [budgets EXCEPT ![Order[r.at]] = b])
  BY DEF SpendInv, ThreadsOK, ThreadOK, SyncRaise, Sized, SameEvents, SameCounts, SameApproval
<1>2. b \in Pool
  BY <1>1 DEF ThreadRow, Pool
<1> HIDE DEF b
<1>3. Order[r.at] \in Level /\ Order[r.at] # "daily" /\ r.at \in 1..3
  BY <1>1, LevelAt
<1>4. PoolsOK'
  <2>1. CASE budgets' = budgets
    BY <1>1, <2>1, SameTables DEF SamePools
  <2>2. CASE budgets' = [budgets EXCEPT ![Order[r.at]] = b]
    BY <1>1, <1>2, <1>3, <2>2, PoolReplaced
  <2> QED
    BY <1>1, <2>1, <2>2
<1>5. Own(t)
  BY <1>1, <1>3, AdvanceOK DEF Own
<1> QED
  BY <1>1, <1>4, <1>5, PoolStep

-----------------------------------------------------------------------------
(* Approvals.                                                              *)

(* The first decision counts, all later ones change nothing.               *)
LEMMA DecideKeeps ==
  ASSUME SpendInv, NEW d \in {"approve", "reject"}, Decide(d)
  PROVE  ApprovalOK' /\ SameEvents /\ SameCounts /\ SamePools
<1>1. CASE approval = "pending"
  BY <1>1 DEF SpendInv, ApprovalOK, Decide, Decision, SameEvents, SameCounts, SamePools
<1>2. CASE approval # "pending"
  BY <1>2 DEF SpendInv, ApprovalOK, Decide, Decision, SameEvents, SameCounts, SamePools
<1> QED
  BY <1>1, <1>2

LEMMA AnswerKeeps ==
  ASSUME SpendInv, NEW t \in Thread, NEW d \in {"approve", "reject"}, Answer(t, d)
  PROVE  SpendInv'
<1>1. Decide(d) /\ threads' = threads
  BY DEF Answer
<1> QED
  BY <1>1, DecideKeeps, SameTables DEF SpendInv, ThreadsOK, SameEvents, SameCounts

LEMMA ExpireKeeps ==
  ASSUME SpendInv, NEW t \in Thread, Expire(t)
  PROVE  SpendInv'
<1>1. Decide("reject") /\ Become(t, Idle)
  BY DEF Expire
<1>2. ApprovalOK' /\ SameEvents /\ SameCounts /\ SamePools
  BY <1>1, DecideKeeps
<1>3. EventsOK' /\ CountsOK' /\ Grows /\ PoolsOK'
  BY <1>2, SameTables
<1>4. ThreadsOK'
  BY <1>1, <1>3, IdleOK, StepsKeep DEF Steps, Become, SpendInv
<1> QED
  BY <1>2, <1>3, <1>4 DEF SpendInv

LEMMA ExpireListKeeps ==
  ASSUME SpendInv, NEW t \in Thread, ExpireList(t)
  PROVE  SpendInv'
<1> DEFINE g == [Idle EXCEPT !.pc = "expiring", !.job = "expire"]
<1>1. g \in ThreadRow /\ g.pc = "expiring"
  BY IdleOK DEF ThreadRow, JobName
<1>2. Become(t, g)
  BY DEF ExpireList
<1> HIDE DEF g
<1>3. ThreadOK(g, events, ToSet(usage), calls)
  BY <1>1 DEF ThreadOK
<1> QED
  BY <1>2, <1>3, OwnKeeps DEF ExpireList, Own, SameEvents, SameCounts, SamePools, SameApproval

LEMMA RequestKeeps ==
  ASSUME SpendInv, NEW t \in Thread, RequestApproval(t)
  PROVE  SpendInv'
<1>1. ApprovalOK'
  BY DEF SpendInv, ApprovalOK, RequestApproval
<1> QED
  BY <1>1, SameTables DEF SpendInv, RequestApproval, SameEvents, SameCounts, SamePools, ThreadsOK

LEMMA TimeKeeps ==
  ASSUME SpendInv, TimePasses
  PROVE  SpendInv'
<1>1. ApprovalOK'
  BY DEF SpendInv, ApprovalOK, TimePasses
<1> QED
  BY <1>1, SameTables DEF SpendInv, TimePasses, SameEvents, SameCounts, SamePools, ThreadsOK

-----------------------------------------------------------------------------
(* The invariant holds.                                                    *)

LEMMA SpendInitInv == SpendInit => SpendInv
<1> SUFFICES ASSUME SpendInit PROVE SpendInv
  OBVIOUS
<1>1. EventsOK
  BY DEF SpendInit, EventsOK
<1>2. CountsOK
  <2>1. usage = <<>> /\ events = <<>> /\ scanned = 0
    BY DEF SpendInit
  <2>2. usage \in Seq(Nat) /\ Len(events) = 0 /\ DOMAIN usage = {}
    BY <2>1
  <2>3. ToSet(usage) = {}
    BY <2>2 DEF ToSet
  <2> QED
    BY <2>1, <2>2, <2>3 DEF CountsOK, IsInjective
<1>3. PoolsOK
  <2>1. \A l \in Level : budgets[l] \in Pool /\ spent[l] = 0
    BY DEF SpendInit, Pool, NoRow
  <2>2. budgets \in [Level -> Pool] /\ spent \in [Level -> Nat]
    BY <2>1 DEF SpendInit
  <2>3. "daily" \in Seeded => budgets["daily"] = [row |-> TRUE, used |-> 0, limit |-> Default]
    BY DEF SpendInit
  <2> QED
    BY <2>1, <2>2, <2>3 DEF PoolsOK
<1>4. ApprovalOK
  BY DEF SpendInit, ApprovalOK
<1>5. ThreadsOK
  BY IdleOK DEF SpendInit, ThreadsOK
<1> QED
  BY <1>1, <1>2, <1>3, <1>4, <1>5 DEF SpendInv

LEMMA SpendStepInv == SpendInv /\ [SpendNext]_spendVars => SpendInv'
<1> SUFFICES ASSUME SpendInv, [SpendNext]_spendVars PROVE SpendInv'
  OBVIOUS
<1>1. ASSUME NEW t \in Thread, Route(t) PROVE SpendInv'
  BY <1>1, RouteStartKeeps, RouteSkipKeeps, RouteTryKeeps, RouteOkKeeps, RouteBlockedKeeps
     DEF Route, Routed
<1>2. ASSUME NEW t \in Thread, Scan(t) PROVE SpendInv'
  BY <1>2, ScanStartKeeps, ScanLineKeeps, ScanEndKeeps DEF Scan
<1>3. ASSUME NEW t \in Thread, Budget(t) PROVE SpendInv'
  BY <1>3, LoadStartKeeps, LoadKeeps, LoadDefaultKeeps, ConsumeKeeps, SetLimitKeeps,
     ResetKeeps, SyncStartKeeps, SyncSumKeeps, SyncRaiseKeeps DEF Budget
<1>4. ASSUME NEW t \in Thread, Approval(t) PROVE SpendInv'
  BY <1>4, RequestKeeps, AnswerKeeps, ExpireListKeeps, ExpireKeeps DEF Approval
<1>5. CASE TimePasses
  BY <1>5, TimeKeeps
<1>6. CASE UNCHANGED spendVars
  BY <1>6, SameTables
     DEF spendVars, SpendInv, SameEvents, SameCounts, SamePools, SameApproval, ThreadsOK
<1> QED
  BY <1>1, <1>2, <1>3, <1>4, <1>5, <1>6 DEF SpendNext

LEMMA SpendInvAlways == SpendSpec => []SpendInv
BY SpendInitInv, SpendStepInv, PTL DEF SpendSpec

-----------------------------------------------------------------------------
(* The theorems.                                                           *)

(* The types of the tables and of what the threads hold.                   *)
THEOREM SpendIsTyped == SpendSpec => []SpendTypeOK
<1>1. SpendInv => SpendTypeOK
  <2> SUFFICES ASSUME SpendInv PROVE SpendTypeOK
    OBVIOUS
  <2>1. DOMAIN threads = Thread /\ \A t \in Thread : threads[t] \in ThreadRow
    BY DEF SpendInv, ThreadsOK, ThreadOK
  <2>2. events \in Seq(Event) /\ DOMAIN events = 1..Len(events)
    BY DEF SpendInv, EventsOK
  <2>3. \A i \in DOMAIN events : events[i].call \in 1..calls /\ events[i].names \subseteq Level
    <3> SUFFICES ASSUME NEW i \in 1..Len(events)
                 PROVE  events[i].call \in 1..calls /\ events[i].names \subseteq Level
      BY <2>2
    <3>1. events[i] \in Event
      BY <2>2
    <3>2. events[i].names \subseteq Level
      BY <3>1 DEF Event
    <3> QED
      BY <3>2 DEF SpendInv, EventsOK
  <2>4. \A l \in Level : budgets[l].used \in Nat /\ budgets[l].limit \in {0, Default}
    BY DEF SpendInv, PoolsOK, Pool
  <2>5. \A t \in Thread :
          /\ threads[t].pc \in {"idle", "routing", "answered", "scanning", "loading", "missing",
                                "summing", "raising", "expiring"}
          /\ threads[t].tries \in 0..MaxAttempts - 1 /\ threads[t].rounds \in 0..MaxAttempts - 1
    BY <2>1 DEF ThreadRow
  <2> QED
    BY <2>1, <2>2, <2>3, <2>4, <2>5 DEF SpendInv, SpendTypeOK, CountsOK, ApprovalOK
<1> QED
  BY <1>1, SpendInvAlways, PTL

(* BLOCKED reports every candidate before the one at hand, in order, with  *)
(* as many attempts as the policy allows (ModelRouter.route).              *)
THEOREM BlockedTellsTheTruth == SpendSpec => []BlockedIsHonest
<1>1. SpendInv => BlockedIsHonest
  <2> SUFFICES ASSUME SpendInv, NEW t \in Thread, threads[t].pc \in {"routing", "answered"}
               PROVE  LET r == threads[t]  chain == ChainOf(r.job) IN
                      /\ Len(r.failed) = r.at - 1
                      /\ \A i \in DOMAIN r.failed :
                           LET f == r.failed[i] IN
                           /\ f.model = chain[i]
                           /\ f.tries <= MaxAttempts /\ (f.tries = 0 <=> f.model \in Keyless)
                           /\ f.kind # "HARD" => f.tries = IF r.job = "plan" THEN 1 ELSE MaxAttempts
    BY DEF BlockedIsHonest
  <2>1. threads[t] \in ThreadRow /\ Honest(threads[t])
    BY DEF SpendInv, ThreadsOK, ThreadOK
  <2>2. DOMAIN threads[t].failed = 1..Len(threads[t].failed)
    BY <2>1 DEF ThreadRow
  <2> QED
    BY <2>1, <2>2 DEF Honest, FailureOK
<1> QED
  BY <1>1, SpendInvAlways, PTL

(* Overlapping and repeated scans count an event once (record_usage,       *)
(* scan_events_file).                                                      *)
THEOREM EventsAreCountedOnce == SpendSpec => []CountedOnce
<1>1. SpendInv => CountedOnce
  BY DEF SpendInv, CountsOK, CountedOnce
<1> QED
  BY <1>1, SpendInvAlways, PTL

(* A pool whose row is there loses no charge (consume_budgets), whoever    *)
(* loads, limits, resets and raises pools meanwhile.                       *)
THEOREM TheDayIsExact == SpendSpec => []DayIsExact
<1>1. SpendInv => DayIsExact
  BY DEF SpendInv, PoolsOK, DayIsExact
<1> QED
  BY <1>1, SpendInvAlways, PTL

(* An approval is decided once (decide_approval).                          *)
THEOREM ApprovalsAreDecidedOnce == SpendSpec => []DecidedOnce
<1>1. SpendInv => DecidedOnce
  BY DEF SpendInv, ApprovalOK, DecidedOnce
<1> QED
  BY <1>1, SpendInvAlways, PTL
=============================================================================
