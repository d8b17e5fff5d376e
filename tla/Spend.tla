-------------------------------- MODULE Spend --------------------------------
(***************************************************************************)
(* What the fleet spends and who may: the router that walks a role's chain *)
(* of models, the model:call events it and the dispatcher leave behind,    *)
(* the scans that turn events into usage rows, the budget pools (task,     *)
(* project, day) that callers charge and managers load, raise and reset,   *)
(* and the approvals that are decided once, by a person or by the clock.   *)
(*                                                                         *)
(* One task, one project, one day: a level names its one pool.  Each call  *)
(* costs one token.  Each thread does one thing at a time: that is enough  *)
(* for every race, since the database serialises single statements.        *)
(***************************************************************************)
EXTENDS Integers, FiniteSets, Sequences, SequencesExt, FiniteSetsExt

CONSTANTS
  Thread,      (* threads that call models, budgets, scans and approvals    *)
  Mixes,       (* sets of jobs that are at work together                    *)
  Bound,       (* bind_model_name of the role, in order                     *)
  Catalogue,   (* models of the pool that this environment may use          *)
  TomlChain,   (* models of the planner's role in fleet.toml                *)
  Keyless,     (* models whose key or address is not configured             *)
  Answers,     (* what a provider may answer: [status, body]                *)
  MaxAttempts, (* retry_max                                                 *)
  Default,     (* limit of a pool nobody configured                         *)
  Seeded,      (* levels whose pool has a row at the start                  *)
  MaxCalls,    (* bound: answers given by providers                         *)
  MaxSpent     (* bound: charges                                            *)

ASSUME SpendAssumption ==
  /\ Mixes \subseteq SUBSET
       {"review", "direct", "plan", "scan", "check", "status", "consume", "limit", "reset",
        "sync", "request", "approve", "reject", "expire"}
  /\ MaxAttempts \in Nat \ {0} /\ Default \in Nat \ {0}
  /\ MaxCalls \in Nat /\ MaxSpent \in Nat
  /\ Seeded \subseteq {"task", "project", "daily"}

VARIABLES
  mix,      \* the jobs at work
  threads,  \* where each thread is
  events,   \* the model:call events of the journal
  usage,    \* governance_usage: the event each row counts
  scanned,  \* events that some finished scan had before it
  budgets,  \* governance_budget: the pool of each level
  spent,    \* what was charged to each pool since it was last reset
  calls,    \* answers given by providers
  approval, \* status of the one approval
  late,     \* its time is over
  wins,     \* how many were told that their decision stands
  assured   \* somebody was told that it is approved

spendVars == <<mix, threads, events, usage, scanned, budgets, spent, calls, approval, late, wins, assured>>

Level == {"task", "project", "daily"}
Order == <<"task", "project", "daily">>

NoRow == [row |-> FALSE, used |-> 0, limit |-> 0]
Exceeded(b) == b.limit > 0 /\ b.used >= b.limit

(* job: what the thread was called for.  at: the level or the candidate it *)
(* is at.  tries: attempts on the candidate.  rounds: routes of a direct   *)
(* executor.  failed: candidates given up.  seen, sum: what it has read.   *)
Idle == [pc |-> "idle", job |-> "none", at |-> 0, tries |-> 0, rounds |-> 0,
         failed |-> <<>>, seen |-> NoRow, sum |-> 0]

Free(t, job) == job \in mix /\ threads[t].pc = "idle"

Become(t, r) == threads' = [threads EXCEPT ![t] = r]
-----------------------------------------------------------------------------
(* The chain of a role: its bindings in order, each model once, those of   *)
(* the pool only.                                                          *)
ChainFor(bound) ==
  FoldLeft(LAMBDA chain, m : IF m \in Catalogue /\ m \notin ToSet(chain)
                             THEN Append(chain, m) ELSE chain, <<>>, bound)

(* The planner reads fleet.toml first.                                     *)
ChainOf(job) == IF job = "plan" /\ TomlChain # <<>> THEN TomlChain ELSE ChainFor(Bound)

(* The signal of an answer that is not OK: what its body says goes before  *)
(* its status.                                                             *)
Signal(a) ==
  IF a.body = "no such model" THEN "model_not_found"
  ELSE IF a.status = "402" \/ a.body = "quota" THEN "quota_exhausted"
  ELSE a.status

Hard == {"401", "402", "403", "quota_exhausted", "model_not_found"}
KindOf(signal) == IF signal \in Hard THEN "HARD" ELSE "TRANSIENT"

(* The planner's client tries each candidate once.                         *)
AttemptsFor_More(job, kind) == IF kind = "HARD" \/ job = "plan" THEN 1 ELSE MaxAttempts + 1
AttemptsFor_Swapped(job, kind) == IF kind = "HARD" /\ job # "plan" THEN MaxAttempts ELSE 1
AttemptsFor(job, kind) == IF kind = "HARD" \/ job = "plan" THEN 1 ELSE MaxAttempts

Failure(m, tries, kind) == [model |-> m, tries |-> tries, kind |-> kind]

RouteStart(t, job) ==
  /\ Free(t, job)
  /\ Become(t, [Idle EXCEPT !.pc = "routing", !.job = job, !.at = 1])
  /\ UNCHANGED <<mix, events, usage, scanned, budgets, spent, calls, approval, late, wins, assured>>

(* A candidate without a key is not tried.                                 *)
RouteSkip(t) ==
  LET r == threads[t]  chain == ChainOf(r.job) IN
  /\ r.pc = "routing" /\ r.at <= Len(chain) /\ chain[r.at] \in Keyless
  /\ Become(t, [r EXCEPT !.at = @ + 1, !.failed = Append(@, Failure(chain[r.at], 0, "HARD"))])
  /\ UNCHANGED <<mix, events, usage, scanned, budgets, spent, calls, approval, late, wins, assured>>

(* One request to a candidate.  A success of the router is an event of the *)
(* project, without a task; the planner leaves none.                       *)
GiveUp(r, m, kind) ==
  [r EXCEPT !.at = @ + 1, !.tries = 0, !.failed = Append(@, Failure(m, r.tries + 1, kind))]

(* What an event of the router names.                                      *)
Named(job) == IF job = "review" THEN {"project"} ELSE {}

RouteTry(t) ==
  LET r == threads[t]  chain == ChainOf(r.job) IN
  /\ r.pc = "routing" /\ r.at <= Len(chain) /\ chain[r.at] \notin Keyless
  /\ calls < MaxCalls
  /\ \E a \in Answers :
       LET kind == KindOf(Signal(a)) IN
       IF a.status = "200"
       THEN /\ calls' = calls + 1
            /\ Become(t, [r EXCEPT !.pc = "answered", !.sum = calls + 1])
            /\ events' = IF r.job = "plan" THEN events
                         ELSE Append(events, [call |-> calls + 1, names |-> Named(r.job)])
       ELSE /\ Become(t, IF r.tries + 1 < AttemptsFor(r.job, kind)
                         THEN [r EXCEPT !.tries = @ + 1]
                         ELSE GiveUp(r, chain[r.at], kind))
            /\ UNCHANGED <<mix, events, calls>>
  /\ UNCHANGED <<mix, usage, scanned, budgets, spent, approval, late, wins, assured>>

(* A direct executor returns to the dispatcher, which leaves an event of   *)
(* its own for the task.                                                   *)
RouteOk(t) ==
  LET r == threads[t] IN
  /\ r.pc = "answered"
  /\ events' = IF r.job = "direct"
               THEN Append(events, [call |-> r.sum, names |-> {"task", "project"}])
               ELSE events
  /\ Become(t, Idle)
  /\ UNCHANGED <<mix, usage, scanned, budgets, spent, calls, approval, late, wins, assured>>

(* Every candidate is given up.  The dispatcher runs a direct executor     *)
(* again unless one of the reasons is hard.                                *)
RouteBlocked(t) ==
  LET r == threads[t]
      hard == \E f \in ToSet(r.failed) : f.kind = "HARD" /\ f.tries > 0
  IN /\ r.pc = "routing" /\ r.at > Len(ChainOf(r.job))
     /\ Become(t, IF r.job = "direct" /\ ~hard /\ r.rounds + 1 < MaxAttempts
                  THEN [Idle EXCEPT !.pc = "routing", !.job = "direct", !.at = 1,
                                    !.rounds = r.rounds + 1]
                  ELSE Idle)
     /\ UNCHANGED <<mix, events, usage, scanned, budgets, spent, calls, approval, late, wins, assured>>

-----------------------------------------------------------------------------
(* scan_events_file: line by line, to the end the file then has.           *)

ScanStart(t) ==
  /\ Free(t, "scan")
  /\ Become(t, [Idle EXCEPT !.pc = "scanning", !.job = "scan", !.sum = Len(events)])
  /\ UNCHANGED <<mix, events, usage, scanned, budgets, spent, calls, approval, late, wins, assured>>

(* record_usage: the key of the event is unique.                           *)
Record_Plain(n) == Append(usage, n)
Record(n) == IF n \in ToSet(usage) THEN usage ELSE Append(usage, n)

ScanLine(t) ==
  LET r == threads[t] IN
  /\ r.pc = "scanning" /\ r.at < Len(events)
  /\ Become(t, [r EXCEPT !.at = @ + 1])
  /\ usage' = Record(r.at + 1)
  /\ UNCHANGED <<mix, events, scanned, budgets, spent, calls, approval, late, wins, assured>>

ScanEnd(t) ==
  LET r == threads[t] IN
  /\ r.pc = "scanning" /\ r.at = Len(events)
  /\ Become(t, Idle)
  /\ scanned' = Max({scanned, r.sum})
  /\ UNCHANGED <<mix, events, usage, budgets, spent, calls, approval, late, wins, assured>>

(* sum_usage of the events that name a level.                              *)
SumUsage(l) == Cardinality({i \in DOMAIN usage : l \in events[usage[i]].names})

-----------------------------------------------------------------------------
(* BudgetManager.                                                          *)

(* The next pool to look at; sync_from_events does not look at the day.    *)
Advance(r) ==
  IF r.at + 1 > (IF r.job = "sync" THEN 2 ELSE 3) THEN Idle
  ELSE [r EXCEPT !.pc = IF r.job = "sync" THEN "summing" ELSE "loading", !.at = @ + 1]

(* check, get_status, or a report of the day.                              *)
LoadStart(t, job) ==
  /\ Free(t, job)
  /\ Become(t, [Idle EXCEPT !.pc = "loading", !.job = job, !.at = 1])
  /\ UNCHANGED <<mix, events, usage, scanned, budgets, spent, calls, approval, late, wins, assured>>

(* _load_from_config, the row: check raises at the first pool exceeded.    *)
Load(t) ==
  LET r == threads[t]  b == budgets[Order[r.at]] IN
  /\ r.pc = "loading"
  /\ Become(t, IF ~b.row THEN [r EXCEPT !.pc = "missing"]
               ELSE IF r.job = "check" /\ Exceeded(b) THEN Idle
               ELSE IF r.job = "sync" THEN [r EXCEPT !.pc = "raising", !.seen = b]
               ELSE Advance(r))
  /\ UNCHANGED <<mix, events, usage, scanned, budgets, spent, calls, approval, late, wins, assured>>

(* The row was not there: the default is written, over the row that may be *)
(* there by now.                                                           *)
LoadDefault(t) ==
  LET r == threads[t]  fresh == [row |-> TRUE, used |-> 0, limit |-> Default] IN
  /\ r.pc = "missing"
  /\ budgets' = [budgets EXCEPT ![Order[r.at]] = fresh]
  /\ Become(t, IF r.job = "sync" THEN [r EXCEPT !.pc = "raising", !.seen = fresh]
               ELSE Advance(r))
  /\ UNCHANGED <<mix, events, usage, scanned, spent, calls, approval, late, wins, assured>>

(* consume_budgets: the three pools in one write transaction; then check.  *)
Charged_Once(b) == IF b.row THEN [b EXCEPT !.used = 1]
                   ELSE [row |-> TRUE, used |-> 1, limit |-> Default]
Charged(b) == IF b.row THEN [b EXCEPT !.used = @ + 1]
              ELSE [row |-> TRUE, used |-> 1, limit |-> Default]

Consume(t) ==
  /\ Free(t, "consume") /\ \A l \in Level : spent[l] < MaxSpent
  /\ budgets' = [l \in Level |-> Charged(budgets[l])]
  /\ spent' = [l \in Level |-> spent[l] + 1]
  /\ Become(t, [Idle EXCEPT !.pc = "loading", !.job = "check", !.at = 1])
  /\ UNCHANGED <<mix, events, usage, scanned, calls, approval, late, wins, assured>>

(* set_limit and reset, of one pool, by upsert.                            *)
SetLimit(t, l, limit) ==
  /\ Free(t, "limit")
  /\ budgets' = [budgets EXCEPT ![l].row = TRUE, ![l].limit = limit]
  /\ UNCHANGED <<mix, threads, events, usage, scanned, spent, calls, approval, late, wins, assured>>

Reset(t, l) ==
  /\ Free(t, "reset") /\ budgets[l].used > 0
  /\ budgets' = [budgets EXCEPT ![l].row = TRUE, ![l].used = 0]
  /\ spent' = [spent EXCEPT ![l] = 0]
  /\ UNCHANGED <<mix, threads, events, usage, scanned, calls, approval, late, wins, assured>>

(* sync_from_events: the sums of a level, the pool, and the pool raised to *)
(* the sum, with the limit that was read.                                  *)
SyncStart(t) ==
  /\ Free(t, "sync")
  /\ Become(t, [Idle EXCEPT !.pc = "summing", !.job = "sync", !.at = 1])
  /\ UNCHANGED <<mix, events, usage, scanned, budgets, spent, calls, approval, late, wins, assured>>

SyncSum(t) ==
  LET r == threads[t]  sum == SumUsage(Order[r.at]) IN
  /\ r.pc = "summing"
  /\ Become(t, IF sum = 0 THEN Advance(r) ELSE [r EXCEPT !.pc = "loading", !.sum = sum])
  /\ UNCHANGED <<mix, events, usage, scanned, budgets, spent, calls, approval, late, wins, assured>>

SyncRaise(t) ==
  LET r == threads[t] IN
  /\ r.pc = "raising"
  /\ budgets' = IF r.sum > r.seen.used
                THEN [budgets EXCEPT ![Order[r.at]] =
                        [row |-> TRUE, used |-> r.sum, limit |-> r.seen.limit]]
                ELSE budgets
  /\ Become(t, Advance(r))
  /\ UNCHANGED <<mix, events, usage, scanned, spent, calls, approval, late, wins, assured>>

-----------------------------------------------------------------------------
(* ApprovalManager and the routes of the console.                          *)

RequestApproval(t) ==
  /\ Free(t, "request") /\ approval = "none"
  /\ approval' = "pending"
  /\ UNCHANGED <<mix, threads, events, usage, scanned, budgets, spent, calls, late, wins, assured>>

(* decide_approval: the update finds a pending row or none.  Who comes too *)
(* late is told that it was rejected, whatever it was.                     *)
Decision_Blind(decision) == decision
Decision(decision) == IF approval = "pending" THEN decision ELSE approval

Decide(decision) ==
  LET won == approval = "pending" IN
  /\ approval' = Decision(decision)
  /\ wins' = IF won THEN wins + 1 ELSE wins
  /\ assured' = (assured \/ (won /\ decision = "approve"))
  /\ UNCHANGED <<mix, events, usage, scanned, budgets, spent, calls, late>>

Answer(t, decision) ==
  /\ Free(t, decision) /\ approval # "none" /\ wins < 2
  /\ Decide(decision)
  /\ UNCHANGED threads

(* check_expired: the pending are listed, then those too old rejected.     *)
ExpireList(t) ==
  /\ Free(t, "expire") /\ approval = "pending" /\ late
  /\ Become(t, [Idle EXCEPT !.pc = "expiring", !.job = "expire"])
  /\ UNCHANGED <<mix, events, usage, scanned, budgets, spent, calls, approval, late, wins, assured>>

Expire(t) ==
  /\ threads[t].pc = "expiring"
  /\ Decide("reject")
  /\ Become(t, Idle)

TimePasses ==
  /\ approval = "pending" /\ ~late
  /\ late' = TRUE
  /\ UNCHANGED <<mix, threads, events, usage, scanned, budgets, spent, calls, approval, wins, assured>>

-----------------------------------------------------------------------------
SpendInit ==
  /\ mix \in Mixes
  /\ threads = [t \in Thread |-> Idle]
  /\ events = <<>> /\ usage = <<>> /\ scanned = 0 /\ calls = 0
  /\ budgets = [l \in Level |-> IF l \in Seeded
                                THEN [row |-> TRUE, used |-> 0, limit |-> Default] ELSE NoRow]
  /\ spent = [l \in Level |-> 0]
  /\ approval = "none" /\ late = FALSE /\ wins = 0 /\ assured = FALSE

Route(t) ==
  \/ \E job \in {"review", "direct", "plan"} : RouteStart(t, job)
  \/ RouteSkip(t) \/ RouteTry(t) \/ RouteOk(t) \/ RouteBlocked(t)
Scan(t) == ScanStart(t) \/ ScanLine(t) \/ ScanEnd(t)
Budget(t) ==
  \/ \E job \in {"check", "status"} : LoadStart(t, job)
  \/ Load(t) \/ LoadDefault(t) \/ Consume(t)
  \/ \E l \in Level : Reset(t, l) \/ \E limit \in {0, Default} : SetLimit(t, l, limit)
  \/ SyncStart(t) \/ SyncSum(t) \/ SyncRaise(t)
Approval(t) ==
  \/ RequestApproval(t) \/ \E d \in {"approve", "reject"} : Answer(t, d)
  \/ ExpireList(t) \/ Expire(t)

SpendNext ==
  \/ \E t \in Thread : Route(t) \/ Scan(t) \/ Budget(t) \/ Approval(t)
  \/ TimePasses

SpendSpec == SpendInit /\ [][SpendNext]_spendVars
-----------------------------------------------------------------------------
SpendTypeOK ==
  /\ DOMAIN threads = Thread
  /\ \A t \in Thread :
       /\ threads[t].pc \in {"idle", "routing", "answered", "scanning", "loading", "missing",
                             "summing", "raising", "expiring"}
       /\ threads[t].tries \in 0..MaxAttempts - 1 /\ threads[t].rounds \in 0..MaxAttempts - 1
  /\ \A i \in DOMAIN events : events[i].call \in 1..calls /\ events[i].names \subseteq Level
  /\ ToSet(usage) \subseteq DOMAIN events /\ scanned \in 0..Len(events)
  /\ \A l \in Level : budgets[l].used \in Nat /\ budgets[l].limit \in {0, Default}
  /\ approval \in {"none", "pending", "approve", "reject"} /\ late \in BOOLEAN

(* BLOCKED says of every candidate, in the order of the chain, why it was  *)
(* given up: not configured, a hard failure, or as many attempts as the    *)
(* policy allows.  An answer comes from the first that was not given up.   *)
BlockedIsHonest ==
  \A t \in Thread :
    LET r == threads[t]  chain == ChainOf(r.job) IN
    r.pc \in {"routing", "answered"} =>
      /\ Len(r.failed) = r.at - 1
      /\ \A i \in DOMAIN r.failed :
           LET f == r.failed[i] IN
           /\ f.model = chain[i]
           /\ f.tries <= MaxAttempts /\ (f.tries = 0 <=> f.model \in Keyless)
           /\ f.kind # "HARD" => f.tries = IF r.job = "plan" THEN 1 ELSE MaxAttempts

(* Scans may overlap and repeat: an event has one usage row at most, and   *)
(* has it once a scan that began after it has ended.                       *)
CountedOnce ==
  /\ IsInjective(usage)
  /\ 1..scanned \subseteq ToSet(usage)

(* The pool of the day, which sync never raises: as long as its row was    *)
(* there, no charge of any manager is lost or counted twice.               *)
DayIsExact == "daily" \in Seeded => budgets["daily"].used = spent["daily"]

(* The same of every pool, as the database increment promises.             *)
EveryPoolIsExact == \A l \in Level : budgets[l].used >= spent[l]

(* One of those who answer an approval wins; who was told that it is       *)
(* approved may rely on it.                                                *)
DecidedOnce ==
  /\ wins <= 1
  /\ assured => approval = "approve"
=============================================================================
