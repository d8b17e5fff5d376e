------------------------------- MODULE MCSpend --------------------------------
(* Small instances of Spend for TLC.                                       *)
EXTENDS Spend

CONSTANTS m1, m2, m3, ghost

(* The first model is bound twice, one is not in the pool, one has no key. *)
MCBound == <<m1, ghost, m3, m1, m2>>
MCToml == <<m3, m2>>
MCAnswers ==
  {[status |-> "200", body |-> "ok"], [status |-> "429", body |-> "slow down"],
   [status |-> "429", body |-> "quota"], [status |-> "401", body |-> "key"],
   [status |-> "404", body |-> "no such model"]}

MCMixes ==
  {{"review", "direct", "plan"}, {"review", "direct", "scan"},
   {"check", "status", "consume", "limit", "reset"},
   {"direct", "scan", "sync", "consume"},
   {"request", "approve", "reject", "expire"}}
=============================================================================
