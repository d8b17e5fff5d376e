---------------------------- MODULE MCKernelCalls ----------------------------
(* Small instances of KernelCalls for TLC.                                 *)
EXTENDS KernelCalls, TLC

Ops == {"claim", "renew", "run", "verify", "reopen", "done", "blocked", "needs_user",
        "successor", "propose", "approved", "rejected", "requeue", "freeze"}
AllCalls == [c \in Worker |-> Ops]

(* A worker and the console, which can both claim and ask for rework.      *)
W1 == "w1"
W2 == "w2"
WorkerAndConsole ==
  (W1 :> {"claim", "renew", "run", "verify", "done", "successor", "needs_user"} @@
   W2 :> {"claim", "successor", "requeue", "reopen", "approved", "freeze"})

Symmetry == Permutations(Worker)
=============================================================================
