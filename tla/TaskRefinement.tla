--------------------------- MODULE TaskRefinement ----------------------------
(***************************************************************************)
(* The store's transactions implement TaskContract: leases, sessions,      *)
(* cursors and the clock are hidden, a task is its state and attempt       *)
(* count, and the verdict is the settlement stored for the current         *)
(* attempt.                                                                *)
(***************************************************************************)
EXTENDS TaskLifecycle

Verdict(t) ==
    IF tasks[t].state = "Active" /\ tasks[t].current # NoAttempt
    THEN attempts[t][tasks[t].current].settlement ELSE NoReport

Contract == INSTANCE TaskContract WITH
    status    <- [t \in Tasks |-> tasks[t].state],
    tries     <- [t \in Tasks |-> tasks[t].attempt_count],
    cancelled <- [t \in Tasks |-> CancelRequested(tasks[t])],
    verdict   <- [t \in Tasks |-> Verdict(t)]

(* Every transaction of the store, however late or repeated the command    *)
(* that asked for it, is a step of the contract or changes nothing a       *)
(* submitter can see.                                                      *)
ImplementsContract == Contract!Spec

(* With time passing and the recovery loop scanning, attempts also end as  *)
(* the contract promises.                                                  *)
ImplementsFairContract == Contract!FairSpec
==============================================================================
