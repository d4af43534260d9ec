------------------------------ MODULE MCQueues -------------------------------
(***************************************************************************)
(* TLC instances of QueueConcurrency and CompletionDelivery: what a task   *)
(* occupies until its end is proven, and who is told of its end.  A        *)
(* behaviour stays in the scenario it starts in; the state of the other    *)
(* stays as it began.                                                      *)
(*                                                                         *)
(* "queue": two attempts, in a queue that enrolls at any time.  "edits":   *)
(* one attempt, in a queue whose policy is replaced.  "retried": one       *)
(* subscription, retried by an operator, with two destinations sharing the *)
(* room of one dispatcher.                                                 *)
(***************************************************************************)
EXTENDS QueueConcurrency

CONSTANTS a1, a2, k1, b1, d1, None

VARIABLES scenario, outcome, rows, bound, disp, batch, sched, posts, acked

Of(maximum, timeout, grace) == [maximum |-> maximum, timeout |-> timeout, grace |-> grace]

(* A ceiling with and without forced release, a paused and an open queue.  *)
SomePolicies == {Of(1, 2, 1), Of(2, 1, Unlimited), Of(0, Unlimited, Unlimited)}

Retried == INSTANCE CompletionDelivery WITH
               Targets <- {"t"}, Outcomes <- {"ended"}, Keys <- {k1}, Bindings <- {b1},
               Dispatchers <- {d1}, N <- 2, MaxAttempts <- 2, MaxGeneration <- 2,
               MaxPerTarget <- 1, PerDestination <- 1, MaxBatches <- 1, MaxStops <- 1

ASSUME Retried!CompletionAssumption

completionVars == <<outcome, rows, bound, disp, batch, sched, posts, acked>>

MCInit == scenario \in {"queue", "edits", "retried"} /\ Init /\ Retried!Init

MCNext ==
    /\ \/ scenario = "queue" /\ Next /\ policy'.revision =< 1 /\ UNCHANGED completionVars
       \/ scenario = "edits" /\ Next /\ attempts'[a2] = NoAttempt /\ UNCHANGED completionVars
       \/ scenario = "retried" /\ Retried!Next /\ UNCHANGED vars
    /\ UNCHANGED scenario

MCSpec ==
    /\ MCInit /\ [][MCNext]_<<scenario, vars, completionVars>>
    /\ \/ scenario \in {"queue", "edits"} /\ Fairness
       \/ scenario = "retried" /\ Retried!Fairness

(* Deliveries come to an end, and a confirmed one is the end.              *)
DeliveriesSettle == Retried!DeliveriesSettle
==============================================================================
