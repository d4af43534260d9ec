------------------------------- MODULE MCTasks -------------------------------
(***************************************************************************)
(* TLC instance of the store: in one scenario any client may send any      *)
(* command (TaskLifecycle), in the other a worker's retry loops drive it   *)
(* (WorkerDelivery).  A behaviour stays in its scenario.                   *)
(***************************************************************************)
EXTENDS TaskRefinement

VARIABLES scenario, workers, stopping

Delivery == INSTANCE WorkerDelivery WITH
                LeaseDuration <- 3, ClaimHorizon <- 1, MaxTime <- 5, MaxRenewals <- 1,
                MaxSequence <- 1, SafetyMargin <- 1, RequestTimeout <- 2, ConfirmTimeout <- 2,
                ExtendInterval <- 1, MaxLag <- 0

ASSUME Delivery!LagAssumption /\ Delivery!BoundsAssumption

MCInit == scenario \in {"clients", "worker"} /\ Delivery!WInit

MCNext ==
    /\ \/ scenario = "clients" /\ Next /\ UNCHANGED <<workers, stopping>>
       \/ scenario = "worker" /\ Delivery!WNext
    /\ UNCHANGED scenario

MCSpec ==
    /\ MCInit /\ [][MCNext]_<<scenario, vars, workers, stopping>>
    /\ \/ scenario = "clients" /\ Fairness
       \/ scenario = "worker" /\ Delivery!WFairness

(* A consumer always gets its reservation back, though renewals may fail   *)
(* forever: the attempt is resolved by its own deadlines and settlement.   *)
ReservationReturned == Delivery!ReservationReturned
==============================================================================
