--------------------------- MODULE MCTaskAdmission ---------------------------
(***************************************************************************)
(* TLC instances of what uses a governed resource.  Tasks (TaskAdmission): *)
(* two compete under policies that change, or one runs into its retry.     *)
(* Workflow runs (ResourceAdmission): one whose policy changes, one whose  *)
(* call is a provider operation, two of each.  A behaviour stays in the    *)
(* scenario it starts in and leaves the variables of the others empty.     *)
(***************************************************************************)
EXTENDS TaskAdmission, TLC

CONSTANTS retried, run, rival, w1, w2

VARIABLES scenario, runs, rows, procs, dispatched

Of(enabled, max, numerator, period, burst) ==
    [enabled |-> enabled, max_occupancy |-> max, numerator |-> numerator,
     period |-> period, burst |-> burst, offer_timeout |-> 1, start_timeout |-> 1]

(* A rate below its occupancy, and a pause; a slot without rate, a rate.   *)
RatedPolicies == {Of(TRUE, 2, 1, 2, 1), Of(FALSE, 1, 0, 0, 0)}
OpenPolicies  == {Of(TRUE, 1, 0, 0, 0), Of(TRUE, 2, 1, 1, 2)}
SlotPolicies  == {Of(TRUE, 1, 0, 0, 0), Of(FALSE, 1, 0, 0, 0)}
TightRate     == {Of(TRUE, 2, 1, 1, 1)}

Symmetry == Permutations(Tasks) \cup Permutations({w1, w2})

Retry == INSTANCE TaskAdmission WITH
             Tasks <- {retried}, MaxGeneration <- 2, Policies <- OpenPolicies, Budgeted <- {retried}

(* One run through several activations and a policy edit, its call plain,  *)
(* or a provider operation under a rate.                                   *)
Plain == INSTANCE ResourceAdmission WITH
             Runs <- {run}, Protected <- {}, Budgeted <- {run}, Policies <- SlotPolicies,
             MaxRevisions <- 1, Timeouts <- {0, 2}, Lease <- 2, MaxActivations <- 3, MaxAttempts <- 3
Provider == INSTANCE ResourceAdmission WITH
             Runs <- {run}, Protected <- {run}, Budgeted <- {run}, Policies <- TightRate,
             MaxRevisions <- 0, Timeouts <- {0, 2}, Lease <- 2, MaxActivations <- 3, MaxAttempts <- 3

(* Two runs that compete, with a policy edit, or with a provider operation.*)
Pair == INSTANCE ResourceAdmission WITH
             Runs <- {w1, w2}, Protected <- {}, Budgeted <- {}, Policies <- SlotPolicies,
             MaxRevisions <- 1, Timeouts <- {2}, Lease <- 1, MaxActivations <- 1, MaxAttempts <- 2
Mixed == INSTANCE ResourceAdmission WITH
             Runs <- {run, rival}, Protected <- {run}, Budgeted <- {}, Policies <- TightRate,
             MaxRevisions <- 0, Timeouts <- {2}, Lease <- 1, MaxActivations <- 1, MaxAttempts <- 1

ASSUME /\ Retry!AdmissionAssumption
       /\ Plain!ResourceAssumption /\ Provider!ResourceAssumption
       /\ Pair!ResourceAssumption /\ Mixed!ResourceAssumption

taskVars == <<line, tasks, attempts, workers>>
runVars  == <<runs, rows, procs, dispatched>>

NoTasks == line = <<>> /\ tasks = <<>> /\ attempts = <<>> /\ workers = <<>>
NoRuns  == runs = <<>> /\ rows = <<>> /\ procs = <<>> /\ dispatched = FALSE

MCInit ==
    \/ scenario = "rate" /\ Init /\ NoRuns
    \/ scenario = "retry" /\ Retry!Init /\ NoRuns
    \/ scenario = "plain" /\ Plain!Init /\ NoTasks
    \/ scenario = "provider" /\ Provider!Init /\ NoTasks
    \/ scenario = "pair" /\ Pair!Init /\ NoTasks
    \/ scenario = "mixed" /\ Mixed!Init /\ NoTasks

MCNext ==
    /\ \/ scenario = "rate" /\ Next /\ UNCHANGED runVars
       \/ scenario = "retry" /\ Retry!Next /\ UNCHANGED runVars
       \/ scenario = "plain" /\ Plain!Next /\ UNCHANGED taskVars
       \/ scenario = "provider" /\ Provider!Next /\ UNCHANGED taskVars
       \/ scenario = "pair" /\ Pair!Next /\ UNCHANGED taskVars
       \/ scenario = "mixed" /\ Mixed!Next /\ UNCHANGED taskVars
    /\ UNCHANGED scenario

MCSpec == MCInit /\ [][MCNext]_<<scenario, vars, runVars>>

(* The books of the resource agree with the requests of its tasks and      *)
(* runs: counters, tokens behind offers, validity of every row.  A parked  *)
(* run always has a timer that wakes it, the scheduler is due whenever it  *)
(* has something to do, and a call is made only by the attempt whose Start *)
(* was charged.                                                            *)
BooksAgree ==
    /\ scenario = "rate" => AdmissionSound
    /\ scenario = "retry" => Retry!AdmissionSound
    /\ scenario = "plain" => Plain!ResourceSound
    /\ scenario = "provider" => Provider!ResourceSound
    /\ scenario = "pair" => Pair!ResourceSound
    /\ scenario = "mixed" => Mixed!ResourceSound

(* Occupancy grows only by admitted offers, a grant reaches a worker only  *)
(* from the transaction that charged it, and the record of a run's call    *)
(* stands.                                                                 *)
OccupancyGrows ==
    [][CASE scenario = "rate"     -> Growth
         [] scenario = "retry"    -> Retry!Growth
         [] scenario = "plain"    -> Plain!Growth
         [] scenario = "provider" -> Provider!Growth
         [] scenario = "pair"     -> Pair!Growth
         [] scenario = "mixed"    -> Mixed!Growth]_<<vars, runVars>>
=============================================================================
