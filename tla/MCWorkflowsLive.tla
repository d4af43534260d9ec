--------------------------- MODULE MCWorkflowsLive ---------------------------
(***************************************************************************)
(* What a workflow waits for comes to pass: TLC instances of               *)
(* WorkflowRuntime, ExternalWait, ApprovedEffect and ProviderOperation     *)
(* with the fairness of each.  A behaviour stays in the scenario it starts *)
(* in; what the scenario does not concern stays as it began.               *)
(***************************************************************************)
EXTENDS Integers, Sequences, TLC

CONSTANTS None, c1, k1, d1, d2, r1

VARIABLES scenario,
          runs, acts, kids, work, coord,
          run, waits, events, approvals, wakes, rows, carried, now, reply, told,
          effectRun, appr, journal, eff, keys, effectRows, effectWakes, calls, held, sent, acked,
          providerNow, providerRuns, op, owner, probe, said, reached, news

runVars      == <<runs, acts, kids, work, coord>>
waitVars     == <<run, waits, events, approvals, wakes, rows, carried, now, reply, told>>
effectVars   == <<effectRun, appr, journal, eff, keys, effectRows, effectWakes, calls, held, sent, acked>>
providerVars == <<providerNow, providerRuns, op, owner, probe, said, reached, news>>

(* An owned workflow that is waited for.                                   *)
Root == <<>>
Do(a, cs, u) == [action |-> a, commands |-> cs, until |-> u]
OwnProgram(w, r) ==
    IF w # Root THEN {Do("complete", {}, {}), Do("fail", {}, {})}
    ELSE IF r = 0 THEN {Do("suspend", {[key |-> "v", kind |-> "workflow", input |-> "i"]}, {"v"})}
    ELSE {Do("complete", {}, {})}

Runtime == INSTANCE WorkflowRuntime WITH
            Runs <- {Root, <<"v">>}, Keys <- {"v"}, Inputs <- {"i"}, Descriptors <- {"d"},
            Program <- OwnProgram, ForkKeys <- {}, Cancelled <- {Root}, TaskCancelled <- {},
            Coordinators <- {c1}, MaxRevision <- 2, MaxCommands <- 2, MaxLive <- 1,
            MaxDepth <- 1, DrainBatch <- 1, MaxFailures <- 0

(* An event with or without a deadline, or a review.                       *)
Wait(kind, k, t) == [kind |-> kind, key |-> k, delay |-> t]
WaitProgram(r) ==
    IF r = 0 THEN {Wait("event", k1, 1), Wait("event", k1, -1), Wait("approval", k1, 1)}
    ELSE {Wait("complete", None, -1)}

Waits == INSTANCE ExternalWait WITH
            Keys <- {k1}, EventIds <- {"e"}, Bodies <- {"b"}, DecisionIds <- {"d"},
            Actors <- {"a"}, Program <- WaitProgram, Coordinators <- {c1},
            MaxRevision <- 1, MaxPending <- 1, MaxTime <- 2, coord <- carried

(* Two assessments of one effect, and a report that may dispute them.      *)
Effect == INSTANCE ApprovedEffect WITH
            WorkerOf <- 1 :> "w", Versions <- {2}, ClaimIds <- {"c"}, Lookups <- {"l"},
            Outputs <- {"x"}, ObservationIds <- {"o"}, ResolutionIds <- {d1, d2}, Actors <- {"a"},
            WaitKeys <- {k1}, MaxActivation <- 3, MaxEntries <- 3, MaxCalls <- 1,
            Protected <- TRUE, Origins <- {"fresh"},
            run <- effectRun, rows <- effectRows, wakes <- effectWakes

(* A recovery nobody reports to: probes fail, then the deadline passes.    *)
Provider == INSTANCE ProviderOperation WITH
            Runs <- {r1}, Reports <- {},
            Failures <- {[phase |-> "execution", error |-> "runtime"],
                         [phase |-> "execution", error |-> "incompatible"]},
            Assessments <- {}, Keys <- {k1}, Lookup <- "by_key", MaxChecks <- 2, FirstDelay <- 1,
            Interval <- 1, MaxInterval <- 1, MinDelay <- 1, Deadline <- 3, MaxAssessments <- 0,
            Ends <- {"completing", "cancelling"}, LeasesLapse <- FALSE,
            now <- providerNow, runs <- providerRuns, sent <- reached, told <- news

ASSUME /\ Runtime!RuntimeAssumption /\ Waits!WaitAssumption
       /\ Effect!ValidParameters /\ Provider!ProviderAssumption

MCInit ==
    /\ scenario \in {"runtime", "waits", "effect", "provider"}
    /\ Runtime!Init /\ Waits!Init /\ Effect!Init /\ Provider!Init

MCNext ==
    /\ \/ scenario = "runtime" /\ Runtime!Next /\ UNCHANGED <<waitVars, effectVars, providerVars>>
       \/ scenario = "waits" /\ Waits!Next /\ UNCHANGED <<runVars, effectVars, providerVars>>
       \/ scenario = "effect" /\ Effect!Next /\ UNCHANGED <<runVars, waitVars, providerVars>>
       \/ scenario = "provider" /\ Provider!Next /\ UNCHANGED <<runVars, waitVars, effectVars>>
    /\ UNCHANGED scenario

(* What never begins owes nothing: in the other scenarios the fairness of  *)
(* a component is true of its initial state.                               *)
MCSpec ==
    /\ MCInit /\ [][MCNext]_<<scenario, runVars, waitVars, effectVars, providerVars>>
    /\ Runtime!Fairness /\ Waits!Fairness /\ Effect!Fairness /\ Provider!Fairness

(* Every accepted run ends, and with it everything it owns; no run waits   *)
(* past its deadline, nor past what was accepted for it.                   *)
WorkflowsEnd == Runtime!RunsEnd /\ Waits!WaitsEnd

(* A run parked for an assessment goes on once there is one; recovery      *)
(* ends, and with it the waits and the runs that depend on it.             *)
OperationsEnd ==
    /\ Effect!AssessmentResumes
    /\ Provider!RecoveryEnds /\ Provider!WaitersResume /\ Provider!RunsEnd
==============================================================================
