------------------------------ MODULE MCEffects ------------------------------
(***************************************************************************)
(* TLC instances of ApprovedEffect (grants under lost answers, occurrences *)
(* of older releases, reports of several claims, assessments a run waits   *)
(* for) and ProviderOperation (evidence that agrees and disagrees,         *)
(* recovery by probes under lapsing leases, two runs that compete for the  *)
(* dispatch).  A behaviour stays in the scenario it starts in; what the    *)
(* scenario does not concern stays as it began.  The parameters of each    *)
(* scenario of ApprovedEffect are part of the ones this module extends it  *)
(* with, so that its properties are stated once.                           *)
(***************************************************************************)
EXTENDS ApprovedEffect, TLC

CONSTANTS w1, w2, c1, c2, outX, outY, obs1, obs2, res1, res2, r1, r2, k1, k2

VARIABLES scenario, now, runs, op, owner, probe, said, reached, told

providerVars == <<now, runs, op, owner, probe, said, reached, told>>

(* Two attempts on workers of two principals.                              *)
TwoWorkers == (1 :> w1) @@ (2 :> w2)

Grants == INSTANCE ApprovedEffect WITH
              Versions <- {2}, ClaimIds <- {c1, c2},
              Outputs <- {"x"}, ObservationIds <- {}, ResolutionIds <- {}, Actors <- {},
              WaitKeys <- {}, MaxEntries <- 2, MaxCalls <- 2,
              Protected <- FALSE, Origins <- {"fresh"}

Legacy == INSTANCE ApprovedEffect WITH
              Versions <- {1, 2}, ClaimIds <- {c1, c2},
              Outputs <- {"x", "y"}, ObservationIds <- {}, ResolutionIds <- {}, Actors <- {},
              WaitKeys <- {}, MaxEntries <- 2, MaxCalls <- 1,
              Protected <- FALSE, Origins <- {"fresh", "fence", "attempt", "confirmed"}

Observed == INSTANCE ApprovedEffect WITH
              Versions <- {2}, ClaimIds <- {c1, c2},
              Outputs <- {outX, outY}, ObservationIds <- {obs1, obs2}, ResolutionIds <- {}, Actors <- {},
              WaitKeys <- {}, MaxEntries <- 3, MaxCalls <- 1,
              Protected <- TRUE, Origins <- {"fresh"}

Resolved == INSTANCE ApprovedEffect WITH
              Versions <- {2}, ClaimIds <- {c1},
              Outputs <- {outX, outY}, ObservationIds <- {obs1}, ResolutionIds <- {res1, res2}, Actors <- {"a"},
              WaitKeys <- {"k"}, MaxEntries <- 3, MaxCalls <- 1,
              Protected <- TRUE, Origins <- {"fresh"}

Rep(kind, value, ref) == [kind |-> kind, value |-> value, ref |-> ref]
Fail(phase, error)    == [phase |-> phase, error |-> error]
Verdict(kind, value)  == [kind |-> kind, value |-> value]

RichReports == {Rep("succeeded", 1, 1), Rep("succeeded", 2, 0), Rep("failed", 1, 1),
                Rep("pending", 0, 2)}
FewReports  == {Rep("succeeded", 1, 0), Rep("pending", 0, 1)}

Evidence == INSTANCE ProviderOperation WITH
       Runs <- {r1}, Reports <- RichReports, Failures <- {},
       Assessments <- {Verdict("success", 1), Verdict("unknown", 0)},
       Keys <- {}, Lookup <- "by_key", MaxChecks <- 1, FirstDelay <- 1, Interval <- 1,
       MaxInterval <- 1, MinDelay <- 1, Deadline <- 2, MaxAssessments <- 1, Ends <- {},
       LeasesLapse <- FALSE, sent <- reached

Probes == INSTANCE ProviderOperation WITH
       Runs <- {r1}, Reports <- FewReports,
       Failures <- {Fail("execution", "runtime"), Fail("admission", "not_found")}, Assessments <- {},
       Keys <- {k1}, Lookup <- "by_reference", MaxChecks <- 2, FirstDelay <- 1, Interval <- 5,
       MaxInterval <- 5, MinDelay <- 1, Deadline <- 7, MaxAssessments <- 0,
       Ends <- {"completing"}, LeasesLapse <- TRUE, sent <- reached

Rivals == INSTANCE ProviderOperation WITH
       Runs <- {r1, r2}, Reports <- {Rep("succeeded", 1, 0)}, Failures <- {}, Assessments <- {},
       Keys <- {k1}, Lookup <- "by_key", MaxChecks <- 1, FirstDelay <- 1, Interval <- 1,
       MaxInterval <- 1, MinDelay <- 1, Deadline <- 2, MaxAssessments <- 0,
       Ends <- {"failing"}, LeasesLapse <- TRUE, sent <- reached

(* Two waits of a run, the second for what changed after the first.        *)
News == INSTANCE ProviderOperation WITH
       Runs <- {r1}, Reports <- {Rep("failed", 1, 0)}, Failures <- {},
       Assessments <- {Verdict("success", 1)},
       Keys <- {k1, k2}, Lookup <- "by_key", MaxChecks <- 1, FirstDelay <- 1, Interval <- 1,
       MaxInterval <- 1, MinDelay <- 1, Deadline <- 2, MaxAssessments <- 1, Ends <- {"cancelling"},
       LeasesLapse <- FALSE, sent <- reached

ASSUME /\ Grants!ValidParameters /\ Legacy!ValidParameters
       /\ Observed!ValidParameters /\ Resolved!ValidParameters
       /\ Evidence!ProviderAssumption /\ Probes!ProviderAssumption /\ Rivals!ProviderAssumption
       /\ News!ProviderAssumption

Scenarios == {"grants", "legacy", "reported", "assessed", "evidence", "probes", "rivals", "news"}

MCInit ==
    /\ scenario \in Scenarios
    /\ CASE scenario = "grants" -> Grants!Init
         [] scenario = "legacy" -> Legacy!Init
         [] scenario = "assessed" -> Resolved!Init
         [] OTHER -> Observed!Init
    /\ CASE scenario = "probes" -> Probes!Init
         [] scenario = "rivals" -> Rivals!Init
         [] scenario = "news" -> News!Init
         [] OTHER -> Evidence!Init

MCNext ==
    /\ \/ /\ \/ scenario = "grants" /\ Grants!Next
             \/ scenario = "legacy" /\ Legacy!Next
             \/ scenario = "reported" /\ Observed!Next
             \/ scenario = "assessed" /\ Resolved!Next
          /\ UNCHANGED providerVars
       \/ /\ \/ scenario = "evidence" /\ Evidence!Next
             \/ scenario = "probes" /\ Probes!Next
             \/ scenario = "rivals" /\ Rivals!Next
             \/ scenario = "news" /\ News!Next
          /\ UNCHANGED vars
    /\ UNCHANGED scenario

MCSpec == MCInit /\ [][MCNext]_<<scenario, vars, providerVars>>

(* Outputs, observations and resolutions are interchangeable where they    *)
(* are model values.                                                       *)
Symmetry == Permutations({outX, outY}) \cup Permutations({obs1, obs2}) \cup Permutations({res1, res2})

(* The provider is called once and recovery follows its reports.           *)
OperationSound ==
    CASE scenario = "evidence" -> Evidence!OperationSound
      [] scenario = "probes" -> Probes!OperationSound
      [] scenario = "rivals" -> Rivals!OperationSound
      [] scenario = "news" -> News!OperationSound
      [] OTHER -> TRUE

(* A run that asked for news is told something new.                        *)
WakeTellsNews == 
    [][CASE scenario = "probes" -> Probes!NewsStep
         [] scenario = "news" -> News!NewsStep
         [] OTHER -> TRUE]_providerVars
==============================================================================
