----------------------------- MODULE MCWorkflows -----------------------------
(***************************************************************************)
(* TLC instances of WorkflowRuntime (a controller with a task "t" and an   *)
(* owned workflow "v"), ExternalWait (events, timers and reviews a run     *)
(* waits for), RunBudget (what the tree of a run may spend) and            *)
(* CompletionDelivery (who is told that it ended).  A behaviour stays in   *)
(* the scenario it starts in; what the scenario does not concern stays as  *)
(* it began.                                                               *)
(***************************************************************************)
EXTENDS RunBudget, Sequences, TLC

CONSTANTS c1, c2, k1, k2

VARIABLES scenario,
          runs, acts, kids, work, coord,
          run, waits, events, approvals, wakes, rows, carried, now, reply, told,
          outcome, subs, bound, disp, batch, sched, posts, acked

runVars  == <<runs, acts, kids, work, coord>>
waitVars == <<run, waits, events, approvals, wakes, rows, carried, now, reply, told>>
doneVars == <<outcome, subs, bound, disp, batch, sched, posts, acked>>

(***************************************************************************)
(* Programs of controllers.                                                *)
(***************************************************************************)
Top   == <<>>
MCRuns == {Top, <<"t">>, <<"v">>}

Cmd(k, kind, i) == [key |-> k, kind |-> kind, input |-> i]
Do(a, cs, u)    == [action |-> a, commands |-> cs, until |-> u]
End             == Do("complete", {}, {})

(* A task and an owned workflow, both waited for.                          *)
JoinProgram(w, r) ==
    IF w # Top THEN {End, Do("fail", {}, {})}
    ELSE IF r = 0 THEN {Do("suspend", {Cmd("t", "task", "i"), Cmd("v", "workflow", "i")}, {"t", "v"})}
    ELSE {End}

(* Branches forked before the first decision, which joins them, goes on or *)
(* ends too early.                                                         *)
ForkProgram(w, r) ==
    IF w # Top THEN {End}
    ELSE IF r = 0 THEN {Do("suspend", {}, {"v"}), Do("continue", {}, {}), End}
    ELSE {End, Do("suspend", {}, {})}

(* A child bound from a catalog that changes its answers; then the key is  *)
(* used again for another input, or the output is no decision.             *)
PinProgram(w, r) ==
    IF r = 0 THEN {Do("suspend", {Cmd("t", "task", "i")}, {"t"})}
    ELSE {End, Do("suspend", {Cmd("t", "task", "j")}, {"t"}), Do("invalid", {}, {})}

Join == INSTANCE WorkflowRuntime WITH
            Runs <- MCRuns, Keys <- {"t", "v"}, Inputs <- {"i"}, Descriptors <- {"d"},
            Program <- JoinProgram, ForkKeys <- {}, Cancelled <- {Top}, TaskCancelled <- {Top},
            Coordinators <- {c1}, MaxRevision <- 2, MaxCommands <- 2, MaxLive <- 1,
            MaxDepth <- 1, DrainBatch <- 1, MaxFailures <- 0

Fork == INSTANCE WorkflowRuntime WITH
            Runs <- MCRuns, Keys <- {"t", "v"}, Inputs <- {"i"}, Descriptors <- {"d"},
            Program <- ForkProgram, ForkKeys <- {"v"}, Cancelled <- {}, TaskCancelled <- {},
            Coordinators <- {c1}, MaxRevision <- 2, MaxCommands <- 2, MaxLive <- 1,
            MaxDepth <- 1, DrainBatch <- 1, MaxFailures <- 0

Pins == INSTANCE WorkflowRuntime WITH
            Runs <- {Top}, Keys <- {"t"}, Inputs <- {"i", "j"}, Descriptors <- {"d", "e"},
            Program <- PinProgram, ForkKeys <- {}, Cancelled <- {}, TaskCancelled <- {},
            Coordinators <- {c1, c2}, MaxRevision <- 2, MaxCommands <- 2, MaxLive <- 1,
            MaxDepth <- 0, DrainBatch <- 1, MaxFailures <- 1

Never          == -1
Wait(kind, k, t) == [kind |-> kind, key |-> k, delay |-> t]
Halt(kind)     == Wait(kind, None, Never)

(* Events with and without timeout, a key waited for twice, a timer.       *)
EventProgram(r) ==
    CASE r = 0 -> {Wait("event", k1, 1), Wait("event", k1, Never), Halt("continue")}
      [] r = 1 -> {Wait("event", k1, 0), Wait("timer", k2, 1), Wait("event", k2, 0)}
      [] OTHER -> {Halt("complete")}

(* Reviews, and an event that comes for the key of a review.               *)
ReviewProgram(r) ==
    CASE r = 0 -> {Wait("approval", k1, 1), Wait("approval", k1, 2)}
      [] r = 1 -> {Wait("approval", k2, 0), Wait("approval", k1, 1), Wait("event", k2, 1)}
      [] OTHER -> {Halt("complete"), Halt("fail")}

Events == INSTANCE ExternalWait WITH
              Keys <- {k1, k2}, EventIds <- {"e1", "e2"}, Bodies <- {"b1"},
              DecisionIds <- {}, Actors <- {"a1"}, Program <- EventProgram,
              Coordinators <- {c1}, MaxRevision <- 2, MaxPending <- 1, MaxTime <- 2,
              coord <- carried

Reviews == INSTANCE ExternalWait WITH
              Keys <- {k1, k2}, EventIds <- {"e1"}, Bodies <- {"b1"},
              DecisionIds <- {"d1"}, Actors <- {"a1", "a2"}, Program <- ReviewProgram,
              Coordinators <- {c1}, MaxRevision <- 1, MaxPending <- 1, MaxTime <- 2,
              coord <- carried

(* A root workflow, a child workflow, two tasks of theirs, and the calls   *)
(* of the two workflows.                                                   *)
MCDelegator == "w" :> "r" @@ "t" :> "r" @@ "u" :> "w"
MCOwner     == "e" :> "r" @@ "p" :> "w" @@ "o" :> "w"
MCKind      == "e" :> "generic" @@ "p" :> "provider" @@ "o" :> "operation"

(* One subscription, two dispatchers that may be configured differently,   *)
(* and an operator who retries what they exhausted.                        *)
Rivals == INSTANCE CompletionDelivery WITH
              Targets <- {"t"}, Outcomes <- {"ended"}, Keys <- {k1}, Bindings <- {"x", "y"},
              Dispatchers <- {c1, c2}, N <- 1, MaxAttempts <- 2, MaxGeneration <- 2,
              MaxPerTarget <- 1, PerDestination <- 1, MaxBatches <- 1, MaxStops <- 1,
              rows <- subs

(* Two subscriptions of one target, for two destinations of a dispatcher.  *)
Several == INSTANCE CompletionDelivery WITH
              Targets <- {"t"}, Outcomes <- {"succeeded", "failed"}, Keys <- {k1, k2},
              Bindings <- {"x"}, Dispatchers <- {c1}, N <- 2, MaxAttempts <- 1,
              MaxGeneration <- 2, MaxPerTarget <- 2, PerDestination <- 2, MaxBatches <- 1,
              MaxStops <- 0, rows <- subs

ASSUME
    /\ Rivals!CompletionAssumption /\ Several!CompletionAssumption
    /\ Join!RuntimeAssumption /\ Fork!RuntimeAssumption /\ Pins!RuntimeAssumption
    /\ Events!WaitAssumption /\ Reviews!WaitAssumption

MCInit ==
    /\ \/ scenario \in {"join", "events", "reviews", "budget", "rivals", "several"} /\ Join!Init
       \/ scenario = "fork" /\ Fork!Init
       \/ scenario = "pins" /\ Pins!Init
    /\ IF scenario = "reviews" THEN Reviews!Init ELSE Events!Init
    /\ IF scenario = "several" THEN Several!Init ELSE Rivals!Init
    /\ Init

MCNext ==
    /\ \/ /\ \/ scenario = "join" /\ Join!Next
             \/ scenario = "fork" /\ Fork!Next
             \/ scenario = "pins" /\ Pins!Next
          /\ UNCHANGED <<waitVars, doneVars, vars>>
       \/ /\ \/ scenario = "events" /\ Events!Next
             \/ scenario = "reviews" /\ Reviews!Next
          /\ UNCHANGED <<runVars, doneVars, vars>>
       \/ scenario = "budget" /\ Next /\ UNCHANGED <<runVars, waitVars, doneVars>>
       \/ /\ \/ scenario = "rivals" /\ Rivals!Next
             \/ scenario = "several" /\ Several!Next
          /\ UNCHANGED <<runVars, waitVars, vars>>
    /\ UNCHANGED scenario

MCSpec == MCInit /\ [][MCNext]_<<scenario, runVars, waitVars, doneVars, vars>>

(* No wakeup is lost, a run has one controller, what has ended is quiet    *)
(* and checkpointed descriptors are carried on.                            *)
RunsSound ==
    CASE scenario = "join" -> Join!RunsSound
      [] scenario = "fork" -> Fork!RunsSound
      [] scenario = "pins" -> Pins!RunsSound
      [] OTHER -> TRUE

(* A run that stops gains nothing and keeps the reason.                    *)
StopIsFinal ==
    [][CASE scenario = "join" -> Join!StopStands
         [] scenario = "fork" -> Fork!StopStands
         [] scenario = "pins" -> Pins!StopStands
         [] OTHER -> TRUE]_runVars

(* Events, timers and reviews resume a run exactly once, with what was     *)
(* accepted in time, and are never left unapplied.                         *)
WaitsSound ==
    CASE scenario = "events" -> Events!WaitsSound
      [] scenario = "reviews" -> Reviews!WaitsSound
      [] OTHER -> TRUE

(* Subscriptions are activated with their target, delivered where they     *)
(* were bound, confirmed by the receiver and retried in new generations.   *)
SubscriptionsSound ==
    CASE scenario = "rivals" -> Rivals!SubscriptionsSound
      [] scenario = "several" -> Several!SubscriptionsSound
      [] OTHER -> TRUE
==============================================================================
