------------------------------ MODULE MCOutbox ------------------------------
(***************************************************************************)
(* TLC instances of DispatchOutbox, whose publishers run for ever, and of  *)
(* OrchestratorProcess, which runs them and others and has to end: one     *)
(* life of it, with a client.  A behaviour stays in the scenario it starts *)
(* in; what the scenario does not concern stays as it began.               *)
(***************************************************************************)
EXTENDS DispatchOutbox, TLC

CONSTANT None

VARIABLES scenario,
          lives, start, phase, failure, outer, signals, stop, code, store, http, stopping,
          loop, told, required, health, outage, req, job, effects, schema, binding, active

processVars == <<lives, start, phase, failure, outer, signals, stop, code, store, http, stopping,
                 loop, told, required, health, outage, req, job, effects, schema, binding, active>>

Plain == [command |-> "serve", instance |-> "i", authority |-> None, loops |-> {"workflow", "recovery"}]

Process == INSTANCE OrchestratorProcess WITH
               Requests <- {"c"}, Kind <- "c" :> "call", Routes <- {}, Starts <- {Plain},
               MaxLives <- 1, MaxSignals <- 1

(* Reports of health decide nothing here: none gets old, none is a failure *)
(* but of a loop that has ended.                                           *)
Healthy ==
    \A l \in Plain.loops : /\ health'[l].failed => loop'[l] \in {"ended", "failed"}
                           /\ (outer' # "exited" /\ health[l].fresh) => health'[l].fresh

(* The last life is over.                                                  *)
Over == ~Process!Alive /\ lives = 1 /\ UNCHANGED processVars

MCInit ==
    /\ scenario \in {"outbox", "process"}
    /\ Init /\ Process!Init /\ schema

MCNext ==
    /\ \/ scenario = "outbox" /\ Next /\ UNCHANGED processVars
       \/ scenario = "process" /\ ((Process!Next /\ Healthy) \/ Over) /\ UNCHANGED vars
    /\ UNCHANGED scenario

(* The publishers of the other scenario owe nothing: their queue is empty. *)
MCSpec ==
    /\ MCInit /\ [][MCNext]_<<scenario, vars, processVars>> /\ Fairness
    /\ WF_processVars(scenario = "process" /\ Process!Startup)
    /\ WF_processVars(scenario = "process" /\ Process!Shutdown)
    /\ \A l \in Plain.loops :
          /\ WF_processVars(scenario = "process" /\ Process!LoopStops(l))
          /\ WF_processVars(scenario = "process" /\ Process!BatchEnds(l))
    /\ WF_processVars(scenario = "process" /\ Process!Admit("c"))
    /\ WF_processVars(scenario = "process" /\ Process!JobEnds("c"))
    /\ WF_processVars(scenario = "process" /\ Process!Proceeds("c"))

(* An orchestrator that was asked to stop, or has lost one of its tasks,   *)
(* exits, whoever still waits for an answer.                               *)
ProcessEnds == Process!ProcessEnds
=============================================================================
