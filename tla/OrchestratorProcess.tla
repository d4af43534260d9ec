------------------------- MODULE OrchestratorProcess -------------------------
(***************************************************************************)
(* The orchestrator as an operating-system process: its start, the         *)
(* requests it serves, the loops it supervises, and its stop.              *)
(*                                                                         *)
(* Three threads of control share the state.  The signal runtime turns the *)
(* first signal into a request to stop and the second into a forced exit.  *)
(* The application prepares, serves and drains in the order of `phase'.    *)
(* The loops (expiry recovery, workflows, providers, admissions,           *)
(* completions, and one publication loop for each route) and the handlers  *)
(* of requests run beside it.  The database outlives the process: its      *)
(* schema, the instance it is bound to and what has been activated in it.  *)
(***************************************************************************)
EXTENDS Naturals, FiniteSets

CONSTANTS
    Requests,    \* requests that clients may send, in any life of the process
    Kind,        \* what each asks for: a "call", to "acquire", to "upload"
    Routes,      \* publication loops
    Starts,      \* command lines the process may be started with, each with its loops
    MaxLives,    \* bound: starts of the process
    MaxSignals,  \* bound: signals each life receives
    None         \* no instance, no access authority

Stages == {"completion", "workflow", "recovery", "provider", "admission"}
Loops  == Routes \cup Stages

(* The loops every serving process runs.                                   *)
Always == {"workflow", "recovery"}

ASSUME ProcessAssumption ==
    /\ \A r \in Requests : Kind[r] \in {"call", "acquire", "upload"}
    /\ IsFiniteSet(Requests) /\ IsFiniteSet(Routes) /\ Routes \cap Stages = {}
    /\ \A c \in Starts : /\ c.command \in {"migrate", "retain", "serve"}
                         /\ Always \subseteq c.loops /\ c.loops \subseteq Loops
    /\ MaxLives \in Nat /\ MaxSignals \in Nat

VARIABLES
    lives,      \* how often the process was started
    start,      \* the command line of this life
    phase,      \* where the application stands
    failure,    \* whether the application has met a failure
    outer,      \* the signal runtime: "work", "broken", "output", "exited"
    signals,    \* signals received in this life
    stop,       \* the application was asked to stop
    code,       \* how the process exited
    store,      \* the connection pool: "none", "open", "closed"
    http,       \* the server: "off", "bound", "open", "closing", "ended", "failed"
    stopping,   \* new operations are refused
    loop,       \* each loop: "off", "idle", "busy", "ended", "failed"
    told,       \* loops asked to stop
    required,   \* loops whose progress readiness waits for
    health,     \* what each loop has reported
    outage,     \* loops that have lost what they deliver to
    req,        \* each request
    job,        \* requests with a started blocking operation
    effects,    \* requests that took effect
    schema,     \* the database is migrated
    binding,    \* the instance and authority it is bound to
    active      \* routes and destinations activated in it

signalVars  == <<outer, signals, stop, code>>
appVars     == <<lives, start, phase, failure>>
serverVars  == <<store, http, stopping>>
loopVars    == <<loop, told, required, health, outage>>
requestVars == <<req, job, effects>>
durableVars == <<schema, binding, active>>
vars == <<signalVars, appVars, serverVars, loopVars, requestVars, durableVars>>

-----------------------------------------------------------------------------
Answered == {"none", "ok", "refused", "uncertain", "lost"}

(* Requests the server has accepted and not answered.                      *)
InFlight == {r \in Requests : req[r] \notin Answered}

(* Requests and loops that hold a connection.                              *)
UsesStore == {r \in Requests : req[r] = "writing"} \cup {l \in Loops : loop[l] = "busy"}

Gone(l) == loop[l] \in {"ended", "failed"}

NoReport == [fresh |-> FALSE, failed |-> FALSE]
Succeeded == [fresh |-> TRUE, failed |-> FALSE]
Failed(h) == [h EXCEPT !.failed = TRUE]

(* What /health/ready answers.                                             *)
Ready ==
    /\ http \in {"open", "closing"} /\ ~stopping
    /\ \A l \in required \cup {"recovery"} : health[l].fresh /\ ~health[l].failed

Alive == outer # "exited"

-----------------------------------------------------------------------------
(* Start of the process and the end of it.                                 *)

Init ==
    /\ lives = 0 /\ start \in Starts /\ phase = "done" /\ failure = FALSE
    /\ outer = "exited" /\ signals = 0 /\ stop = FALSE /\ code = "none"
    /\ store = "none" /\ http = "off" /\ stopping = FALSE
    /\ loop = [l \in Loops |-> "off"] /\ told = {} /\ required = {} /\ outage = {}
    /\ health = [l \in Loops |-> NoReport]
    /\ req = [r \in Requests |-> "none"] /\ job = {} /\ effects = {}
    /\ schema \in BOOLEAN /\ binding = [instance |-> None, authority |-> None] /\ active = {}

Boot(c) ==
    /\ ~Alive /\ lives < MaxLives
    /\ lives' = lives + 1 /\ start' = c /\ phase' = "connect" /\ failure' = FALSE
    /\ outer' = "work" /\ signals' = 0 /\ stop' = FALSE /\ code' = "none"
    /\ store' = "none" /\ http' = "off" /\ stopping' = FALSE
    /\ loop' = [l \in Loops |-> "off"] /\ told' = {} /\ required' = {} /\ outage' = {}
    /\ health' = [l \in Loops |-> NoReport]
    /\ UNCHANGED <<requestVars, durableVars>>

(* The process is gone, with what it had not finished: a transaction that  *)
(* was under way is committed or not, an unanswered client knows nothing.  *)
(* Its server, pool and loops are remembered as it left them.              *)
Exit(c) ==
    /\ outer' = "exited" /\ code' = c
    /\ \E done \in SUBSET {r \in Requests : req[r] = "writing" \/ (r \in job /\ Kind[r] = "upload")} :
           effects' = effects \cup done
    /\ req' = [r \in Requests |-> IF r \in InFlight THEN "lost" ELSE req[r]]
    /\ job' = {}
    /\ required' = {} /\ health' = [l \in Loops |-> NoReport] /\ outage' = {}
    /\ UNCHANGED <<stop, appVars, serverVars, loop, told, durableVars>>

(* The first signal asks the application to stop, the second gives up on   *)
(* what has not ended; the same holds while the output drains.             *)
Signal ==
    /\ outer \in {"work", "output"} /\ signals < MaxSignals
    /\ signals' = signals + 1
    /\ IF signals > 0
       THEN Exit("forced")
       ELSE /\ stop' = (stop \/ outer = "work")
            /\ UNCHANGED <<outer, code, appVars, serverVars, loopVars, requestVars, durableVars>>

(* A broken subscription cannot promise a forced exit any more: drain.     *)
SignalsBreak ==
    \/ /\ outer = "work"
       /\ outer' = "broken" /\ stop' = TRUE
       /\ UNCHANGED <<signals, code, appVars, serverVars, loopVars, requestVars, durableVars>>
    \/ outer = "output" /\ Exit("failed") /\ UNCHANGED signals

(* The application thread has ended, its runtime destroyed.                *)
Finish ==
    /\ outer = "work" /\ phase = "done"
    /\ outer' = "output"
    /\ UNCHANGED <<signals, stop, code, appVars, serverVars, loopVars, requestVars, durableVars>>

(* Telemetry and the last records drain; a failed output fails the exit.   *)
Output ==
    /\ \/ outer = "broken" /\ phase = "done" /\ Exit("failed")
       \/ outer = "output" /\ \E broken \in BOOLEAN : Exit(IF failure \/ broken THEN "failed" ELSE "ok")
    /\ UNCHANGED signals

-----------------------------------------------------------------------------
(* The application: connect, run the command, close the store.             *)

Advance(p) == phase' = p /\ UNCHANGED <<lives, start, failure>>

(* Leave the command for the step p, with success or without.              *)
Leave(p, ok) == phase' = p /\ failure' = (failure \/ ~ok) /\ UNCHANGED <<lives, start>>

Connect ==
    /\ Alive /\ phase = "connect"
    /\ \/ /\ store' = "open"
          /\ Advance(IF stop THEN "close"
                     ELSE IF start.command = "serve" THEN "verify" ELSE start.command)
       \/ store' = store /\ Leave("destroy", FALSE)
    /\ UNCHANGED <<signalVars, http, stopping, loopVars, requestVars, durableVars>>

(* A migration that fails may have applied some of its files, or all.      *)
Migrate ==
    /\ Alive /\ phase = "migrate"
    /\ \E ok \in BOOLEAN : Leave("close", ok) /\ schema' \in {schema \/ ok, TRUE}
    /\ UNCHANGED <<signalVars, serverVars, loopVars, requestVars, binding, active>>

(* Batches of collection until they are done, fail or are asked to stop.   *)
Retain ==
    /\ Alive /\ phase = "retain"
    /\ \E ok \in {FALSE, schema} : Leave("close", ok)
    /\ UNCHANGED <<signalVars, serverVars, loopVars, requestVars, durableVars>>

(* Credentials name an instance; providers and admissions need credentials. *)
Agrees(c) ==
    /\ c.authority # None => c.instance # None
    /\ c.loops \cap {"provider", "admission"} # {} => c.authority # None

Verify ==
    /\ Alive /\ phase = "verify"
    /\ \/ schema /\ Agrees(start) /\ Advance("preflight")
       \/ Leave("close", FALSE)
    /\ UNCHANGED <<signalVars, serverVars, loopVars, requestVars, durableVars>>

(* Brokers are only looked at.  A stop ends the wait for them.             *)
Preflight ==
    /\ Alive /\ phase = "preflight"
    /\ \/ (stop => start.loops \cap Routes = {}) /\ Advance("bind")
       \/ start.loops \cap Routes # {} /\ \E ok \in {FALSE, stop} : Leave("close", ok)
    /\ UNCHANGED <<signalVars, serverVars, loopVars, requestVars, durableVars>>

(* A bound database is served for its own instance and authority only.     *)
BindingAdmits(c) ==
    /\ binding.instance \in {None, c.instance}
    /\ binding.authority \in {None, c.authority}

Bound(c) == [instance  |-> c.instance,
             authority |-> IF binding.authority # None THEN binding.authority ELSE c.authority]

Bind ==
    /\ Alive /\ phase = "bind"
    /\ \/ BindingAdmits(start) /\ Advance("prepare") /\ binding' = Bound(start)
       \/ /\ Leave("close", FALSE)
          /\ binding' \in {binding} \cup {b \in {Bound(start)} : BindingAdmits(start)}
    /\ UNCHANGED <<signalVars, serverVars, loopVars, requestVars, schema, active>>

(* Policies, assets, destinations and the program store, all of them local. *)
Prepare ==
    /\ Alive /\ phase = "prepare"
    /\ IF stop THEN \E ok \in BOOLEAN : Leave("close", ok)
               ELSE Advance("listen") \/ Leave("close", FALSE)
    /\ UNCHANGED <<signalVars, serverVars, loopVars, requestVars, durableVars>>

(* The capabilities promised are there, and the address is free.           *)
Listen ==
    /\ Alive /\ phase = "listen"
    /\ \/ Advance("announce") /\ http' = "bound"
       \/ Leave("close", FALSE) /\ http' = http
    /\ UNCHANGED <<signalVars, store, stopping, loopVars, requestVars, durableVars>>

(* Console services and the listener for notifications.                    *)
Announce ==
    /\ Alive /\ phase = "announce"
    /\ \/ Advance("activate") /\ http' = http
       \/ Leave("close", FALSE) /\ http' = "off"
    /\ UNCHANGED <<signalVars, store, stopping, loopVars, requestVars, durableVars>>

(* Activation is durable.  It is the last thing that can fail, and one     *)
(* that was issued is completed before a stop is looked at.                *)
ActivateDestinations ==
    /\ Alive /\ phase = "activate"
    /\ LET some == start.loops \cap {"completion"} IN
       IF stop THEN Leave("uploads", TRUE) /\ http' = "off" /\ active' = active
       ELSE \/ Advance("routes") /\ active' = active \cup some /\ http' = http
            \/ /\ some # {} /\ Leave("uploads", FALSE) /\ http' = "off"
               /\ active' \in {active, active \cup some}
    /\ UNCHANGED <<signalVars, store, stopping, loopVars, requestVars, schema, binding>>

ActivateRoutes ==
    /\ Alive /\ phase = "routes"
    /\ LET some == start.loops \cap Routes IN
       \/ /\ active' = active \cup some
          /\ IF stop THEN Leave("uploads", TRUE) /\ http' = "off"
                     ELSE Advance("publishers") /\ http' = http
       \/ /\ some # {} /\ Leave("uploads", FALSE) /\ http' = "off"
          /\ active' \in {active, active \cup some}
    /\ UNCHANGED <<signalVars, store, stopping, loopVars, requestVars, schema, binding>>

-----------------------------------------------------------------------------
(* Serving.                                                                *)

Spawned(ls) ==
    /\ loop' = [l \in Loops |-> IF l \in ls THEN "idle" ELSE loop[l]]
    /\ required' = required \cup ls
    /\ UNCHANGED <<told, health, outage>>

(* The router is built; then the publishers run, then the server, then one *)
(* loop after another.                                                     *)
StartPublishers ==
    /\ Alive /\ phase = "publishers"
    /\ \/ Spawned(start.loops \cap Routes) /\ http' = "open" /\ Advance("completion")
       \/ UNCHANGED loopVars /\ http' = "off" /\ Leave("uploads", FALSE)
    /\ UNCHANGED <<signalVars, store, stopping, requestVars, durableVars>>

After(l) == CASE l = "completion" -> "workflow"
              [] l = "workflow"   -> "recovery"
              [] l = "recovery"   -> "provider"
              [] l = "provider"   -> "admission"
              [] l = "admission"  -> "serve"

StartLoop ==
    /\ Alive /\ phase \in Stages
    /\ Spawned(start.loops \cap {phase})
    /\ Advance(After(phase))
    /\ UNCHANGED <<signalVars, serverVars, requestVars, durableVars>>

(* The publishers are one task, which ends when every route has.           *)
StoppedUnexpectedly ==
    \/ \E l \in start.loops \ Routes : Gone(l)
    \/ start.loops \cap Routes # {} /\ \A l \in start.loops \cap Routes : Gone(l)
    \/ http = "failed"

(* Asked to stop, or left by one of its tasks: refuse what is new.         *)
Supervise ==
    /\ Alive /\ phase = "serve"
    /\ \/ stop /\ Leave("requests", TRUE)
       \/ StoppedUnexpectedly /\ Leave("requests", FALSE)
    /\ stopping' = TRUE
    /\ http' = IF http = "open" THEN "closing" ELSE http
    /\ UNCHANGED <<signalVars, store, loopVars, requestVars, durableVars>>

(* Mutant of RequestsDrained: the loops are stopped with the server.       *)
RequestsAbandoned ==
    /\ Alive /\ phase = "requests"
    /\ told' = Loops
    /\ Leave("loops", TRUE)
    /\ UNCHANGED <<signalVars, serverVars, loop, required, health, outage, requestVars, durableVars>>

(* Mutant of RequestsDrained: the loops are not asked to stop.             *)
LoopsUnasked ==
    /\ Alive /\ phase = "requests" /\ http \in {"ended", "failed"}
    /\ Leave("loops", http = "ended")
    /\ UNCHANGED <<signalVars, serverVars, loopVars, requestVars, durableVars>>

(* The loops go on until no accepted request is left.                      *)
RequestsDrained ==
    /\ Alive /\ phase = "requests" /\ http \in {"ended", "failed"}
    /\ told' = Loops
    /\ Leave("loops", http = "ended")
    /\ UNCHANGED <<signalVars, serverVars, loop, required, health, outage, requestVars, durableVars>>

LoopsDrained ==
    /\ Alive /\ phase = "loops" /\ \A l \in start.loops : Gone(l)
    /\ Leave("uploads", \A l \in start.loops : loop[l] = "ended")
    /\ UNCHANGED <<signalVars, serverVars, loopVars, requestVars, durableVars>>

(* Uploads whose clients have left are waited for, then notifications end. *)
UploadsDrained ==
    /\ Alive /\ phase = "uploads" /\ \A r \in job : Kind[r] # "upload"
    /\ Advance("close")
    /\ UNCHANGED <<signalVars, serverVars, loopVars, requestVars, durableVars>>

(* Closing the pool waits for every connection that is checked out.        *)
Close ==
    /\ Alive /\ phase = "close" /\ UsesStore = {}
    /\ store' = "closed" /\ Advance("destroy")
    /\ UNCHANGED <<signalVars, http, stopping, loopVars, requestVars, durableVars>>

(* The runtime is dropped: waiters are cancelled, started blocking         *)
(* operations are retained until they end.                                 *)
Destroy ==
    /\ Alive /\ phase = "destroy"
    /\ job = {} /\ Advance("done")
    /\ req' = [r \in Requests |-> IF r \in InFlight THEN "lost" ELSE req[r]]
    /\ UNCHANGED <<signalVars, serverVars, loopVars, job, effects, durableVars>>

-----------------------------------------------------------------------------
(* The loops.                                                              *)

LoopSteps == <<signalVars, appVars, serverVars, requestVars, durableVars>>

(* A batch is begun unless the loop was asked to stop.                     *)
Batch(l) ==
    /\ Alive /\ loop[l] = "idle" /\ l \notin told
    /\ loop' = [loop EXCEPT ![l] = "busy"]
    /\ UNCHANGED <<LoopSteps, told, required, health, outage>>

(* A publisher that found nothing to send, or a completion batch beside an *)
(* unavailable destination, is no evidence that an outage is over.         *)
Recovered(l) == IF l \in Routes \cup {"completion"} THEN {outage, outage \ {l}} ELSE {outage}

BatchSucceeds(l) ==
    /\ Alive /\ loop[l] = "busy"
    /\ loop' = [loop EXCEPT ![l] = "idle"]
    /\ outage' \in Recovered(l)
    /\ health' = [health EXCEPT ![l] = IF l \in outage' THEN Failed(@) ELSE Succeeded]
    /\ UNCHANGED <<LoopSteps, told, required>>

(* The store or the broker is unavailable, or the batch took too long.     *)
BatchUnavailable(l) ==
    /\ Alive /\ loop[l] = "busy"
    /\ loop' = [loop EXCEPT ![l] = "idle"]
    /\ outage' = IF l \in Routes \cup {"completion"} THEN outage \cup {l} ELSE outage
    /\ health' = [health EXCEPT ![l] = Failed(@)]
    /\ UNCHANGED <<LoopSteps, told, required>>

(* A loop that ends, however it ends, fails the readiness it vouched for.  *)
LoopStops(l) ==
    /\ Alive /\ loop[l] = "idle" /\ l \in told
    /\ loop' = [loop EXCEPT ![l] = "ended"]
    /\ health' = [health EXCEPT ![l] = Failed(@)]
    /\ UNCHANGED <<LoopSteps, told, required, outage>>

(* A fatal error or a panic; a route takes its siblings with it.           *)
LoopFails(l) ==
    /\ Alive /\ loop[l] \in {"idle", "busy"}
    /\ loop' = [loop EXCEPT ![l] = "failed"]
    /\ health' = [health EXCEPT ![l] = Failed(@)]
    /\ told' = IF l \in Routes THEN told \cup Routes ELSE told
    /\ UNCHANGED <<LoopSteps, required, outage>>

(* Progress becomes older than the freshness readiness allows.             *)
Ages(l) ==
    /\ Alive /\ health[l].fresh
    /\ health' = [health EXCEPT ![l].fresh = FALSE]
    /\ UNCHANGED <<LoopSteps, loop, told, required, outage>>

-----------------------------------------------------------------------------
(* The server and its requests.                                            *)

RequestSteps == <<signalVars, appVars, store, stopping, loopVars, durableVars>>

(* The server ends once it was told to and has answered what it accepted.  *)
HttpEnds ==
    /\ Alive /\ http = "closing" /\ InFlight = {}
    /\ http' = "ended"
    /\ UNCHANGED <<RequestSteps, requestVars>>

(* The server task is lost; handlers that were started go on.              *)
HttpFails ==
    /\ Alive /\ http \in {"open", "closing"}
    /\ http' = "failed"
    /\ UNCHANGED <<RequestSteps, requestVars>>

Becomes(r, s) == req' = [req EXCEPT ![r] = s]

Accept(r) ==
    /\ Alive /\ http = "open" /\ req[r] = "none"
    /\ Becomes(r, "accepted")
    /\ UNCHANGED <<RequestSteps, http, job, effects>>

(* An operation that is new to a stopping process is refused unread.       *)
Admit(r) ==
    /\ Alive /\ req[r] = "accepted"
    /\ IF stopping
       THEN Becomes(r, "refused") /\ job' = job
       ELSE IF Kind[r] = "acquire"
       THEN Becomes(r, "waiting") /\ job' = job
       ELSE Becomes(r, "blocking") /\ job' = job \cup {r}
    /\ UNCHANGED <<RequestSteps, http, effects>>

(* The blocking operation ends, whether its request still waits or not. An *)
(* upload has taken effect by then, or failed.                             *)
JobEnds(r) ==
    /\ Alive /\ r \in job
    /\ job' = job \ {r}
    /\ effects' \in {effects} \cup {effects \cup {r} : k \in {Kind[r]} \cap {"upload"}}
    /\ UNCHANGED <<RequestSteps, http, req>>

(* The transaction begins; a closed pool gives out no connection.  A long  *)
(* poll comes here when it is woken: by a task, by its time, by the stop.  *)
Begin(r) ==
    /\ Alive /\ req[r] \in {"blocking", "waiting"} /\ r \notin job /\ Kind[r] # "upload"
    /\ Becomes(r, IF store = "open" THEN "writing" ELSE "uncertain")
    /\ UNCHANGED <<RequestSteps, http, job, effects>>

Commit(r) ==
    /\ Alive /\ req[r] = "writing"
    /\ Becomes(r, "committed") /\ effects' = effects \cup {r}
    /\ UNCHANGED <<RequestSteps, http, job>>

(* The answer within the deadline.                                         *)
Answer(r) ==
    /\ Alive
    /\ \/ req[r] = "committed"
       \/ req[r] = "blocking" /\ r \notin job /\ r \in effects
    /\ Becomes(r, "ok")
    /\ UNCHANGED <<RequestSteps, http, job, effects>>

(* The deadline passes, the operation fails or the client leaves: the      *)
(* waiter is dropped and the outcome of what had begun is uncertain.       *)
GiveUp(r) ==
    /\ Alive /\ req[r] \in {"waiting", "blocking", "writing", "committed"}
    /\ Becomes(r, "uncertain")
    /\ effects' \in {effects} \cup {effects \cup {r} : s \in {req[r]} \cap {"writing"}}
    /\ UNCHANGED <<RequestSteps, http, job>>

-----------------------------------------------------------------------------
Startup ==
    \/ Connect \/ Migrate \/ Retain \/ Verify \/ Preflight \/ Bind \/ Prepare \/ Listen \/ Announce
    \/ ActivateDestinations \/ ActivateRoutes \/ StartPublishers \/ StartLoop

Shutdown ==
    \/ Supervise \/ HttpEnds \/ RequestsDrained \/ LoopsDrained \/ UploadsDrained \/ Close \/ Destroy
    \/ Finish \/ Output

BatchEnds(l) == BatchSucceeds(l) \/ BatchUnavailable(l)

LoopStep(l) == Batch(l) \/ BatchEnds(l) \/ LoopStops(l)

Proceeds(r) == Begin(r) \/ Commit(r) \/ Answer(r) \/ GiveUp(r)

RequestStep(r) == Admit(r) \/ JobEnds(r) \/ Proceeds(r)

Next ==
    \/ \E c \in Starts : Boot(c)
    \/ Startup \/ Shutdown \/ Signal \/ SignalsBreak \/ HttpFails
    \/ \E l \in Loops : LoopStep(l) \/ LoopFails(l) \/ Ages(l)
    \/ \E r \in Requests : Accept(r) \/ RequestStep(r)

Spec == Init /\ [][Next]_vars

(* Every thread of the process runs: the application, each loop, each      *)
(* handler, whose deadline ends it, and every blocking operation.          *)
Fairness ==
    /\ WF_vars(Startup) /\ WF_vars(Shutdown)
    /\ \A l \in Loops : WF_vars(LoopStops(l)) /\ WF_vars(BatchEnds(l))
    /\ \A r \in Requests : /\ WF_vars(Admit(r)) /\ WF_vars(JobEnds(r))
                           /\ WF_vars(Proceeds(r))

FairSpec == Spec /\ Fairness

-----------------------------------------------------------------------------
TypeOK ==
    /\ lives \in 0 .. MaxLives /\ start \in Starts /\ failure \in BOOLEAN
    /\ outer \in {"work", "broken", "output", "exited"} /\ signals \in 0 .. MaxSignals
    /\ stop \in BOOLEAN /\ code \in {"none", "ok", "failed", "forced"}
    /\ stopping \in BOOLEAN /\ schema \in BOOLEAN
    /\ store \in {"none", "open", "closed"}
    /\ http \in {"off", "bound", "open", "closing", "ended", "failed"}
    /\ loop \in [Loops -> {"off", "idle", "busy", "ended", "failed"}]
    /\ health \in [Loops -> [fresh : BOOLEAN, failed : BOOLEAN]]
    /\ told \subseteq Loops /\ required \subseteq Loops /\ outage \subseteq Loops
    /\ req \in [Requests -> Answered \cup {"accepted", "waiting", "blocking", "writing", "committed"}]
    /\ job \subseteq Requests /\ effects \subseteq Requests

(* What a client is told is true: an acknowledged operation took effect,   *)
(* and one refused because the process stops did not.                      *)
AnswersAreTrue ==
    \A r \in Requests : /\ req[r] = "ok" => r \in effects
                        /\ req[r] \in {"none", "accepted", "refused"} => r \notin effects

(* The pool is closed over nobody: no loop is alive, no handler is in a    *)
(* transaction, no upload is under way.                                    *)
ClosedOverNobody ==
    store = "closed" =>
        /\ UsesStore = {} /\ \A l \in Loops : loop[l] \notin {"idle", "busy"}
        /\ \A r \in job : Kind[r] # "upload"

(* Recovery outlives the requests: as long as the server drains what it    *)
(* accepted, no loop has been asked to stop but for the failure of a route. *)
RecoveryOutlivesRequests ==
    (InFlight # {} /\ http # "failed" /\ Alive) =>
        \A l \in Loops \ Routes : l \notin told /\ loop[l] # "ended"

(* A process that exits with success was left by nothing, has answered     *)
(* every client and leaves no operation running.                           *)
SuccessMeansDrained ==
    code = "ok" => /\ ~failure /\ http \in {"off", "ended"} /\ store # "open"
                   /\ \A l \in Loops : loop[l] \in {"off", "ended"}
                   /\ InFlight = {} /\ job = {}

(* A process serves the instance its database is bound to, under the       *)
(* authority it requires, after everything it needs was activated.         *)
ServesItsInstance ==
    (Alive /\ http \in {"open", "closing", "ended"}) =>
        /\ schema /\ binding.instance = start.instance /\ binding.authority = start.authority
        /\ start.loops \cap (Routes \cup {"completion"}) \subseteq active

(* A process that says it is ready has, for every loop it was configured   *)
(* with, a task that lives and fresh progress, and no outage; only the     *)
(* loops of providers and admissions may be about to be started.           *)
ReadyMeansProgress ==
    (Ready /\ Alive) =>
        \A l \in start.loops \ (IF phase = "serve" THEN {} ELSE {"provider", "admission"}) :
            /\ loop[l] \in {"idle", "busy"} /\ health[l] = Succeeded /\ l \notin outage

ProcessSound ==
    /\ TypeOK /\ AnswersAreTrue /\ ClosedOverNobody /\ RecoveryOutlivesRequests
    /\ SuccessMeansDrained /\ ServesItsInstance /\ ReadyMeansProgress

(* A database once bound keeps its instance and its authority, through     *)
(* every start, and a stop or a failure takes back no activation.          *)
BindingStands ==
    [][ /\ binding.instance # None => binding'.instance = binding.instance
        /\ binding.authority # None => binding'.authority = binding.authority
        /\ active \subseteq active' /\ effects \subseteq effects' ]_vars

(* A process asked to stop, or left by one of its tasks, exits, whatever   *)
(* its requests, loops and blocking operations were doing.                 *)
ProcessEnds ==
    (Alive /\ (stop \/ failure \/ http = "failed" \/ \E l \in Loops : loop[l] = "failed")) ~> ~Alive
==============================================================================
