--------------------- MODULE OrchestratorProcessProofs ---------------------
(***************************************************************************)
(* Proofs about OrchestratorProcess, for any requests, routes, command     *)
(* lines, and any number of lives and signals.                             *)
(***************************************************************************)
EXTENDS OrchestratorProcess, TLAPS

-----------------------------------------------------------------------------
Early   == {"connect", "migrate", "retain", "verify", "preflight", "bind", "prepare", "listen"}
Opening == {"announce", "activate", "routes", "publishers"}
Serving == Stages \cup {"serve"}
Late    == {"uploads", "close", "destroy", "done"}
Phases  == Early \cup Opening \cup Serving \cup {"requests", "loops"} \cup Late

(* The loops started before the application comes to the phase p.          *)
Begun(p) ==
    Routes \cup
    (IF p = "completion" THEN {}
     ELSE IF p = "workflow" THEN {"completion"}
     ELSE IF p = "recovery" THEN {"completion", "workflow"}
     ELSE IF p = "provider" THEN {"completion", "workflow", "recovery"}
     ELSE IF p = "admission" THEN {"completion", "workflow", "recovery", "provider"}
     ELSE Stages)

(* What the server, the pool and the signal runtime may be in each phase.  *)
Ordered ==
    /\ phase \in Phases
    /\ phase \in Early => http = "off"
    /\ phase \in Opening => http = "bound"
    /\ phase \in Serving => http \in {"open", "failed"}
    /\ phase = "requests" => http \in {"closing", "ended", "failed"}
    /\ phase = "loops" => http \in {"ended", "failed"}
    /\ phase \in Late => http \in {"off", "ended", "failed"}
    /\ phase \in Early \cup Opening \cup Serving => ~stopping
    /\ phase \in {"requests", "loops"} => stopping
    /\ phase \in Late => stopping \/ http = "off"
    /\ phase = "connect" => store = "none"
    /\ store = "closed" => phase \in {"destroy", "done"}
    /\ phase \in {"destroy", "done"} => store # "open"
    /\ outer = "output" => phase = "done"

(* Without a failure on the way, everything that was started has ended.    *)
Clean ==
    /\ code # "none" => ~Alive
    /\ code = "ok" => phase = "done" /\ ~failure
    /\ (phase = "loops" /\ ~failure) => http = "ended"
    /\ (phase \in Late /\ ~failure) => http \in {"off", "ended"}
    /\ (phase \in Late /\ ~failure) => \A l \in Loops : loop[l] \in {"off", "ended"}

(* Which loops exist, which were asked to stop and what is known of them.  *)
LoopsKept ==
    /\ phase \in Early \cup Opening => told = {} /\ \A l \in Loops : loop[l] = "off"
    /\ phase \in Serving \cup {"requests"} => told \subseteq Routes
    /\ \A l \in Loops : loop[l] # "off" => l \in start.loops
    /\ \A l \in Loops : loop[l] = "ended" => l \in told
    /\ phase \in Late => \A l \in Loops : loop[l] \notin {"idle", "busy"}
    /\ phase \in Serving => \A l \in Loops : loop[l] # "off" => l \in Begun(phase)

(* What readiness is told.  A process that is gone tells nothing.          *)
Vouched ==
    /\ \A l \in Loops : loop[l] = "off" => ~health[l].fresh
    /\ \A l \in outage : health[l].failed
    /\ Alive => \A l \in Loops : Gone(l) => health[l].failed
    /\ (Alive /\ phase \in Serving) => start.loops \cap Begun(phase) \subseteq required

(* Where a request may be while the server and the pool are as they are.   *)
RequestsKept ==
    /\ \A r \in Requests : req[r] = "committed" => r \in effects
    /\ \A r \in job : req[r] \in {"blocking", "uncertain"}
    /\ (~Alive \/ http \in {"off", "bound"}) => InFlight = {} /\ job = {}
    /\ http = "ended" => InFlight = {}
    /\ store = "closed" => \A r \in Requests : req[r] # "writing"
    /\ phase \in {"close", "destroy", "done"} => \A r \in job : Kind[r] # "upload"

(* The database has been made this instance's before anything is served.   *)
Installed ==
    /\ phase \in {"preflight", "bind"} => schema
    /\ (phase \in {"prepare", "listen", "requests", "loops"} \cup Opening \cup Serving
            \/ http \in {"open", "closing", "ended"})
          => schema /\ binding.instance = start.instance /\ binding.authority = start.authority
    /\ (phase \in {"routes", "publishers", "requests", "loops"} \cup Serving
            \/ http \in {"open", "closing", "ended"})
          => start.loops \cap {"completion"} \subseteq active
    /\ (phase \in {"publishers", "requests", "loops"} \cup Serving
            \/ http \in {"open", "closing", "ended"})
          => start.loops \cap Routes \subseteq active

PInv ==
    /\ TypeOK /\ Ordered /\ Clean /\ LoopsKept /\ Vouched /\ RequestsKept /\ Installed
    /\ AnswersAreTrue

-----------------------------------------------------------------------------
USE DEF signalVars, appVars, serverVars, loopVars, requestVars, durableVars, Alive
USE DEF Early, Opening, Stages, Serving, Late, Phases, Begun

(* What a command line always has, and how the loops are named.            *)
LEMMA StartTypes ==
    ASSUME NEW c \in Starts
    PROVE  /\ c.loops \subseteq Loops /\ "workflow" \in c.loops /\ "recovery" \in c.loops
           /\ c.command \in {"migrate", "retain", "serve"}
BY ProcessAssumption DEF Always

LEMMA LoopNames ==
    /\ Stages \subseteq Loops /\ Routes \subseteq Loops
    /\ Routes \cap Stages = {} /\ Loops \ Routes = Stages
BY ProcessAssumption DEF Loops, Stages

-----------------------------------------------------------------------------
(* Every action preserves the invariant, part by part.                     *)

LEMMA BootKeeps ==
    ASSUME PInv, NEW c \in Starts, Boot(c)
    PROVE  PInv'
<1> USE StartTypes, LoopNames DEF Boot, NoReport
<1>1. TypeOK'
  <2> HIDE StartTypes, LoopNames
  <2>1. lives' \in 0 .. MaxLives /\ signals' \in 0 .. MaxSignals
    BY ProcessAssumption DEF PInv, TypeOK
  <2>2. /\ health' \in [Loops -> [fresh : BOOLEAN, failed : BOOLEAN]]
        /\ loop' \in [Loops -> {"off", "idle", "busy", "ended", "failed"}]
    OBVIOUS
  <2>3. told' \subseteq Loops /\ required' \subseteq Loops /\ outage' \subseteq Loops /\ start' \in Starts
    OBVIOUS
  <2>4. /\ req' = req /\ job' = job /\ effects' = effects /\ schema' = schema
        /\ failure' = FALSE /\ outer' = "work" /\ stop' = FALSE /\ code' = "none"
        /\ store' = "none" /\ http' = "off" /\ stopping' = FALSE
    OBVIOUS
  <2> HIDE DEF Boot
  <2> QED BY <2>1, <2>2, <2>3, <2>4 DEF PInv, TypeOK, Answered
<1>2. Ordered' BY DEF PInv, TypeOK, Ordered
<1>3. Clean' BY DEF PInv, TypeOK, Ordered, Clean, LoopsKept
<1>4. LoopsKept' BY DEF PInv, TypeOK, Ordered, LoopsKept
<1>5. Vouched' BY DEF PInv, TypeOK, Ordered, LoopsKept, Vouched, Gone
<1>6. RequestsKept' BY DEF PInv, TypeOK, Ordered, RequestsKept, InFlight, Answered
<1>7. Installed' BY DEF PInv, TypeOK, Ordered, Installed
<1>8. AnswersAreTrue' BY DEF PInv, TypeOK, AnswersAreTrue, RequestsKept
<1> QED BY <1>1, <1>2, <1>3, <1>4, <1>5, <1>6, <1>7, <1>8 DEF PInv

LEMMA FinishKeeps ==
    ASSUME PInv, Finish
    PROVE  PInv'
<1> USE StartTypes, LoopNames DEF Finish
<1>1. TypeOK' BY DEF PInv, TypeOK, Answered
<1>2. Ordered' BY DEF PInv, TypeOK, Ordered
<1>3. Clean' BY DEF PInv, TypeOK, Ordered, Clean, LoopsKept
<1>4. LoopsKept' BY DEF PInv, TypeOK, Ordered, LoopsKept
<1>5. Vouched' BY DEF PInv, TypeOK, Ordered, LoopsKept, Vouched, Gone, NoReport
<1>6. RequestsKept' BY DEF PInv, TypeOK, Ordered, RequestsKept, InFlight, Answered
<1>7. Installed' BY DEF PInv, TypeOK, Ordered, Installed
<1>8. AnswersAreTrue' BY DEF PInv, TypeOK, AnswersAreTrue, RequestsKept
<1> QED BY <1>1, <1>2, <1>3, <1>4, <1>5, <1>6, <1>7, <1>8 DEF PInv

LEMMA ConnectKeeps ==
    ASSUME PInv, Connect
    PROVE  PInv'
<1> USE StartTypes, LoopNames DEF Connect, Advance, Leave
<1>1. TypeOK' BY ZenonT(60) DEF PInv, TypeOK, Answered
<1>2. Ordered'
  <2>1. start.command \in {"migrate", "retain", "serve"}
    BY StartTypes DEF PInv, TypeOK
  <2> QED BY <2>1 DEF PInv, TypeOK, Ordered
<1>3. Clean' BY DEF PInv, TypeOK, Ordered, Clean, LoopsKept
<1>4. LoopsKept' BY DEF PInv, TypeOK, Ordered, LoopsKept
<1>5. Vouched' BY DEF PInv, TypeOK, Ordered, LoopsKept, Vouched, Gone, NoReport
<1>6. RequestsKept' BY DEF PInv, TypeOK, Ordered, RequestsKept, InFlight, Answered
<1>7. Installed' BY DEF PInv, TypeOK, Ordered, Installed
<1>8. AnswersAreTrue' BY DEF PInv, TypeOK, AnswersAreTrue, RequestsKept
<1> QED BY <1>1, <1>2, <1>3, <1>4, <1>5, <1>6, <1>7, <1>8 DEF PInv

LEMMA MigrateKeeps ==
    ASSUME PInv, Migrate
    PROVE  PInv'
<1> USE StartTypes, LoopNames DEF Migrate, Leave
<1>1. TypeOK' BY ZenonT(60) DEF PInv, TypeOK, Answered
<1>2. Ordered' BY DEF PInv, TypeOK, Ordered
<1>3. Clean' BY DEF PInv, TypeOK, Ordered, Clean, LoopsKept
<1>4. LoopsKept' BY DEF PInv, TypeOK, Ordered, LoopsKept
<1>5. Vouched' BY DEF PInv, TypeOK, Ordered, LoopsKept, Vouched, Gone, NoReport
<1>6. RequestsKept' BY DEF PInv, TypeOK, Ordered, RequestsKept, InFlight, Answered
<1>7. Installed' BY DEF PInv, TypeOK, Ordered, Installed
<1>8. AnswersAreTrue' BY DEF PInv, TypeOK, AnswersAreTrue, RequestsKept
<1> QED BY <1>1, <1>2, <1>3, <1>4, <1>5, <1>6, <1>7, <1>8 DEF PInv

LEMMA RetainKeeps ==
    ASSUME PInv, Retain
    PROVE  PInv'
<1> USE StartTypes, LoopNames DEF Retain, Leave
<1>1. TypeOK' BY DEF PInv, TypeOK, Answered
<1>2. Ordered' BY DEF PInv, TypeOK, Ordered
<1>3. Clean' BY DEF PInv, TypeOK, Ordered, Clean, LoopsKept
<1>4. LoopsKept' BY DEF PInv, TypeOK, Ordered, LoopsKept
<1>5. Vouched' BY DEF PInv, TypeOK, Ordered, LoopsKept, Vouched, Gone, NoReport
<1>6. RequestsKept' BY DEF PInv, TypeOK, Ordered, RequestsKept, InFlight, Answered
<1>7. Installed' BY DEF PInv, TypeOK, Ordered, Installed
<1>8. AnswersAreTrue' BY DEF PInv, TypeOK, AnswersAreTrue, RequestsKept
<1> QED BY <1>1, <1>2, <1>3, <1>4, <1>5, <1>6, <1>7, <1>8 DEF PInv

LEMMA VerifyKeeps ==
    ASSUME PInv, Verify
    PROVE  PInv'
<1> USE StartTypes, LoopNames DEF Verify, Advance, Leave
<1>1. TypeOK' BY ZenonT(60) DEF PInv, TypeOK, Answered
<1>2. Ordered' BY DEF PInv, TypeOK, Ordered
<1>3. Clean' BY DEF PInv, TypeOK, Ordered, Clean, LoopsKept
<1>4. LoopsKept' BY DEF PInv, TypeOK, Ordered, LoopsKept
<1>5. Vouched' BY DEF PInv, TypeOK, Ordered, LoopsKept, Vouched, Gone, NoReport
<1>6. RequestsKept' BY DEF PInv, TypeOK, Ordered, RequestsKept, InFlight, Answered
<1>7. Installed' BY DEF PInv, TypeOK, Ordered, Installed
<1>8. AnswersAreTrue' BY DEF PInv, TypeOK, AnswersAreTrue, RequestsKept
<1> QED BY <1>1, <1>2, <1>3, <1>4, <1>5, <1>6, <1>7, <1>8 DEF PInv

LEMMA PreflightKeeps ==
    ASSUME PInv, Preflight
    PROVE  PInv'
<1> USE StartTypes, LoopNames DEF Preflight, Advance, Leave
<1>1. TypeOK'
  <2>1. failure' \in BOOLEAN
    BY DEF PInv, TypeOK
  <2> QED BY <2>1 DEF PInv, TypeOK, Answered
<1>2. Ordered' BY DEF PInv, TypeOK, Ordered
<1>3. Clean' BY DEF PInv, TypeOK, Ordered, Clean, LoopsKept
<1>4. LoopsKept' BY DEF PInv, TypeOK, Ordered, LoopsKept
<1>5. Vouched' BY DEF PInv, TypeOK, Ordered, LoopsKept, Vouched, Gone, NoReport
<1>6. RequestsKept' BY DEF PInv, TypeOK, Ordered, RequestsKept, InFlight, Answered
<1>7. Installed' BY DEF PInv, TypeOK, Ordered, Installed
<1>8. AnswersAreTrue' BY DEF PInv, TypeOK, AnswersAreTrue, RequestsKept
<1> QED BY <1>1, <1>2, <1>3, <1>4, <1>5, <1>6, <1>7, <1>8 DEF PInv

LEMMA BindKeeps ==
    ASSUME PInv, Bind
    PROVE  PInv'
<1> USE StartTypes, LoopNames DEF Bind, Advance, Leave, Bound, BindingAdmits
<1>1. TypeOK'
  <2>1. failure' \in BOOLEAN
    BY DEF PInv, TypeOK
  <2> QED BY <2>1 DEF PInv, TypeOK, Answered
<1>2. Ordered' BY DEF PInv, TypeOK, Ordered
<1>3. Clean' BY DEF PInv, TypeOK, Ordered, Clean, LoopsKept
<1>4. LoopsKept' BY DEF PInv, TypeOK, Ordered, LoopsKept
<1>5. Vouched' BY DEF PInv, TypeOK, Ordered, LoopsKept, Vouched, Gone, NoReport
<1>6. RequestsKept' BY DEF PInv, TypeOK, Ordered, RequestsKept, InFlight, Answered
<1>7. Installed' BY DEF PInv, TypeOK, Ordered, Installed
<1>8. AnswersAreTrue' BY DEF PInv, TypeOK, AnswersAreTrue, RequestsKept
<1> QED BY <1>1, <1>2, <1>3, <1>4, <1>5, <1>6, <1>7, <1>8 DEF PInv

LEMMA PrepareKeeps ==
    ASSUME PInv, Prepare
    PROVE  PInv'
<1> USE StartTypes, LoopNames DEF Prepare, Advance, Leave
<1>1. TypeOK' BY ZenonT(60) DEF PInv, TypeOK, Answered
<1>2. Ordered' BY DEF PInv, TypeOK, Ordered
<1>3. Clean' BY DEF PInv, TypeOK, Ordered, Clean, LoopsKept
<1>4. LoopsKept' BY DEF PInv, TypeOK, Ordered, LoopsKept
<1>5. Vouched' BY DEF PInv, TypeOK, Ordered, LoopsKept, Vouched, Gone, NoReport
<1>6. RequestsKept' BY DEF PInv, TypeOK, Ordered, RequestsKept, InFlight, Answered
<1>7. Installed' BY DEF PInv, TypeOK, Ordered, Installed
<1>8. AnswersAreTrue' BY DEF PInv, TypeOK, AnswersAreTrue, RequestsKept
<1> QED BY <1>1, <1>2, <1>3, <1>4, <1>5, <1>6, <1>7, <1>8 DEF PInv

LEMMA ListenKeeps ==
    ASSUME PInv, Listen
    PROVE  PInv'
<1> USE StartTypes, LoopNames DEF Listen, Advance, Leave
<1>1. TypeOK' BY ZenonT(60) DEF PInv, TypeOK, Answered
<1>2. Ordered' BY DEF PInv, TypeOK, Ordered
<1>3. Clean' BY DEF PInv, TypeOK, Ordered, Clean, LoopsKept
<1>4. LoopsKept' BY DEF PInv, TypeOK, Ordered, LoopsKept
<1>5. Vouched' BY DEF PInv, TypeOK, Ordered, LoopsKept, Vouched, Gone, NoReport
<1>6. RequestsKept' BY DEF PInv, TypeOK, Ordered, RequestsKept, InFlight, Answered
<1>7. Installed' BY DEF PInv, TypeOK, Ordered, Installed
<1>8. AnswersAreTrue' BY DEF PInv, TypeOK, AnswersAreTrue, RequestsKept
<1> QED BY <1>1, <1>2, <1>3, <1>4, <1>5, <1>6, <1>7, <1>8 DEF PInv

LEMMA AnnounceKeeps ==
    ASSUME PInv, Announce
    PROVE  PInv'
<1> USE StartTypes, LoopNames DEF Announce, Advance, Leave
<1>1. TypeOK' BY ZenonT(60) DEF PInv, TypeOK, Answered
<1>2. Ordered' BY DEF PInv, TypeOK, Ordered
<1>3. Clean' BY DEF PInv, TypeOK, Ordered, Clean, LoopsKept
<1>4. LoopsKept' BY DEF PInv, TypeOK, Ordered, LoopsKept
<1>5. Vouched' BY DEF PInv, TypeOK, Ordered, LoopsKept, Vouched, Gone, NoReport
<1>6. RequestsKept' BY DEF PInv, TypeOK, Ordered, RequestsKept, InFlight, Answered
<1>7. Installed' BY DEF PInv, TypeOK, Ordered, Installed
<1>8. AnswersAreTrue' BY DEF PInv, TypeOK, AnswersAreTrue, RequestsKept
<1> QED BY <1>1, <1>2, <1>3, <1>4, <1>5, <1>6, <1>7, <1>8 DEF PInv

LEMMA ActivateDestinationsKeeps ==
    ASSUME PInv, ActivateDestinations
    PROVE  PInv'
<1> USE StartTypes, LoopNames DEF ActivateDestinations, Advance, Leave
<1>1. TypeOK' BY ZenonT(60) DEF PInv, TypeOK, Answered
<1>2. Ordered' BY DEF PInv, TypeOK, Ordered
<1>3. Clean' BY DEF PInv, TypeOK, Ordered, Clean, LoopsKept
<1>4. LoopsKept' BY DEF PInv, TypeOK, Ordered, LoopsKept
<1>5. Vouched' BY DEF PInv, TypeOK, Ordered, LoopsKept, Vouched, Gone, NoReport
<1>6. RequestsKept' BY DEF PInv, TypeOK, Ordered, RequestsKept, InFlight, Answered
<1>7. Installed' BY DEF PInv, TypeOK, Ordered, Installed
<1>8. AnswersAreTrue' BY DEF PInv, TypeOK, AnswersAreTrue, RequestsKept
<1> QED BY <1>1, <1>2, <1>3, <1>4, <1>5, <1>6, <1>7, <1>8 DEF PInv

LEMMA ActivateRoutesKeeps ==
    ASSUME PInv, ActivateRoutes
    PROVE  PInv'
<1> USE StartTypes, LoopNames DEF ActivateRoutes, Advance, Leave
<1>1. TypeOK' BY ZenonT(60) DEF PInv, TypeOK, Answered
<1>2. Ordered' BY DEF PInv, TypeOK, Ordered
<1>3. Clean' BY DEF PInv, TypeOK, Ordered, Clean, LoopsKept
<1>4. LoopsKept' BY DEF PInv, TypeOK, Ordered, LoopsKept
<1>5. Vouched' BY DEF PInv, TypeOK, Ordered, LoopsKept, Vouched, Gone, NoReport
<1>6. RequestsKept' BY DEF PInv, TypeOK, Ordered, RequestsKept, InFlight, Answered
<1>7. Installed' BY DEF PInv, TypeOK, Ordered, Installed
<1>8. AnswersAreTrue' BY DEF PInv, TypeOK, AnswersAreTrue, RequestsKept
<1> QED BY <1>1, <1>2, <1>3, <1>4, <1>5, <1>6, <1>7, <1>8 DEF PInv

LEMMA StartPublishersKeeps ==
    ASSUME PInv, StartPublishers
    PROVE  PInv'
<1> USE StartTypes, LoopNames DEF StartPublishers, Advance, Leave, Spawned
<1>1. TypeOK'
  <2>1. failure' \in BOOLEAN
    BY DEF PInv, TypeOK
  <2>2. loop' \in [Loops -> {"off", "idle", "busy", "ended", "failed"}] /\ required' \subseteq Loops
    BY DEF PInv, TypeOK
  <2> QED BY <2>1, <2>2 DEF PInv, TypeOK, Answered
<1>2. Ordered' BY DEF PInv, TypeOK, Ordered
<1>3. Clean' BY DEF PInv, TypeOK, Ordered, Clean, LoopsKept
<1>4. LoopsKept' BY DEF PInv, TypeOK, Ordered, LoopsKept
<1>5. Vouched' BY DEF PInv, TypeOK, Ordered, LoopsKept, Vouched, Gone, NoReport
<1>6. RequestsKept' BY DEF PInv, TypeOK, Ordered, RequestsKept, InFlight, Answered
<1>7. Installed' BY DEF PInv, TypeOK, Ordered, Installed
<1>8. AnswersAreTrue' BY DEF PInv, TypeOK, AnswersAreTrue, RequestsKept
<1> QED BY <1>1, <1>2, <1>3, <1>4, <1>5, <1>6, <1>7, <1>8 DEF PInv

LEMMA StartLoopKeeps ==
    ASSUME PInv, StartLoop
    PROVE  PInv'
<1> USE StartTypes, LoopNames DEF StartLoop, Advance, Spawned, After
<1>1. TypeOK' BY DEF PInv, TypeOK, Answered
<1>2. Ordered' BY DEF PInv, TypeOK, Ordered
<1>3. Clean' BY DEF PInv, TypeOK, Ordered, Clean, LoopsKept
<1>4. LoopsKept' BY DEF PInv, TypeOK, Ordered, LoopsKept
<1>5. Vouched' BY DEF PInv, TypeOK, Ordered, LoopsKept, Vouched, Gone, NoReport
<1>6. RequestsKept' BY DEF PInv, TypeOK, Ordered, RequestsKept, InFlight, Answered
<1>7. Installed' BY DEF PInv, TypeOK, Ordered, Installed
<1>8. AnswersAreTrue' BY DEF PInv, TypeOK, AnswersAreTrue, RequestsKept
<1> QED BY <1>1, <1>2, <1>3, <1>4, <1>5, <1>6, <1>7, <1>8 DEF PInv

LEMMA SuperviseKeeps ==
    ASSUME PInv, Supervise
    PROVE  PInv'
<1> USE StartTypes, LoopNames DEF Supervise, Leave, StoppedUnexpectedly
<1>1. TypeOK' BY DEF PInv, TypeOK, Answered
<1>2. Ordered' BY DEF PInv, TypeOK, Ordered
<1>3. Clean' BY DEF PInv, TypeOK, Ordered, Clean, LoopsKept
<1>4. LoopsKept' BY DEF PInv, TypeOK, Ordered, LoopsKept
<1>5. Vouched' BY DEF PInv, TypeOK, Ordered, LoopsKept, Vouched, Gone, NoReport
<1>6. RequestsKept' BY DEF PInv, TypeOK, Ordered, RequestsKept, InFlight, Answered
<1>7. Installed' BY DEF PInv, TypeOK, Ordered, Installed
<1>8. AnswersAreTrue' BY DEF PInv, TypeOK, AnswersAreTrue, RequestsKept
<1> QED BY <1>1, <1>2, <1>3, <1>4, <1>5, <1>6, <1>7, <1>8 DEF PInv

LEMMA RequestsDrainedKeeps ==
    ASSUME PInv, RequestsDrained
    PROVE  PInv'
<1> USE StartTypes, LoopNames DEF RequestsDrained, Leave
<1>1. TypeOK' BY DEF PInv, TypeOK, Answered
<1>2. Ordered' BY DEF PInv, TypeOK, Ordered
<1>3. Clean' BY DEF PInv, TypeOK, Ordered, Clean, LoopsKept
<1>4. LoopsKept' BY DEF PInv, TypeOK, Ordered, LoopsKept
<1>5. Vouched' BY DEF PInv, TypeOK, Ordered, LoopsKept, Vouched, Gone, NoReport
<1>6. RequestsKept' BY DEF PInv, TypeOK, Ordered, RequestsKept, InFlight, Answered
<1>7. Installed' BY DEF PInv, TypeOK, Ordered, Installed
<1>8. AnswersAreTrue' BY DEF PInv, TypeOK, AnswersAreTrue, RequestsKept
<1> QED BY <1>1, <1>2, <1>3, <1>4, <1>5, <1>6, <1>7, <1>8 DEF PInv

LEMMA LoopsDrainedKeeps ==
    ASSUME PInv, LoopsDrained
    PROVE  PInv'
<1> USE StartTypes, LoopNames DEF LoopsDrained, Leave
<1>1. TypeOK' BY DEF PInv, TypeOK, Answered
<1>2. Ordered' BY DEF PInv, TypeOK, Ordered
<1>3. Clean' BY DEF PInv, TypeOK, Ordered, Clean, LoopsKept, Gone
<1>4. LoopsKept' BY DEF PInv, TypeOK, Ordered, LoopsKept, Gone
<1>5. Vouched' BY DEF PInv, TypeOK, Ordered, LoopsKept, Vouched, Gone, NoReport
<1>6. RequestsKept' BY DEF PInv, TypeOK, Ordered, RequestsKept, InFlight, Answered
<1>7. Installed' BY DEF PInv, TypeOK, Ordered, Installed
<1>8. AnswersAreTrue' BY DEF PInv, TypeOK, AnswersAreTrue, RequestsKept
<1> QED BY <1>1, <1>2, <1>3, <1>4, <1>5, <1>6, <1>7, <1>8 DEF PInv

LEMMA UploadsDrainedKeeps ==
    ASSUME PInv, UploadsDrained
    PROVE  PInv'
<1> USE StartTypes, LoopNames DEF UploadsDrained, Advance
<1>1. TypeOK' BY DEF PInv, TypeOK, Answered
<1>2. Ordered' BY DEF PInv, TypeOK, Ordered
<1>3. Clean' BY DEF PInv, TypeOK, Ordered, Clean, LoopsKept
<1>4. LoopsKept' BY DEF PInv, TypeOK, Ordered, LoopsKept
<1>5. Vouched' BY DEF PInv, TypeOK, Ordered, LoopsKept, Vouched, Gone, NoReport
<1>6. RequestsKept' BY DEF PInv, TypeOK, Ordered, RequestsKept, InFlight, Answered
<1>7. Installed' BY DEF PInv, TypeOK, Ordered, Installed
<1>8. AnswersAreTrue' BY DEF PInv, TypeOK, AnswersAreTrue, RequestsKept
<1> QED BY <1>1, <1>2, <1>3, <1>4, <1>5, <1>6, <1>7, <1>8 DEF PInv

LEMMA CloseKeeps ==
    ASSUME PInv, Close
    PROVE  PInv'
<1> USE StartTypes, LoopNames DEF Close, Advance
<1>1. TypeOK' BY DEF PInv, TypeOK, Answered
<1>2. Ordered' BY DEF PInv, TypeOK, Ordered
<1>3. Clean' BY DEF PInv, TypeOK, Ordered, Clean, LoopsKept
<1>4. LoopsKept' BY DEF PInv, TypeOK, Ordered, LoopsKept
<1>5. Vouched' BY DEF PInv, TypeOK, Ordered, LoopsKept, Vouched, Gone, NoReport
<1>6. RequestsKept' BY DEF PInv, TypeOK, Ordered, RequestsKept, InFlight, Answered, UsesStore
<1>7. Installed' BY DEF PInv, TypeOK, Ordered, Installed
<1>8. AnswersAreTrue' BY DEF PInv, TypeOK, AnswersAreTrue, RequestsKept
<1> QED BY <1>1, <1>2, <1>3, <1>4, <1>5, <1>6, <1>7, <1>8 DEF PInv

LEMMA DestroyKeeps ==
    ASSUME PInv, Destroy
    PROVE  PInv'
<1> USE StartTypes, LoopNames DEF Destroy, Advance
<1>1. TypeOK' BY DEF PInv, TypeOK, Answered
<1>2. Ordered' BY DEF PInv, TypeOK, Ordered
<1>3. Clean' BY DEF PInv, TypeOK, Ordered, Clean, LoopsKept
<1>4. LoopsKept' BY DEF PInv, TypeOK, Ordered, LoopsKept
<1>5. Vouched' BY DEF PInv, TypeOK, Ordered, LoopsKept, Vouched, Gone, NoReport
<1>6. RequestsKept' BY DEF PInv, TypeOK, Ordered, RequestsKept, InFlight, Answered, UsesStore
<1>7. Installed' BY DEF PInv, TypeOK, Ordered, Installed
<1>8. AnswersAreTrue' BY DEF PInv, TypeOK, AnswersAreTrue, RequestsKept, InFlight, Answered
<1> QED BY <1>1, <1>2, <1>3, <1>4, <1>5, <1>6, <1>7, <1>8 DEF PInv

LEMMA BatchKeeps ==
    ASSUME PInv, NEW l \in Loops, Batch(l)
    PROVE  PInv'
<1> USE StartTypes, LoopNames DEF Batch, LoopSteps
<1>1. TypeOK' BY DEF PInv, TypeOK, Answered
<1>2. Ordered' BY DEF PInv, TypeOK, Ordered
<1>3. Clean' BY DEF PInv, TypeOK, Ordered, Clean, LoopsKept
<1>4. LoopsKept' BY DEF PInv, TypeOK, Ordered, LoopsKept
<1>5. Vouched' BY DEF PInv, TypeOK, Ordered, LoopsKept, Vouched, Gone, NoReport
<1>6. RequestsKept' BY DEF PInv, TypeOK, Ordered, RequestsKept, InFlight, Answered
<1>7. Installed' BY DEF PInv, TypeOK, Ordered, Installed
<1>8. AnswersAreTrue' BY DEF PInv, TypeOK, AnswersAreTrue, RequestsKept
<1> QED BY <1>1, <1>2, <1>3, <1>4, <1>5, <1>6, <1>7, <1>8 DEF PInv

LEMMA BatchSucceedsKeeps ==
    ASSUME PInv, NEW l \in Loops, BatchSucceeds(l)
    PROVE  PInv'
<1> USE StartTypes, LoopNames DEF BatchSucceeds, LoopSteps, Recovered, Failed, Succeeded
<1>1. TypeOK'
  <2>1. outage' \subseteq Loops
    BY DEF PInv, TypeOK
  <2>2. health' \in [Loops -> [fresh : BOOLEAN, failed : BOOLEAN]]
    BY ZenonT(60) DEF PInv, TypeOK
  <2> QED BY <2>1, <2>2 DEF PInv, TypeOK, Answered
<1>2. Ordered' BY DEF PInv, TypeOK, Ordered
<1>3. Clean' BY DEF PInv, TypeOK, Ordered, Clean, LoopsKept
<1>4. LoopsKept' BY DEF PInv, TypeOK, Ordered, LoopsKept
<1>5. Vouched' BY DEF PInv, TypeOK, Ordered, LoopsKept, Vouched, Gone, NoReport
<1>6. RequestsKept' BY DEF PInv, TypeOK, Ordered, RequestsKept, InFlight, Answered
<1>7. Installed' BY DEF PInv, TypeOK, Ordered, Installed
<1>8. AnswersAreTrue' BY DEF PInv, TypeOK, AnswersAreTrue, RequestsKept
<1> QED BY <1>1, <1>2, <1>3, <1>4, <1>5, <1>6, <1>7, <1>8 DEF PInv

LEMMA BatchUnavailableKeeps ==
    ASSUME PInv, NEW l \in Loops, BatchUnavailable(l)
    PROVE  PInv'
<1> USE StartTypes, LoopNames DEF BatchUnavailable, LoopSteps, Failed
<1>1. TypeOK'
  <2>1. outage' \subseteq Loops
    BY DEF PInv, TypeOK
  <2>2. health' \in [Loops -> [fresh : BOOLEAN, failed : BOOLEAN]]
    BY ZenonT(60) DEF PInv, TypeOK
  <2> QED BY <2>1, <2>2 DEF PInv, TypeOK, Answered
<1>2. Ordered' BY DEF PInv, TypeOK, Ordered
<1>3. Clean' BY DEF PInv, TypeOK, Ordered, Clean, LoopsKept
<1>4. LoopsKept' BY DEF PInv, TypeOK, Ordered, LoopsKept
<1>5. Vouched' BY DEF PInv, TypeOK, Ordered, LoopsKept, Vouched, Gone, NoReport
<1>6. RequestsKept' BY DEF PInv, TypeOK, Ordered, RequestsKept, InFlight, Answered
<1>7. Installed' BY DEF PInv, TypeOK, Ordered, Installed
<1>8. AnswersAreTrue' BY DEF PInv, TypeOK, AnswersAreTrue, RequestsKept
<1> QED BY <1>1, <1>2, <1>3, <1>4, <1>5, <1>6, <1>7, <1>8 DEF PInv

LEMMA LoopStopsKeeps ==
    ASSUME PInv, NEW l \in Loops, LoopStops(l)
    PROVE  PInv'
<1> USE StartTypes, LoopNames DEF LoopStops, LoopSteps, Failed
<1>1. TypeOK'
  <2>1. health' \in [Loops -> [fresh : BOOLEAN, failed : BOOLEAN]]
    BY ZenonT(60) DEF PInv, TypeOK
  <2> QED BY <2>1 DEF PInv, TypeOK, Answered
<1>2. Ordered' BY DEF PInv, TypeOK, Ordered
<1>3. Clean' BY DEF PInv, TypeOK, Ordered, Clean, LoopsKept
<1>4. LoopsKept' BY DEF PInv, TypeOK, Ordered, LoopsKept
<1>5. Vouched' BY DEF PInv, TypeOK, Ordered, LoopsKept, Vouched, Gone, NoReport
<1>6. RequestsKept' BY DEF PInv, TypeOK, Ordered, RequestsKept, InFlight, Answered
<1>7. Installed' BY DEF PInv, TypeOK, Ordered, Installed
<1>8. AnswersAreTrue' BY DEF PInv, TypeOK, AnswersAreTrue, RequestsKept
<1> QED BY <1>1, <1>2, <1>3, <1>4, <1>5, <1>6, <1>7, <1>8 DEF PInv

LEMMA LoopFailsKeeps ==
    ASSUME PInv, NEW l \in Loops, LoopFails(l)
    PROVE  PInv'
<1> USE StartTypes, LoopNames DEF LoopFails, LoopSteps, Failed
<1>1. TypeOK'
  <2>1. told' \subseteq Loops
    BY DEF PInv, TypeOK
  <2>2. health' \in [Loops -> [fresh : BOOLEAN, failed : BOOLEAN]]
    BY ZenonT(60) DEF PInv, TypeOK
  <2> QED BY <2>1, <2>2 DEF PInv, TypeOK, Answered
<1>2. Ordered' BY DEF PInv, TypeOK, Ordered
<1>3. Clean' BY DEF PInv, TypeOK, Ordered, Clean, LoopsKept
<1>4. LoopsKept' BY DEF PInv, TypeOK, Ordered, LoopsKept
<1>5. Vouched' BY DEF PInv, TypeOK, Ordered, LoopsKept, Vouched, Gone, NoReport
<1>6. RequestsKept' BY DEF PInv, TypeOK, Ordered, RequestsKept, InFlight, Answered
<1>7. Installed' BY DEF PInv, TypeOK, Ordered, Installed
<1>8. AnswersAreTrue' BY DEF PInv, TypeOK, AnswersAreTrue, RequestsKept
<1> QED BY <1>1, <1>2, <1>3, <1>4, <1>5, <1>6, <1>7, <1>8 DEF PInv

LEMMA AgesKeeps ==
    ASSUME PInv, NEW l \in Loops, Ages(l)
    PROVE  PInv'
<1> USE StartTypes, LoopNames DEF Ages, LoopSteps
<1>1. TypeOK'
  <2>1. health' \in [Loops -> [fresh : BOOLEAN, failed : BOOLEAN]]
    BY ZenonT(60) DEF PInv, TypeOK
  <2> QED BY <2>1 DEF PInv, TypeOK, Answered
<1>2. Ordered' BY DEF PInv, TypeOK, Ordered
<1>3. Clean' BY DEF PInv, TypeOK, Ordered, Clean, LoopsKept
<1>4. LoopsKept' BY DEF PInv, TypeOK, Ordered, LoopsKept
<1>5. Vouched' BY DEF PInv, TypeOK, Ordered, LoopsKept, Vouched, Gone, NoReport
<1>6. RequestsKept' BY DEF PInv, TypeOK, Ordered, RequestsKept, InFlight, Answered
<1>7. Installed' BY DEF PInv, TypeOK, Ordered, Installed
<1>8. AnswersAreTrue' BY DEF PInv, TypeOK, AnswersAreTrue, RequestsKept
<1> QED BY <1>1, <1>2, <1>3, <1>4, <1>5, <1>6, <1>7, <1>8 DEF PInv

LEMMA HttpEndsKeeps ==
    ASSUME PInv, HttpEnds
    PROVE  PInv'
<1> USE StartTypes, LoopNames DEF HttpEnds, RequestSteps
<1>1. TypeOK' BY DEF PInv, TypeOK, Answered
<1>2. Ordered' BY DEF PInv, TypeOK, Ordered
<1>3. Clean' BY DEF PInv, TypeOK, Ordered, Clean, LoopsKept
<1>4. LoopsKept' BY DEF PInv, TypeOK, Ordered, LoopsKept
<1>5. Vouched' BY DEF PInv, TypeOK, Ordered, LoopsKept, Vouched, Gone, NoReport
<1>6. RequestsKept' BY DEF PInv, TypeOK, Ordered, RequestsKept, InFlight, Answered
<1>7. Installed' BY DEF PInv, TypeOK, Ordered, Installed
<1>8. AnswersAreTrue' BY DEF PInv, TypeOK, AnswersAreTrue, RequestsKept
<1> QED BY <1>1, <1>2, <1>3, <1>4, <1>5, <1>6, <1>7, <1>8 DEF PInv

LEMMA HttpFailsKeeps ==
    ASSUME PInv, HttpFails
    PROVE  PInv'
<1> USE StartTypes, LoopNames DEF HttpFails, RequestSteps
<1>1. TypeOK' BY DEF PInv, TypeOK, Answered
<1>2. Ordered' BY DEF PInv, TypeOK, Ordered
<1>3. Clean' BY DEF PInv, TypeOK, Ordered, Clean, LoopsKept
<1>4. LoopsKept' BY DEF PInv, TypeOK, Ordered, LoopsKept
<1>5. Vouched' BY DEF PInv, TypeOK, Ordered, LoopsKept, Vouched, Gone, NoReport
<1>6. RequestsKept' BY DEF PInv, TypeOK, Ordered, RequestsKept, InFlight, Answered
<1>7. Installed' BY DEF PInv, TypeOK, Ordered, Installed
<1>8. AnswersAreTrue' BY DEF PInv, TypeOK, AnswersAreTrue, RequestsKept
<1> QED BY <1>1, <1>2, <1>3, <1>4, <1>5, <1>6, <1>7, <1>8 DEF PInv

LEMMA AcceptKeeps ==
    ASSUME PInv, NEW r \in Requests, Accept(r)
    PROVE  PInv'
<1> USE StartTypes, LoopNames DEF Accept, RequestSteps, Becomes
<1>1. TypeOK' BY DEF PInv, TypeOK, Answered
<1>2. Ordered' BY DEF PInv, TypeOK, Ordered
<1>3. Clean' BY DEF PInv, TypeOK, Ordered, Clean, LoopsKept
<1>4. LoopsKept' BY DEF PInv, TypeOK, Ordered, LoopsKept
<1>5. Vouched' BY DEF PInv, TypeOK, Ordered, LoopsKept, Vouched, Gone, NoReport
<1>6. RequestsKept' BY DEF PInv, TypeOK, Ordered, RequestsKept, InFlight, Answered
<1>7. Installed' BY DEF PInv, TypeOK, Ordered, Installed
<1>8. AnswersAreTrue' BY DEF PInv, TypeOK, AnswersAreTrue, RequestsKept
<1> QED BY <1>1, <1>2, <1>3, <1>4, <1>5, <1>6, <1>7, <1>8 DEF PInv

LEMMA AdmitKeeps ==
    ASSUME PInv, NEW r \in Requests, Admit(r)
    PROVE  PInv'
<1> USE StartTypes, LoopNames DEF Admit, RequestSteps, Becomes
<1>1. TypeOK' BY DEF PInv, TypeOK, Answered
<1>2. Ordered' BY DEF PInv, TypeOK, Ordered
<1>3. Clean' BY DEF PInv, TypeOK, Ordered, Clean, LoopsKept
<1>4. LoopsKept' BY DEF PInv, TypeOK, Ordered, LoopsKept
<1>5. Vouched' BY DEF PInv, TypeOK, Ordered, LoopsKept, Vouched, Gone, NoReport
<1>6. RequestsKept' BY DEF PInv, TypeOK, Ordered, RequestsKept, InFlight, Answered
<1>7. Installed' BY DEF PInv, TypeOK, Ordered, Installed
<1>8. AnswersAreTrue' BY DEF PInv, TypeOK, AnswersAreTrue, RequestsKept
<1> QED BY <1>1, <1>2, <1>3, <1>4, <1>5, <1>6, <1>7, <1>8 DEF PInv

LEMMA JobEndsKeeps ==
    ASSUME PInv, NEW r \in Requests, JobEnds(r)
    PROVE  PInv'
<1> USE StartTypes, LoopNames DEF JobEnds, RequestSteps, Becomes
<1>1. TypeOK' BY DEF PInv, TypeOK, Answered
<1>2. Ordered' BY DEF PInv, TypeOK, Ordered
<1>3. Clean' BY DEF PInv, TypeOK, Ordered, Clean, LoopsKept
<1>4. LoopsKept' BY DEF PInv, TypeOK, Ordered, LoopsKept
<1>5. Vouched' BY DEF PInv, TypeOK, Ordered, LoopsKept, Vouched, Gone, NoReport
<1>6. RequestsKept' BY DEF PInv, TypeOK, Ordered, RequestsKept, InFlight, Answered
<1>7. Installed' BY DEF PInv, TypeOK, Ordered, Installed
<1>8. AnswersAreTrue' BY DEF PInv, TypeOK, AnswersAreTrue, RequestsKept
<1> QED BY <1>1, <1>2, <1>3, <1>4, <1>5, <1>6, <1>7, <1>8 DEF PInv

LEMMA BeginKeeps ==
    ASSUME PInv, NEW r \in Requests, Begin(r)
    PROVE  PInv'
<1> USE StartTypes, LoopNames DEF Begin, RequestSteps, Becomes
<1>1. TypeOK' BY DEF PInv, TypeOK, Answered
<1>2. Ordered' BY DEF PInv, TypeOK, Ordered
<1>3. Clean' BY DEF PInv, TypeOK, Ordered, Clean, LoopsKept
<1>4. LoopsKept' BY DEF PInv, TypeOK, Ordered, LoopsKept
<1>5. Vouched' BY DEF PInv, TypeOK, Ordered, LoopsKept, Vouched, Gone, NoReport
<1>6. RequestsKept' BY DEF PInv, TypeOK, Ordered, RequestsKept, InFlight, Answered
<1>7. Installed' BY DEF PInv, TypeOK, Ordered, Installed
<1>8. AnswersAreTrue' BY DEF PInv, TypeOK, AnswersAreTrue, RequestsKept
<1> QED BY <1>1, <1>2, <1>3, <1>4, <1>5, <1>6, <1>7, <1>8 DEF PInv

LEMMA CommitKeeps ==
    ASSUME PInv, NEW r \in Requests, Commit(r)
    PROVE  PInv'
<1> USE StartTypes, LoopNames DEF Commit, RequestSteps, Becomes
<1>1. TypeOK' BY DEF PInv, TypeOK, Answered
<1>2. Ordered' BY DEF PInv, TypeOK, Ordered
<1>3. Clean' BY DEF PInv, TypeOK, Ordered, Clean, LoopsKept
<1>4. LoopsKept' BY DEF PInv, TypeOK, Ordered, LoopsKept
<1>5. Vouched' BY DEF PInv, TypeOK, Ordered, LoopsKept, Vouched, Gone, NoReport
<1>6. RequestsKept' BY DEF PInv, TypeOK, Ordered, RequestsKept, InFlight, Answered
<1>7. Installed' BY DEF PInv, TypeOK, Ordered, Installed
<1>8. AnswersAreTrue' BY DEF PInv, TypeOK, AnswersAreTrue, RequestsKept
<1> QED BY <1>1, <1>2, <1>3, <1>4, <1>5, <1>6, <1>7, <1>8 DEF PInv

LEMMA AnswerKeeps ==
    ASSUME PInv, NEW r \in Requests, Answer(r)
    PROVE  PInv'
<1> USE StartTypes, LoopNames DEF Answer, RequestSteps, Becomes
<1>1. TypeOK' BY DEF PInv, TypeOK, Answered
<1>2. Ordered' BY DEF PInv, TypeOK, Ordered
<1>3. Clean' BY DEF PInv, TypeOK, Ordered, Clean, LoopsKept
<1>4. LoopsKept' BY DEF PInv, TypeOK, Ordered, LoopsKept
<1>5. Vouched' BY DEF PInv, TypeOK, Ordered, LoopsKept, Vouched, Gone, NoReport
<1>6. RequestsKept' BY DEF PInv, TypeOK, Ordered, RequestsKept, InFlight, Answered
<1>7. Installed' BY DEF PInv, TypeOK, Ordered, Installed
<1>8. AnswersAreTrue' BY DEF PInv, TypeOK, AnswersAreTrue, RequestsKept
<1> QED BY <1>1, <1>2, <1>3, <1>4, <1>5, <1>6, <1>7, <1>8 DEF PInv

LEMMA GiveUpKeeps ==
    ASSUME PInv, NEW r \in Requests, GiveUp(r)
    PROVE  PInv'
<1> USE StartTypes, LoopNames DEF GiveUp, RequestSteps, Becomes
<1>1. TypeOK' BY DEF PInv, TypeOK, Answered
<1>2. Ordered' BY DEF PInv, TypeOK, Ordered
<1>3. Clean' BY DEF PInv, TypeOK, Ordered, Clean, LoopsKept
<1>4. LoopsKept' BY DEF PInv, TypeOK, Ordered, LoopsKept
<1>5. Vouched' BY DEF PInv, TypeOK, Ordered, LoopsKept, Vouched, Gone, NoReport
<1>6. RequestsKept' BY DEF PInv, TypeOK, Ordered, RequestsKept, InFlight, Answered
<1>7. Installed' BY DEF PInv, TypeOK, Ordered, Installed
<1>8. AnswersAreTrue' BY DEF PInv, TypeOK, AnswersAreTrue, RequestsKept
<1> QED BY <1>1, <1>2, <1>3, <1>4, <1>5, <1>6, <1>7, <1>8 DEF PInv

(* However the process exits, and whatever the outcome of the transactions *)
(* it leaves under way.                                                    *)
LEMMA ExitKeeps ==
    ASSUME PInv, NEW c \in {"ok", "failed", "forced"}, Exit(c),
           c = "ok" => phase = "done" /\ ~failure, signals' \in 0 .. MaxSignals
    PROVE  PInv'
<1> USE StartTypes, LoopNames DEF Exit
<1>1. PICK done \in SUBSET {r \in Requests : req[r] = "writing" \/ (r \in job /\ Kind[r] = "upload")} :
          effects' = effects \cup done
  BY DEF Exit
<1>2. /\ req' \in [Requests -> Answered]
      /\ \A r \in Requests : req[r] \in Answered => req'[r] = req[r]
      /\ \A r \in Requests : req[r] \notin Answered => req'[r] = "lost"
  BY DEF PInv, TypeOK, InFlight, Answered
<1>3. TypeOK'
  <2>1. effects' \subseteq Requests
    BY <1>1 DEF PInv, TypeOK
  <2>2. health' \in [Loops -> [fresh : BOOLEAN, failed : BOOLEAN]]
    BY DEF NoReport
  <2> QED BY <1>2, <2>1, <2>2 DEF PInv, TypeOK, Answered
<1>4. Ordered' BY DEF PInv, TypeOK, Ordered
<1>5. Clean' BY DEF PInv, TypeOK, Clean
<1>6. LoopsKept' BY DEF PInv, TypeOK, LoopsKept
<1>7. Vouched' BY DEF PInv, TypeOK, Vouched, NoReport
<1>8. RequestsKept'
  BY <1>1, <1>2 DEF PInv, TypeOK, RequestsKept, InFlight, Answered
<1>9. Installed' BY DEF PInv, TypeOK, Installed
<1>10. AnswersAreTrue'
  BY <1>1, <1>2 DEF PInv, TypeOK, AnswersAreTrue, RequestsKept, Answered
<1> QED BY <1>3, <1>4, <1>5, <1>6, <1>7, <1>8, <1>9, <1>10 DEF PInv

(* The signal runtime.                                                     *)
LEMMA SignalKeeps ==
    ASSUME PInv, Signal
    PROVE  PInv'
<1> USE DEF Signal
<1>1. signals' \in 0 .. MaxSignals
  BY ProcessAssumption DEF PInv, TypeOK
<1>2. CASE signals > 0
  BY <1>1, <1>2, ExitKeeps
<1>3. CASE ~(signals > 0)
  <2>1. TypeOK' BY <1>1, <1>3 DEF PInv, TypeOK
  <2>2. Ordered' /\ Clean' BY <1>3 DEF PInv, TypeOK, Ordered, Clean
  <2>3. LoopsKept' /\ Vouched' BY <1>3 DEF PInv, TypeOK, LoopsKept, Vouched, Gone
  <2>4. RequestsKept' BY <1>3 DEF PInv, TypeOK, RequestsKept, InFlight
  <2>5. Installed' /\ AnswersAreTrue' BY <1>3 DEF PInv, Installed, AnswersAreTrue
  <2> QED BY <2>1, <2>2, <2>3, <2>4, <2>5 DEF PInv
<1> QED BY <1>2, <1>3

LEMMA SignalsBreakKeeps ==
    ASSUME PInv, SignalsBreak
    PROVE  PInv'
<1>1. CASE outer = "output" /\ Exit("failed") /\ UNCHANGED signals
  BY <1>1, ExitKeeps DEF PInv, TypeOK
<1>2. CASE /\ outer = "work" /\ outer' = "broken" /\ stop' = TRUE
           /\ UNCHANGED <<signals, code, appVars, serverVars, loopVars, requestVars, durableVars>>
  <2>1. TypeOK' BY <1>2 DEF PInv, TypeOK
  <2>2. Ordered' /\ Clean' BY <1>2 DEF PInv, TypeOK, Ordered, Clean
  <2>3. LoopsKept' /\ Vouched' BY <1>2 DEF PInv, TypeOK, LoopsKept, Vouched, Gone
  <2>4. RequestsKept' BY <1>2 DEF PInv, TypeOK, RequestsKept, InFlight
  <2>5. Installed' /\ AnswersAreTrue' BY <1>2 DEF PInv, Installed, AnswersAreTrue
  <2> QED BY <2>1, <2>2, <2>3, <2>4, <2>5 DEF PInv
<1> QED BY <1>1, <1>2 DEF SignalsBreak

LEMMA OutputKeeps ==
    ASSUME PInv, Output
    PROVE  PInv'
<1>1. signals' \in 0 .. MaxSignals
  BY DEF PInv, TypeOK, Output
<1>2. CASE outer = "broken" /\ phase = "done" /\ Exit("failed")
  BY <1>1, <1>2, ExitKeeps
<1>3. CASE outer = "output" /\ \E broken \in BOOLEAN : Exit(IF failure \/ broken THEN "failed" ELSE "ok")
  <2>1. PICK broken \in BOOLEAN : Exit(IF failure \/ broken THEN "failed" ELSE "ok")
    BY <1>3
  <2>2. phase = "done" /\ failure \in BOOLEAN
    BY <1>3 DEF PInv, Ordered, TypeOK
  <2>3. CASE failure \/ broken
    BY <1>1, <2>1, <2>3, ExitKeeps
  <2>4. CASE ~(failure \/ broken)
    BY <1>1, <2>1, <2>2, <2>4, ExitKeeps
  <2> QED BY <2>3, <2>4
<1> QED BY <1>2, <1>3 DEF Output

(* The invariant holds at first, and every step preserves it.              *)
LEMMA StutterKeeps ==
    ASSUME PInv, UNCHANGED vars
    PROVE  PInv'
<1> USE DEF vars
<1>1. TypeOK' BY DEF PInv, TypeOK
<1>2. Ordered' /\ Clean' BY DEF PInv, Ordered, Clean
<1>3. LoopsKept' /\ Vouched' BY DEF PInv, LoopsKept, Vouched, Gone
<1>4. RequestsKept' BY DEF PInv, RequestsKept, InFlight
<1>5. Installed' /\ AnswersAreTrue' BY DEF PInv, Installed, AnswersAreTrue
<1> QED BY <1>1, <1>2, <1>3, <1>4, <1>5 DEF PInv

LEMMA InitHolds == Init => PInv
<1> SUFFICES ASSUME Init PROVE PInv
  OBVIOUS
<1> USE LoopNames DEF Init
<1>1. TypeOK
  <2>1. health \in [Loops -> [fresh : BOOLEAN, failed : BOOLEAN]]
    BY DEF NoReport
  <2>2. 0 \in 0 .. MaxLives /\ 0 \in 0 .. MaxSignals
    BY ProcessAssumption
  <2> QED BY <2>1, <2>2 DEF TypeOK, Answered
<1>2. Ordered /\ Clean BY DEF Ordered, Clean
<1>3. LoopsKept BY DEF LoopsKept
<1>4. Vouched BY DEF Vouched, NoReport
<1>5. RequestsKept BY DEF RequestsKept, InFlight, Answered
<1>6. Installed /\ AnswersAreTrue BY DEF Installed, AnswersAreTrue
<1> QED BY <1>1, <1>2, <1>3, <1>4, <1>5, <1>6 DEF PInv

LEMMA StepKeeps == PInv /\ [Next]_vars => PInv'
<1> SUFFICES ASSUME PInv, [Next]_vars PROVE PInv'
  OBVIOUS
<1>1. CASE UNCHANGED vars
  BY <1>1, StutterKeeps
<1>2. CASE \E c \in Starts : Boot(c)
  BY <1>2, BootKeeps
<1>3. CASE Startup
  BY <1>3, ConnectKeeps, MigrateKeeps, RetainKeeps, VerifyKeeps, PreflightKeeps, BindKeeps, PrepareKeeps,
     ListenKeeps, AnnounceKeeps, ActivateDestinationsKeeps, ActivateRoutesKeeps, StartPublishersKeeps,
     StartLoopKeeps DEF Startup
<1>4. CASE Shutdown
  BY <1>4, SuperviseKeeps, HttpEndsKeeps, RequestsDrainedKeeps, LoopsDrainedKeeps, UploadsDrainedKeeps,
     CloseKeeps, DestroyKeeps, FinishKeeps, OutputKeeps DEF Shutdown
<1>5. CASE Signal \/ SignalsBreak \/ HttpFails
  BY <1>5, SignalKeeps, SignalsBreakKeeps, HttpFailsKeeps
<1>6. CASE \E l \in Loops : LoopStep(l) \/ LoopFails(l) \/ Ages(l)
  BY <1>6, BatchKeeps, BatchSucceedsKeeps, BatchUnavailableKeeps, LoopStopsKeeps, LoopFailsKeeps, AgesKeeps
     DEF LoopStep, BatchEnds
<1>7. CASE \E r \in Requests : Accept(r) \/ RequestStep(r)
  BY <1>7, AcceptKeeps, AdmitKeeps, JobEndsKeeps, BeginKeeps, CommitKeeps, AnswerKeeps, GiveUpKeeps
     DEF RequestStep, Proceeds
<1> QED BY <1>1, <1>2, <1>3, <1>4, <1>5, <1>6, <1>7 DEF Next

-----------------------------------------------------------------------------
(* The properties follow from the invariant.  That recovery is fresh shows *)
(* how far the application has come, and so which loops must be there.     *)
LEMMA ReadyIsTrue == PInv => ReadyMeansProgress
<1> SUFFICES ASSUME PInv, Ready, Alive,
                    NEW l \in start.loops \ (IF phase = "serve" THEN {} ELSE {"provider", "admission"})
             PROVE  loop[l] \in {"idle", "busy"} /\ health[l] = Succeeded /\ l \notin outage
  BY DEF ReadyMeansProgress
<1>1. start.loops \subseteq Loops /\ "recovery" \in start.loops /\ start \in Starts
  BY StartTypes DEF PInv, TypeOK
<1>2. phase \in Serving
  BY DEF PInv, TypeOK, Ordered, Ready
<1>3. health["recovery"].fresh /\ loop["recovery"] # "off"
  BY <1>1 DEF PInv, Vouched, Ready
<1>4. phase \in {"provider", "admission", "serve"}
  <2>1. "recovery" \in Begun(phase)
    BY <1>1, <1>2, <1>3 DEF PInv, LoopsKept
  <2> QED BY <1>2, <2>1, LoopNames
<1>5. l \in required
  <2>1. l \in Begun(phase)
    BY <1>1, <1>4, LoopNames DEF Loops
  <2> QED BY <1>2, <2>1 DEF PInv, Vouched
<1>6. health[l].fresh /\ ~health[l].failed
  BY <1>5 DEF Ready
<1>7. health[l] \in [fresh : BOOLEAN, failed : BOOLEAN]
  BY <1>1 DEF PInv, TypeOK
<1>8. health[l] = Succeeded
  BY <1>6, <1>7 DEF Succeeded
<1>9. loop[l] \notin {"off", "ended", "failed"} /\ l \notin outage
  BY <1>1, <1>6 DEF PInv, Vouched, Gone
<1> QED BY <1>1, <1>8, <1>9 DEF PInv, TypeOK

LEMMA SoundFromInv == PInv => ProcessSound
<1> SUFFICES ASSUME PInv PROVE ProcessSound
  OBVIOUS
<1>1. ClosedOverNobody
  BY DEF PInv, TypeOK, Ordered, LoopsKept, RequestsKept, ClosedOverNobody, UsesStore
<1>2. RecoveryOutlivesRequests
  BY LoopNames DEF PInv, TypeOK, Ordered, LoopsKept, RequestsKept, RecoveryOutlivesRequests
<1>3. SuccessMeansDrained
  BY DEF PInv, Ordered, Clean, RequestsKept, SuccessMeansDrained
<1>4. ServesItsInstance
  BY DEF PInv, Installed, ServesItsInstance
<1> QED BY <1>1, <1>2, <1>3, <1>4, ReadyIsTrue DEF PInv, ProcessSound

(* The inductive invariant of the process, in every life and phase.        *)
THEOREM ProcessInvariant == Spec => []PInv
BY InitHolds, StepKeeps, PTL DEF Spec

(* Whatever signals, failures, deadlines and restarts come in between:     *)
(* clients are told the truth, the pool is closed over nobody, recovery    *)
(* outlives the requests, success means that everything was drained, a     *)
(* process serves its own instance only, and ready means progress.         *)
THEOREM ProcessSoundCorrect == Spec => []ProcessSound
BY ProcessInvariant, SoundFromInv, PTL

(* The database keeps the instance and the authority it was bound to,      *)
(* through every start of any command line; activations and the effects of *)
(* requests are never taken back.                                          *)
THEOREM BindingStandsCorrect == Spec => BindingStands
<1>1. ASSUME [Next]_vars
      PROVE  [ /\ binding.instance # None => binding'.instance = binding.instance
               /\ binding.authority # None => binding'.authority = binding.authority
               /\ active \subseteq active' /\ effects \subseteq effects' ]_vars
  <2> USE DEF vars
  <2>1. CASE UNCHANGED vars
    BY <2>1
  <2>2. CASE \E c \in Starts : Boot(c)
    BY <2>2 DEF Boot
  <2>3. CASE Startup
    <3>1. CASE Bind
      <4>1. active' = active /\ effects' = effects
        BY <3>1 DEF Bind
      <4>2. CASE binding' = binding
        BY <4>1, <4>2
      <4>3. CASE BindingAdmits(start) /\ binding' = Bound(start)
        BY <4>1, <4>3 DEF BindingAdmits, Bound
      <4> QED BY <3>1, <4>2, <4>3 DEF Bind
    <3>2. CASE ActivateDestinations \/ ActivateRoutes
      BY <3>2 DEF ActivateDestinations, ActivateRoutes
    <3>3. CASE Startup /\ UNCHANGED <<binding, active, effects>>
      BY <3>3
    <3> QED BY <2>3, <3>1, <3>2, <3>3 DEF Startup, Connect, Migrate, Retain, Verify, Preflight, Prepare,
                Listen, Announce, StartPublishers, StartLoop
  <2>4. CASE Shutdown
    BY <2>4 DEF Shutdown, Supervise, HttpEnds, RequestsDrained, LoopsDrained, UploadsDrained, Close,
                Destroy, Finish, Output, Exit, RequestSteps
  <2>5. CASE Signal \/ SignalsBreak \/ HttpFails
    BY <2>5 DEF Signal, SignalsBreak, HttpFails, Exit, RequestSteps
  <2>6. CASE \E l \in Loops : LoopStep(l) \/ LoopFails(l) \/ Ages(l)
    BY <2>6 DEF LoopStep, BatchEnds, Batch, BatchSucceeds, BatchUnavailable, LoopStops, LoopFails, Ages, LoopSteps
  <2>7. CASE \E r \in Requests : Accept(r) \/ RequestStep(r)
    BY <2>7 DEF RequestStep, Proceeds, Accept, Admit, JobEnds, Begin, Commit, Answer, GiveUp, RequestSteps
  <2> QED BY <1>1, <2>1, <2>2, <2>3, <2>4, <2>5, <2>6, <2>7 DEF Next
<1> QED BY <1>1, PTL DEF Spec, BindingStands
=============================================================================
