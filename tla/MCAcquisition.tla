---------------------------- MODULE MCAcquisition ----------------------------
(***************************************************************************)
(* TLC instances of AcquisitionWait and WakeHints: two requests of one     *)
(* queue, two connections that repeat the same request, and the hints      *)
(* between two replicas.  A behaviour stays in its scenario; what the      *)
(* scenario does not concern stays as it began.                            *)
(***************************************************************************)
EXTENDS AcquisitionWait, TLC

CONSTANTS c1, c2, None, HintQueues, MaxHints, MaxChannel

VARIABLES scenario, backlog, keys, closed, sending, channel, listener, unseen, given

hintVars == <<backlog, keys, closed, sending, channel, listener, unseen, given>>

Pair      == {c1, c2}
TwoKeys   == c1 :> "k1" @@ c2 :> "k2"
OneKey    == c1 :> "k1" @@ c2 :> "k1"
OneQueue  == "k1" :> "a" @@ "k2" :> "a"

Replay == INSTANCE AcquisitionWait WITH Key <- OneKey, MaxArrivals <- 0
Hints  == INSTANCE WakeHints WITH Queues <- HintQueues

ASSUME Replay!WaitAssumption /\ Hints!HintAssumption

MCInit == scenario \in {"turns", "replay", "hints"} /\ Init /\ Hints!Init

MCNext ==
    /\ \/ scenario = "turns" /\ Next /\ UNCHANGED hintVars
       \/ scenario = "replay" /\ Replay!Next /\ UNCHANGED hintVars
       \/ scenario = "hints" /\ Hints!Next /\ UNCHANGED vars
    /\ UNCHANGED scenario

(* Both scenarios of requests have the same calls and the same queue, so   *)
(* the fairness of AcquisitionWait speaks of both; nothing of it is        *)
(* enabled where no request is made.                                       *)
MCSpec == MCInit /\ [][MCNext]_<<scenario, vars, hintVars>> /\ Fairness

(* With a listener that is up, no change slips through unannounced.        *)
NothingSlipsThrough == Hints!TypeOK /\ Hints!NothingSlipsThrough
==============================================================================
