------------------------------ MODULE MCRuntime ------------------------------
(***************************************************************************)
(* TLC instances of what runs programs.  Of ProcessPool:                   *)
(*   "attempts"  two submissions of one attempt, one of them through a     *)
(*               reservation, with a shutdown that must come to an end;    *)
(*   "crowded"   three invocations by two scopes in two slots: a process   *)
(*               is reused, replaced, or its slot is missing;              *)
(*   "narrow"    two scopes and a reservation in one slot.                 *)
(* Of SubprocessSession, "session": one process, an ordinary invocation    *)
(* that asks for something and then one that carries a permit.             *)
(***************************************************************************)
EXTENDS SubprocessSession, TLC

CONSTANTS i1, i2, i3, r1, a1, a2, a3, d1, sx, sy, None

VARIABLES scenario, invs, owners, registry, slots, idle, quarantined, lost, closer, alive, runs

pool == <<invs, owners, registry, slots, idle, quarantined, lost, closer, alive, runs>>

(* Two submissions of one attempt.                                         *)
SameAttempt == [i \in {i1, i2} |-> a1]
SameKey     == [i \in {i1, i2} |-> [digest |-> d1, scope |-> sx]]

(* One program used by two scopes; i3 may reuse the process of i1.         *)
OwnAttempt(Is) == [i \in Is |-> CASE i = i1 -> a1 [] i = i2 -> a2 [] i = i3 -> a3]
TwoScopes(Is)  == [i \in Is |-> [digest |-> d1, scope |-> IF i = i2 THEN sy ELSE sx]]

Twice == INSTANCE ProcessPool WITH
            Invs <- {i1, i2}, Reservations <- {r1}, Attempts <- {a1}, Digests <- {d1},
            Scopes <- {sx}, Concurrency <- 2, AttemptOf <- SameAttempt, KeyOf <- SameKey
Crowded == INSTANCE ProcessPool WITH
            Invs <- {i1, i2, i3}, Reservations <- {}, Attempts <- {a1, a2, a3}, Digests <- {d1},
            Scopes <- {sx, sy}, Concurrency <- 2,
            AttemptOf <- OwnAttempt({i1, i2, i3}), KeyOf <- TwoScopes({i1, i2, i3})
Narrow == INSTANCE ProcessPool WITH
            Invs <- {i1, i2}, Reservations <- {r1}, Attempts <- {a1, a2}, Digests <- {d1},
            Scopes <- {sx, sy}, Concurrency <- 1,
            AttemptOf <- OwnAttempt({i1, i2}), KeyOf <- TwoScopes({i1, i2})

ASSUME Twice!PoolAssumption /\ Crowded!PoolAssumption /\ Narrow!PoolAssumption

MCInit ==
    /\ \/ scenario \in {"attempts", "session"} /\ Twice!Init
       \/ scenario = "crowded" /\ Crowded!Init
       \/ scenario = "narrow" /\ Narrow!Init
    /\ Init

MCNext ==
    /\ \/ scenario = "attempts" /\ Twice!Next /\ UNCHANGED vars
       \/ scenario = "crowded" /\ Crowded!Next /\ UNCHANGED vars
       \/ scenario = "narrow" /\ Narrow!Next /\ UNCHANGED vars
       \/ scenario = "session" /\ Next /\ UNCHANGED pool
    /\ UNCHANGED scenario

MCSpec ==
    /\ MCInit /\ [][MCNext]_<<scenario, vars, pool>>
    /\ \A i \in {i1, i2} :
          /\ WF_pool(scenario = "attempts" /\ Twice!Supervise(i))
          /\ WF_pool(scenario = "attempts" /\ Twice!CancelControl(i))
    /\ WF_pool(scenario = "attempts" /\ owners[r1].cancelled /\ Twice!Release(r1))
    /\ WF_pool(scenario = "attempts" /\ Twice!Shutdown)
    /\ WF_vars(scenario = "session" /\ os.killed /\ Dies)
    /\ WF_vars(scenario = "session" /\ RemovalEnds)
    /\ WF_vars(scenario = "session" /\ Cleanup)
    /\ WF_vars(scenario = "session" /\ Runs)

(* No process is lost, shared between scopes, left running or started in   *)
(* the slot of another: the invariants of ProcessPool in its scenarios.    *)
ProcessesSound ==
    CASE scenario = "crowded" -> Crowded!PoolSound
      [] scenario = "narrow" -> Narrow!PoolSound
      [] OTHER -> Twice!PoolSound

(* Invocations and a shutdown that wait for one another all end; so does a *)
(* session that its caller has left.                                       *)
RuntimeEnds == (scenario = "attempts" => Twice!PoolFinishes) /\ SessionEnds

==============================================================================
