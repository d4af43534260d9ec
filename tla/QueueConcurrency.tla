-------------------------- MODULE QueueConcurrency --------------------------
(***************************************************************************)
(* Queue concurrency: a policy per queue, one durable hold per attempt,    *)
(* the database triggers that move holds with their attempts, the timeout  *)
(* scan, the worker's own closure, the operator's release, and the work    *)
(* that really executes at the worker.                                     *)
(*                                                                         *)
(* Time is kept as what is left until each deadline (0: it has passed).    *)
(* Every transaction holds the queue's policy row, or, while there is no   *)
(* policy, the shared side of the cutover lock that enrollment takes       *)
(* exclusively, so each is one atomic action.  Of an attempt only what the *)
(* triggers and the fence read is kept; the rest is TaskLifecycle's.  Hold *)
(* revisions, which only let a stale operator request fail, are left out.  *)
(***************************************************************************)
EXTENDS Integers, FiniteSets

CONSTANTS
    Attempts,           \* attempts of the queue's tasks
    AttemptTimeout,     \* task timeout_ms: an attempt's own deadline
    Policies,           \* QueueConcurrencyPolicy values operators may set
    MaxRevisions        \* bound: accepted policy revisions

Unlimited == -1         \* an absent maximum, timeout or grace
Limit     == Nat \cup {Unlimited}
Time      == Nat \cup {Unlimited}

(* A grace needs a timeout; a zero maximum pauses the queue.  The tables   *)
(* are finite.                                                             *)
ASSUME QueueAssumption ==
    /\ IsFiniteSet(Attempts)
    /\ AttemptTimeout \in Nat \ {0}
    /\ MaxRevisions \in Nat
    /\ \A p \in Policies :
          /\ p.maximum \in Limit
          /\ p.timeout \in Time \ {0} /\ p.grace \in Time \ {0}
          /\ p.grace # Unlimited => p.timeout # Unlimited

VARIABLES
    policy,     \* row of queue_concurrency_policies, or NoPolicy
    attempts,   \* attempts[a]: columns the triggers read, and its deadline
    holds,      \* holds[a]: row of queue_concurrency_holds, or NoHold
    works       \* works[a]: what the worker really does for the attempt

vars == <<policy, attempts, holds, works>>

HoldState   == {"reserved", "running", "uncertain", "released"}
ReleaseKind == {"confirmed", "never_started", "operator", "timeout"}

Policy  == [revision : Nat, maximum : Limit, timeout : Time, grace : Time,
            occupied : Nat, uncertain : Nat]
Attempt == [state : {"none", "active", "ended"}, started : BOOLEAN, reported : BOOLEAN,
            quiescence : {"confirmed", "unconfirmed"}, denied : BOOLEAN, deadline : Nat]
Hold    == [state : HoldState \cup {"none"}, deadline : Time, grace : Time,
            stopped : BOOLEAN, force : Time, release_kind : ReleaseKind \cup {"none"}]
Work    == [stage : {"idle", "granted", "running", "quiescent"}, closes : BOOLEAN]

NoPolicy  == [revision |-> 0, maximum |-> Unlimited, timeout |-> Unlimited,
              grace |-> Unlimited, occupied |-> 0, uncertain |-> 0]
NoAttempt == [state |-> "none", started |-> FALSE, reported |-> FALSE,
              quiescence |-> "unconfirmed", denied |-> FALSE, deadline |-> 0]
NoHold    == [state |-> "none", deadline |-> Unlimited, grace |-> Unlimited,
              stopped |-> FALSE, force |-> Unlimited, release_kind |-> "none"]

Init ==
    /\ policy = NoPolicy
    /\ attempts = [a \in Attempts |-> NoAttempt]
    /\ holds = [a \in Attempts |-> NoHold]
    /\ works = [a \in Attempts |-> [stage |-> "idle", closes |-> FALSE]]

-----------------------------------------------------------------------------
Enrolled == policy.revision > 0
Least(x, y) == IF y = Unlimited \/ x =< y THEN x ELSE y

(* gate: a queue without policy, without maximum or below it has room.     *)
Gate == policy.maximum # Unlimited => policy.occupied < policy.maximum

NewHold(state, p) ==
    [state |-> state, deadline |-> p.timeout, grace |-> p.grace,
     stopped |-> FALSE, force |-> Unlimited, release_kind |-> "none"]

Open(h) == h.state \notin {"none", "released"}

(* ldg_queue_transition: only an open hold in another state moves.         *)
Moves(h, state) == Open(h) /\ h.state # state

Moved(h, state, kind) ==
    IF Moves(h, state)
    THEN [h EXCEPT !.state = state, !.release_kind = kind]
    ELSE h

Bit(b) == IF b THEN 1 ELSE 0

(* Mutant of Counted: the uncertain counter forgets released holds.        *)
CountedOnce(p, h, state) ==
    IF Moves(h, state)
    THEN [p EXCEPT !.occupied = @ - Bit(state = "released"),
                   !.uncertain = @ + Bit(state = "uncertain")]
    ELSE p

(* The counters ldg_queue_transition changes along with the hold.          *)
Counted(p, h, state) ==
    IF Moves(h, state)
    THEN [p EXCEPT !.occupied = @ - Bit(state = "released"),
                   !.uncertain = @ - Bit(h.state = "uncertain") + Bit(state = "uncertain")]
    ELSE p

(* Moves hold a, as a transaction has already changed it to h.             *)
Transition(a, h, state, kind) ==
    /\ holds' = [holds EXCEPT ![a] = Moved(h, state, kind)]
    /\ policy' = Counted(policy, h, state)

(* fence: the attempt may not start any more.                              *)
Fenced(attempt) == [attempt EXCEPT !.deadline = 0]

(* confirm_denied_task_quiescence: a refused start never ran, so that the  *)
(* queue may have been enrolled since without adopting it.                 *)
ConfirmsDenial(old, new) ==
    old.denied /\ ~old.started /\ new = [old EXCEPT !.quiescence = "confirmed"]

(* ldg_queue_attempt_transition: the update that fails its transaction.    *)
Raises(h, old, new) ==
    \/ h = NoHold /\ ~ConfirmsDenial(old, new)
    \/ /\ new.started /\ ~old.started
       /\ h.state = "released" \/ h.stopped \/ h.deadline = 0

(* ldg_queue_attempt_transition: the state a changed attempt asks for.     *)
Asked(h, new) ==
    IF new.quiescence = "confirmed" \/ (new.state # "active" /\ ~new.started) THEN "released"
    ELSE IF new.state # "active" THEN "uncertain"
    ELSE IF new.started THEN "running"
    ELSE h.state

AskedKind(h, new) ==
    IF Asked(h, new) # "released" THEN "none"
    ELSE IF new.started THEN "confirmed" ELSE "never_started"

(* An update of an attempt row, with the trigger of the columns it fires   *)
(* on.  A trigger that raises aborts the whole transaction.                *)
Update(a, new) ==
    LET old    == attempts[a]
        fires  == <<old.started, old.state, old.quiescence>>
                      # <<new.started, new.state, new.quiescence>>
    IN  /\ attempts' = [attempts EXCEPT ![a] = new]
        /\ IF Enrolled /\ fires
           THEN /\ ~Raises(holds[a], old, new)
                /\ Transition(a, holds[a], Asked(holds[a], new), AskedKind(holds[a], new))
           ELSE UNCHANGED <<policy, holds>>

-----------------------------------------------------------------------------
(* adopt.sql: attempts that may still use capacity when a queue enrolls.   *)
Adoptable(a) ==
    \/ attempts[a].state = "active"
    \/ /\ attempts[a].state = "ended" /\ attempts[a].started
       /\ attempts[a].quiescence = "unconfirmed"

AdoptedState(a) ==
    IF attempts[a].state # "active" THEN "uncertain"
    ELSE IF attempts[a].started THEN "running" ELSE "reserved"

(* put_queue_once.  A first policy adopts the work in progress, even above *)
(* its maximum; a later one leaves holds and counters alone.               *)
PutPolicy(p) ==
    LET record == [NoPolicy EXCEPT !.revision = policy.revision + 1,
                       !.maximum = p.maximum, !.timeout = p.timeout, !.grace = p.grace]
        adopted == {a \in Attempts : Adoptable(a)}
    IN
    /\ policy.revision < MaxRevisions
    /\ IF Enrolled
       THEN /\ policy' = [record EXCEPT !.occupied = policy.occupied,
                                        !.uncertain = policy.uncertain]
            /\ UNCHANGED holds
       ELSE /\ policy' = [record EXCEPT
                              !.occupied = Cardinality(adopted),
                              !.uncertain = Cardinality(
                                  {a \in adopted : AdoptedState(a) = "uncertain"})]
            /\ holds' = [a \in Attempts |->
                             IF a \in adopted THEN NewHold(AdoptedState(a), p) ELSE holds[a]]
    /\ UNCHANGED <<attempts, works>>

(* An assignment on any path: gate, prepare's deadline cap and the trigger *)
(* ldg_queue_guard_insert commit together with the attempt row.            *)
Claim(a) ==
    /\ attempts[a].state = "none"
    /\ Gate
    /\ attempts' = [attempts EXCEPT ![a] =
           [NoAttempt EXCEPT !.state = "active",
                             !.deadline = Least(AttemptTimeout, policy.timeout)]]
    /\ works' = [works EXCEPT ![a].closes = Enrolled]
    /\ IF Enrolled
       THEN /\ holds' = [holds EXCEPT ![a] = NewHold("reserved", policy)]
            /\ policy' = [policy EXCEPT !.occupied = @ + 1]
       ELSE UNCHANGED <<holds, policy>>

(* replay: a claim that is repeated is answered with the assignment it     *)
(* made, and says whether a hold exists by now.                            *)
ReplayClaim(a) ==
    /\ attempts[a].state = "active" /\ works[a].stage = "idle"
    /\ works' = [works EXCEPT ![a].closes = holds[a] # NoHold]
    /\ UNCHANGED <<policy, attempts, holds>>

(* What core::renew asks before it records a start.                        *)
Dispatchable(a) ==
    /\ attempts[a].state = "active" /\ ~attempts[a].reported
    /\ attempts[a].deadline > 0

(* renew with intent Dispatch, whose reply may get lost.                   *)
Dispatch(a) ==
    /\ works[a].stage = "idle"
    /\ Dispatchable(a)
    /\ Update(a, [attempts[a] EXCEPT !.started = TRUE])
    /\ \/ works' = [works EXCEPT ![a].stage = "granted"]
       \/ UNCHANGED works

(* deny_task_admission: the budget refuses the start of a governed task,   *)
(* which ends it; its worker's close then certifies the cleanup.           *)
Deny(a) ==
    /\ Dispatchable(a) /\ ~attempts[a].started
    /\ Update(a, [attempts[a] EXCEPT !.state = "ended", !.denied = TRUE])
    /\ UNCHANGED works

ConfirmDenied(a) ==
    /\ attempts[a].denied /\ attempts[a].quiescence = "unconfirmed"
    /\ works[a].stage = "quiescent"
    /\ Update(a, [attempts[a] EXCEPT !.quiescence = "confirmed"])
    /\ UNCHANGED works

(* The worker invokes what it was granted, and stops: its program ends, is *)
(* cancelled, or was never invoked and never will be.                      *)
Invoke(a) ==
    /\ works[a].stage = "granted"
    /\ works' = [works EXCEPT ![a].stage = "running"]
    /\ UNCHANGED <<policy, attempts, holds>>

Quiesce(a) ==
    /\ attempts[a].state # "none"
    /\ works[a].stage # "quiescent"
    /\ works' = [works EXCEPT ![a].stage = "quiescent"]
    /\ UNCHANGED <<policy, attempts, holds>>

(* settle_once.  A worker certifies only the quiescence it has observed.   *)
Settle(a, may_have_started, quiescence) ==
    /\ attempts[a].state = "active" /\ ~attempts[a].reported
    /\ quiescence = "confirmed" => works[a].stage = "quiescent"
    /\ Update(a, [attempts[a] EXCEPT !.reported = TRUE, !.quiescence = quiescence,
                      !.started = @ \/ may_have_started,
                      !.state = IF quiescence = "confirmed" THEN "ended" ELSE @])
    /\ UNCHANGED works

ConfirmQuiescence(a) ==
    /\ attempts[a].state = "active" /\ attempts[a].reported
    /\ works[a].stage = "quiescent"
    /\ Update(a, [attempts[a] EXCEPT !.quiescence = "confirmed", !.state = "ended"])
    /\ UNCHANGED works

(* expire_one, or a cancellation past the lease: no word from the worker.  *)
Expire(a) ==
    /\ attempts[a].state = "active"
    /\ Update(a, [attempts[a] EXCEPT !.state = "ended"])
    /\ UNCHANGED works

(* confirm_queue_hold and close_hold_once: the execution that owns a hold  *)
(* returns it once its reservation is quiescent, also after its lease.  A  *)
(* hold already released is only acknowledged.                             *)
CloseHold(a) ==
    /\ works[a].closes /\ works[a].stage = "quiescent"
    /\ Open(holds[a])
    /\ attempts' = [attempts EXCEPT ![a] = Fenced(@)]
    /\ Transition(a, holds[a], "released", "confirmed")
    /\ UNCHANGED works

(* Mutant of ReleaseHold: any open hold may be released.                   *)
ReleaseOpen(a) ==
    /\ Open(holds[a])
    /\ attempts' = [attempts EXCEPT ![a] = Fenced(@)]
    /\ Transition(a, holds[a], "released", "operator")
    /\ UNCHANGED works

(* release_hold_once: an operator releases an uncertain hold.  A request   *)
(* for a revision that has passed conflicts, a repeated one finds its      *)
(* receipt.                                                                *)
ReleaseHold(a) ==
    /\ holds[a].state = "uncertain"
    /\ attempts' = [attempts EXCEPT ![a] = Fenced(@)]
    /\ Transition(a, holds[a], "released", "operator")
    /\ UNCHANGED works

(* Mutant of StopHold: the grace never begins.                             *)
StopWithoutGrace(a) ==
    LET h    == holds[a]
        stop == [h EXCEPT !.stopped = TRUE]
    IN
    /\ Open(h) /\ ~h.stopped /\ h.deadline = 0
    /\ attempts' = [attempts EXCEPT ![a] = Fenced(@)]
    /\ IF h.state = "reserved"
       THEN Transition(a, stop, "released", "never_started")
       ELSE Transition(a, stop, "uncertain", "none")
    /\ UNCHANGED works

(* tick_timeout of a hold past its deadline: stop is requested, the grace  *)
(* begins, and only a hold that cannot have started is released.           *)
StopHold(a) ==
    LET h    == holds[a]
        stop == [h EXCEPT !.stopped = TRUE, !.force = h.grace]
    IN
    /\ Open(h) /\ ~h.stopped /\ h.deadline = 0
    /\ attempts' = [attempts EXCEPT ![a] = Fenced(@)]
    /\ IF h.state = "reserved"
       THEN Transition(a, stop, "released", "never_started")
       ELSE Transition(a, stop, "uncertain", "none")
    /\ UNCHANGED works

(* tick_timeout of a stopped hold whose grace is over.                     *)
ForceHold(a) ==
    LET h == holds[a] IN
    /\ Open(h) /\ h.stopped /\ h.force = 0
    /\ attempts' = [attempts EXCEPT ![a] = Fenced(@)]
    /\ Transition(a, h, "released", "timeout")
    /\ UNCHANGED works

Less(n) == IF n \in {0, Unlimited} THEN n ELSE n - 1

Tick ==
    /\ attempts' = [a \in Attempts |-> [attempts[a] EXCEPT !.deadline = Less(@)]]
    /\ holds' = [a \in Attempts |->
           [holds[a] EXCEPT !.deadline = Less(@), !.force = Less(@)]]
    /\ UNCHANGED <<policy, works>>

Next ==
    \/ Tick
    \/ \E p \in Policies : PutPolicy(p)
    \/ \E a \in Attempts :
          \/ Claim(a) \/ ReplayClaim(a) \/ Deny(a) \/ ConfirmDenied(a)
          \/ Dispatch(a) \/ Invoke(a) \/ Quiesce(a)
          \/ \E started \in BOOLEAN, q \in {"confirmed", "unconfirmed"} : Settle(a, started, q)
          \/ ConfirmQuiescence(a) \/ Expire(a)
          \/ CloseHold(a) \/ ReleaseHold(a)
          \/ StopHold(a) \/ ForceHold(a)

Spec == Init /\ [][Next]_vars

(* Time passes and advance_queue_timeouts runs with every recovery pass;   *)
(* its cursor moves past contended holds, so each due one gets its turn.   *)
Fairness ==
    /\ WF_vars(Tick)
    /\ \A a \in Attempts : WF_vars(StopHold(a)) /\ WF_vars(ForceHold(a))

FairSpec == Spec /\ Fairness

-----------------------------------------------------------------------------
(* Types of all rows.                                                      *)
TypeOK ==
    /\ policy \in Policy
    /\ attempts \in [Attempts -> Attempt]
    /\ holds \in [Attempts -> Hold]
    /\ works \in [Attempts -> Work]

(* The counters the gate trusts are the holds that exist: no interleaving  *)
(* of settlement, expiry, closure, release and timeout counts one release  *)
(* twice or loses one, which would overbook or strand capacity for good.   *)
CountersMatch ==
    /\ policy.occupied = Cardinality({a \in Attempts : Open(holds[a])})
    /\ policy.uncertain = Cardinality({a \in Attempts : holds[a].state = "uncertain"})

(* Capacity returned as confirmed or never started is really free: its     *)
(* work is not executing and can never be granted again.  Only the         *)
(* operator and the elapsed grace may free capacity of running work.       *)
ReleaseIsProven ==
    \A a \in Attempts :
        holds[a].release_kind \in {"confirmed", "never_started"} =>
            /\ works[a].stage \notin {"granted", "running"}
            /\ ~Dispatchable(a)

(* Whatever executes in an enrolled queue is counted, also work that was   *)
(* assigned before the policy existed, until a release accounts for it.    *)
ExecutionIsCounted ==
    \A a \in Attempts :
        Enrolled /\ works[a].stage \in {"granted", "running"} =>
            Open(holds[a]) \/ holds[a].release_kind \in {"operator", "timeout"}

(* Every live attempt of an enrolled queue has its hold, so the trigger    *)
(* never fails an expiry, settlement or confirmation: such an attempt      *)
(* could not be ended by anyone.                                           *)
LiveIsHeld ==
    Enrolled => \A a \in Attempts : attempts[a].state = "active" => holds[a] # NoHold

(* A hold says reserved exactly while its live attempt has not started:    *)
(* the timeout scan releases a reserved hold on that word alone.           *)
ReservedIsUnstarted ==
    \A a \in Attempts :
        holds[a].state = "reserved" => attempts[a].state = "active" /\ ~attempts[a].started

(* The ceiling's books agree with what exists and executes.                *)
HoldsAccounted ==
    /\ TypeOK /\ CountersMatch /\ ReleaseIsProven
    /\ ExecutionIsCounted /\ LiveIsHeld /\ ReservedIsUnstarted

(* A hold only advances: reserved, running, uncertain, released, and what  *)
(* is released stays as it is.  No claim takes occupancy past the maximum. *)
Rank(h) ==
    CASE h.state = "none" -> 0 [] h.state = "reserved" -> 1 [] h.state = "running" -> 2
      [] h.state = "uncertain" -> 3 [] h.state = "released" -> 4

HoldsAdvance ==
    [][/\ \A a \in Attempts :
             /\ Rank(holds[a]) =< Rank(holds'[a])
             /\ holds[a].state = "released" =>
                    holds'[a].release_kind = holds[a].release_kind
       /\ Enrolled /\ policy'.occupied > policy.occupied =>
             policy.maximum = Unlimited \/ policy'.occupied =< policy.maximum]_vars

(* An operator's decision covers only work whose end is not known, and a   *)
(* forced release only follows a stop request and its whole grace.         *)
ForcedReleases ==
    [][\A a \in Attempts :
          holds'[a].release_kind # holds[a].release_kind =>
              /\ holds'[a].release_kind = "operator" => holds[a].state = "uncertain"
              /\ holds'[a].release_kind = "timeout" =>
                     holds[a].stopped /\ holds[a].grace # Unlimited /\ holds[a].force = 0]_vars

(* What a hold may never do.                                               *)
ReleasesStand == HoldsAdvance /\ ForcedReleases

(* With a timeout and a grace, every hold is released in the end, even if  *)
(* the worker never speaks again.                                          *)
HoldsDrain ==
    \A a \in Attempts :
        (Open(holds[a]) /\ holds[a].grace # Unlimited) ~> (holds[a].state = "released")

=============================================================================
