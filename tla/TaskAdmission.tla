---------------------------- MODULE TaskAdmission ----------------------------
(***************************************************************************)
(* Governed task admission: tasks that need a resource wait until its      *)
(* scheduler offers them occupancy and rate credit, an assignment turns    *)
(* the offer into a preparation, and only the worker's single Start turns  *)
(* that into a charged invocation, which a source-bound Close or an        *)
(* operator gives back.  One resource, its policy revisions, its due time, *)
(* the requests of every task generation, the attempts and the workers.    *)
(*                                                                         *)
(* Every transaction locks task, resource and request, so each is one      *)
(* atomic action.  Times are what is left until a deadline (0: passed) and *)
(* credit is refilled as time passes, which adds up to the lazy refill of  *)
(* the code.  Worker sessions and grants to read are left out: a request   *)
(* they refuse changes nothing.                                            *)
(***************************************************************************)
EXTENDS ResourceRow, Sequences, FiniteSets

CONSTANTS
    Tasks,              \* tasks governed by the resource
    MaxGeneration,      \* MAX_TASK_ATTEMPT_GENERATION
    Policies,           \* ResourcePolicy values operators may set
    MaxRevisions,       \* bound: accepted policy revisions
    Lease,              \* an attempt's lease
    AttemptTimeout,     \* an attempt's deadline
    Backoff,            \* TASK_ADMISSION_DEFERRAL_BACKOFF_MS, retry delay
    Budgeted            \* tasks with a run budget, which may deny a call

ASSUME AdmissionAssumption ==
    /\ {MaxGeneration, Lease, AttemptTimeout, Backoff} \subseteq Nat \ {0}
    /\ MaxRevisions \in Nat
    /\ IsFiniteSet(Tasks) /\ Budgeted \subseteq Tasks
    /\ \A p \in Policies :
          /\ p.enabled \in BOOLEAN /\ p.max_occupancy \in Nat
          /\ {p.numerator, p.period, p.burst} \subseteq Nat
          /\ p.period > 0 => p.numerator > 0 /\ p.burst > 0
          /\ p.offer_timeout \in Nat \ {0}

Occurrences == Tasks \X (1..MaxGeneration)

VARIABLES
    resource,   \* row of admission_resources
    line,       \* waiting requests, in request_seq order
    requests,   \* requests[<<t, g>>]: row of task_admission_requests
    tasks,      \* tasks[t]: the columns of the task that matter here
    attempts,   \* attempts[<<t, g>>]: the attempt of a generation
    workers     \* workers[<<t, g>>]: what the assigned worker has done

vars == <<resource, line, requests, tasks, attempts, workers>>

RequestState ==
    {"none", "waiting", "offered", "preparing", "possibly_dispatched",
     "unknown_occupied", "finished", "administratively_released", "closed_before_start"}

Resource == [revision : 1..(MaxRevisions + 1), policy : Policies, credit : Nat,
             offered : Nat, started : Nat, unknown : Nat, due : Nat \cup {None}]
Request  == [state : RequestState, available : Nat \cup {None}, rewaited : BOOLEAN,
             revision : Nat, expires : Nat, check : Nat \cup {None},
             owner : BOOLEAN, source : BOOLEAN, start : BOOLEAN,
             close : {"none", "not_invoked", "quiescent"}, denied : BOOLEAN]
Task     == [state : {"none", "queued", "active", "done"}, ready : BOOLEAN,
             cancel : BOOLEAN, generation : 0..MaxGeneration, deferrals : Nat]
Attempt  == [state : {"none", "active", "deferred", "ended"}, started : BOOLEAN,
             settled : BOOLEAN, confirmed : BOOLEAN, lease : Nat]
Stage    == {"none", "preparing", "asked", "granted", "running", "failed", "stopped", "quit"}

NoRequest == [state |-> "none", available |-> None, rewaited |-> FALSE, revision |-> 0,
              expires |-> 0, check |-> None, owner |-> FALSE, source |-> FALSE,
              start |-> FALSE, close |-> "none", denied |-> FALSE]
NoAttempt == [state |-> "none", started |-> FALSE, settled |-> FALSE, confirmed |-> FALSE,
              lease |-> 0]

Init ==
    /\ \E p \in Policies :
          resource = [revision |-> 1, policy |-> p, credit |-> Full(p), offered |-> 0,
                      started |-> 0, unknown |-> 0, due |-> None]
    /\ line = <<>>
    /\ requests = [o \in Occurrences |-> NoRequest]
    /\ tasks = [t \in Tasks |-> [state |-> "none", ready |-> FALSE, cancel |-> FALSE,
                                 generation |-> 0, deferrals |-> 0]]
    /\ attempts = [o \in Occurrences |-> NoAttempt]
    /\ workers = [o \in Occurrences |-> "none"]

-----------------------------------------------------------------------------
(* The line after o, which has one place in it at most, has left.          *)
Without(seq, o) ==
    LET at == CHOOSE i \in DOMAIN seq : seq[i] = o
    IN  IF \A i \in DOMAIN seq : seq[i] # o THEN seq
        ELSE [i \in 1..(Len(seq) - 1) |-> IF i < at THEN seq[i] ELSE seq[i + 1]]

Woken(r)   == [r EXCEPT !.due = 0]
Now(t)     == <<t, tasks[t].generation>>        \* the current attempt
Next_(t)   == <<t, tasks[t].generation + 1>>    \* next_occurrence

(* release_offer.  (A claimed offer stays in the row as evidence, which no *)
(* decision reads again.)                                                  *)
ReleasedOffer(r, a) ==
    [r |-> Woken(IF a.revision = r.revision THEN [r EXCEPT !.offered = @ - 1] ELSE r),
     a |-> [a EXCEPT !.state = IF a.owner THEN "closed_before_start" ELSE "waiting",
                     !.revision = 0, !.expires = 0, !.check = None]]

Unstarted(a) == a.state \in {"offered", "preparing"}

ReleaseOffer(r, a) == IF Unstarted(a) THEN ReleasedOffer(r, a) ELSE [r |-> r, a |-> a]

(* TaskAdmissionSnapshot::validate, which save applies to every change.    *)
Valid(a) ==
    /\ a.denied => a.state = "closed_before_start"
    /\ a.state \in {"waiting", "offered"} => ~a.owner /\ ~a.source /\ a.close = "none"
    /\ a.state = "preparing" => a.owner /\ ~a.source /\ a.close = "none"
    /\ a.state \in {"possibly_dispatched", "unknown_occupied"} =>
           a.owner /\ a.source /\ a.close = "none"
    /\ a.state = "finished" => a.source /\ a.close # "none"
    /\ a.state = "administratively_released" => a.source
    /\ a.state = "closed_before_start" => ~a.source /\ (a.close # "none" => a.owner)

Occupied(a) == a.state \in {"possibly_dispatched", "unknown_occupied"}

(* Mutant of ReleaseStarted: an end that was unknown stays counted so.     *)
ReleaseStartedOnly(r, a, state) ==
    IF Occupied(a)
    THEN [r |-> Woken([r EXCEPT !.started = @ - 1]),
          a |-> [a EXCEPT !.state = state, !.check = None]]
    ELSE [r |-> r, a |-> a]

(* release_started: occupancy of an invocation is given back.              *)
ReleaseStarted(r, a, state) ==
    IF Occupied(a)
    THEN [r |-> Woken([r EXCEPT !.started = @ - 1,
                           !.unknown = IF a.state = "unknown_occupied" THEN @ - 1 ELSE @]),
          a |-> [a EXCEPT !.state = state, !.check = None]]
    ELSE [r |-> r, a |-> a]

(* repark: an unclaimed request waits again, behind the others.            *)
Repark(r, a) ==
    LET x == ReleaseOffer(r, a)
    IN  IF x.a.state = "waiting"
        THEN [x EXCEPT !.a.available = Backoff, !.a.rewaited = TRUE]
        ELSE x

(* A governed transition of an attempt also moves its request: what has    *)
(* not started is closed, what may run becomes unknown.                    *)
Followed(r, a) ==
    IF ~a.source THEN ReleaseOffer(r, a)
    ELSE IF a.state = "possibly_dispatched"
    THEN [r |-> Woken([r EXCEPT !.unknown = @ + 1]),
          a |-> [a EXCEPT !.state = "unknown_occupied", !.check = None]]
    ELSE [r |-> r, a |-> a]

Set(o, x) ==
    /\ resource' = x.r
    /\ requests' = [requests EXCEPT ![o] = x.a]

(* register: the next generation of the task waits for its resource.  The  *)
(* request o of the ended attempt is saved in the same transaction as x.   *)
Registered(x, o, t, available) ==
    /\ resource' = Woken(x.r)
    /\ requests' = [requests EXCEPT ![o] = x.a,
                        ![<<t, o[2] + 1>>] = [NoRequest EXCEPT !.state = "waiting",
                                                               !.available = available]]
    /\ line' = Append(line, <<t, o[2] + 1>>)

(* defer_task_admission: the attempt provably never started; it is free.   *)
Deferred(t, x, confirmed) ==
    LET o == Now(t) IN
    /\ attempts' = [attempts EXCEPT ![o].state = IF tasks[t].cancel THEN "ended" ELSE "deferred",
                                    ![o].confirmed = confirmed, ![o].lease = 0]
    /\ IF tasks[t].cancel \/ o[2] = MaxGeneration
       THEN /\ Set(o, x)
            /\ tasks' = [tasks EXCEPT ![t].state = "done",
                             ![t].deferrals = IF tasks[t].cancel THEN @ ELSE @ + 1]
            /\ UNCHANGED line
       ELSE /\ Registered(x, o, t, Backoff)
            /\ tasks' = [tasks EXCEPT ![t].state = "queued", ![t].ready = FALSE,
                                      ![t].deferrals = @ + 1]

(* lifecycle::finish after an attempt: done, or retried while it may be.   *)
Finish(t, x, attempt) ==
    LET o == Now(t) IN
    /\ attempts' = [attempts EXCEPT ![o] = [attempt EXCEPT !.state = "ended", !.lease = 0]]
    /\ \/ /\ tasks' = [tasks EXCEPT ![t].state = "done"]
          /\ Set(o, x)
          /\ UNCHANGED line
       \/ /\ ~tasks[t].cancel /\ o[2] < MaxGeneration
          /\ tasks' = [tasks EXCEPT ![t].state = "queued", ![t].ready = FALSE]
          /\ Registered(x, o, t, Backoff)

-----------------------------------------------------------------------------
Submit(t) ==
    /\ tasks[t].state = "none"
    /\ tasks' = [tasks EXCEPT ![t].state = "queued"]
    /\ resource' = Woken(resource)
    /\ requests' = [requests EXCEPT ![<<t, 1>>] = [NoRequest EXCEPT !.state = "waiting"]]
    /\ line' = Append(line, <<t, 1>>)
    /\ UNCHANGED <<attempts, workers>>

(* put_resource_once: offers belong to a policy epoch, started debt stays. *)
PutResource(p) ==
    /\ resource.revision =< MaxRevisions
    /\ resource' = Woken([resource EXCEPT !.revision = @ + 1, !.policy = p, !.offered = 0,
                              !.credit = Converted(resource.policy, p, resource.credit)])
    /\ UNCHANGED <<line, requests, tasks, attempts, workers>>

Stale(a) ==
    a.revision # resource.revision \/ ~resource.policy.enabled \/ a.expires = 0

(* validate_candidate and bind_preparation, with the assignment.           *)
Claim(t) ==
    LET o == Next_(t) IN
    /\ tasks[t].state = "queued" /\ tasks[t].ready
    /\ requests[o].state = "offered" /\ ~Stale(requests[o])
    /\ tasks' = [tasks EXCEPT ![t].state = "active", ![t].generation = @ + 1,
                              ![t].ready = FALSE]
    /\ attempts' = [attempts EXCEPT ![o] = [NoAttempt EXCEPT !.state = "active", !.lease = Lease]]
    /\ workers' = [workers EXCEPT ![o] = "preparing"]
    /\ Set(o, [r |-> Woken(resource),
               a |-> [requests[o] EXCEPT !.state = "preparing", !.owner = TRUE,
                          !.expires = AttemptTimeout,
                          !.check = Least({Lease, AttemptTimeout})]])
    /\ UNCHANGED line

(* An unclaimed offer o goes back to the end of the line.                  *)
Requeue(t, o) ==
    /\ Set(o, Repark(resource, requests[o]))
    /\ line' = Append(Without(line, o), o)
    /\ tasks' = [tasks EXCEPT ![t].ready = FALSE]

ClaimStale(t) ==
    LET o == Next_(t) IN
    /\ tasks[t].state = "queued" /\ tasks[t].ready
    /\ requests[o].state = "offered" /\ Stale(requests[o])
    /\ Requeue(t, o)
    /\ UNCHANGED <<attempts, workers>>

(* defer_legacy_claim: a broker worker that cannot execute governed tasks. *)
LegacyClaim(t) ==
    LET o == Next_(t) IN
    /\ tasks[t].state = "queued"
    /\ requests[o].state = "offered" \/ (requests[o].state = "waiting" /\ ~requests[o].rewaited)
    /\ Requeue(t, o)
    /\ UNCHANGED <<attempts, workers>>

Live(o) == attempts[o].state = "active" /\ attempts[o].lease > 0

Renew(t) ==
    LET o == Now(t) IN
    /\ tasks[t].state = "active" /\ Live(o) /\ workers[o] # "none"
    /\ attempts' = [attempts EXCEPT ![o].lease = Lease]
    /\ UNCHANGED <<resource, line, requests, tasks, workers>>

-----------------------------------------------------------------------------
(* The worker: asks once, invokes only on a grant it received, and stops.  *)
Work(o) ==
    /\ \E stages \in {<<"preparing", "asked">>, <<"preparing", "failed">>,
                      <<"preparing", "quit">>, <<"asked", "quit">>, <<"granted", "quit">>,
                      <<"granted", "running">>, <<"running", "stopped">>,
                      <<"failed", "stopped">>} :
          /\ workers[o] = stages[1]
          /\ workers' = [workers EXCEPT ![o] = stages[2]]
    /\ UNCHANGED <<resource, line, requests, tasks, attempts>>

(* A Start that was sent once may be delivered late.                       *)
Asked(o) == workers[o] \notin {"none", "preparing", "failed"}

(* What a Start answered with the retained request tells the worker.       *)
ReplyExisting(o) ==
    \/ UNCHANGED workers
    \/ workers[o] = "asked" /\ workers' = [workers EXCEPT ![o] = "quit"]

StartExisting(o) ==
    LET a == requests[o] IN
    /\ Asked(o)
    /\ a.start \/ a.state # "preparing" \/ a.close # "none"
    /\ workers[o] = "asked" /\ workers' = [workers EXCEPT ![o] = "quit"]
    /\ UNCHANGED <<resource, line, requests, tasks, attempts>>

StartStale(o) ==
    LET a == requests[o] IN
    /\ Asked(o)
    /\ a.state = "preparing" /\ a.close = "none" /\ Stale(a)
    /\ Set(o, ReleaseOffer(resource, a))
    /\ ReplyExisting(o)
    /\ UNCHANGED <<line, tasks, attempts>>

(* What start_task_admission and deny_task_admission ask of the attempt.   *)
Startable(o) ==
    LET a == requests[o] IN
    /\ Asked(o)
    /\ a.state = "preparing" /\ a.close = "none" /\ ~a.start /\ ~Stale(a)
    /\ tasks[o[1]].state = "active" /\ Now(o[1]) = o /\ ~tasks[o[1]].cancel
    /\ Live(o) /\ ~attempts[o].settled /\ ~attempts[o].started

(* The transaction that charges the resource; its own reply is the only    *)
(* one that grants, and it may get lost.                                   *)
StartGranted(o) ==
    /\ Startable(o)
    /\ attempts' = [attempts EXCEPT ![o].started = TRUE]
    /\ Set(o, [r |-> Woken([resource EXCEPT !.offered = @ - 1, !.started = @ + 1,
                                            !.credit = @ - resource.policy.period]),
               a |-> [requests[o] EXCEPT !.state = "possibly_dispatched", !.source = TRUE,
                          !.start = TRUE, !.revision = 0, !.expires = 0,
                          !.check = attempts[o].lease]])
    /\ \/ workers[o] = "asked" /\ workers' = [workers EXCEPT ![o] = "granted"]
       \/ UNCHANGED workers
    /\ UNCHANGED <<line, tasks>>

(* A run budget refuses the call: terminal, whatever the retry policy.     *)
StartDenied(o) ==
    LET x == ReleaseOffer(resource, requests[o]) IN
    /\ o[1] \in Budgeted
    /\ Startable(o)
    /\ Set(o, [x EXCEPT !.a.denied = TRUE, !.a.start = TRUE])
    /\ attempts' = [attempts EXCEPT ![o].state = "ended", ![o].lease = 0]
    /\ tasks' = [tasks EXCEPT ![o[1]].state = "done"]
    /\ ReplyExisting(o)
    /\ UNCHANGED line

Current(o) == tasks[o[1]].state = "active" /\ Now(o[1]) = o /\ attempts[o].state = "active"

(* close_task_admission_once of an accepted Start.                         *)
CloseSource(o, outcome) ==
    LET freed == ReleaseStarted(resource, requests[o], "finished")
        x == [freed EXCEPT !.r = Woken(@), !.a.close = outcome]
    IN
    /\ requests[o].close = "none" /\ requests[o].source
    /\ IF outcome = "not_invoked" /\ Current(o)
       THEN Finish(o[1], x, [attempts[o] EXCEPT !.confirmed = TRUE])
       ELSE Set(o, x) /\ UNCHANGED <<line, tasks, attempts>>
    /\ UNCHANGED workers

(* close_task_admission_once of a request that never started.              *)
CloseUnstarted(o, outcome) ==
    LET freed == ReleaseOffer(resource, requests[o])
        x == [freed EXCEPT !.r = Woken(@), !.a.close = outcome, !.a.check = None,
                           !.a.state = "closed_before_start"]
    IN
    /\ requests[o].close = "none" /\ ~requests[o].source /\ requests[o].owner
    /\ IF requests[o].denied
       THEN /\ attempts' = [attempts EXCEPT ![o].confirmed = TRUE]
            /\ Set(o, x) /\ UNCHANGED <<line, tasks>>
       ELSE IF outcome = "not_invoked" /\ Current(o) /\ ~attempts[o].settled
       THEN Deferred(o[1], x, TRUE)
       ELSE IF outcome = "quiescent" /\ Current(o) /\ attempts[o].settled
               /\ ~attempts[o].confirmed /\ Live(o)
       THEN Finish(o[1], x, [attempts[o] EXCEPT !.confirmed = TRUE])
       ELSE Set(o, x) /\ UNCHANGED <<line, tasks, attempts>>
    /\ UNCHANGED workers

(* The worker closes what it owns once its reservation is quiescent; an    *)
(* accepted Close is only replayed.                                        *)
Outcome(o) == IF workers[o] = "quit" THEN "not_invoked" ELSE "quiescent"

Close(o) ==
    /\ workers[o] \in {"stopped", "quit"}
    /\ CloseSource(o, Outcome(o)) \/ CloseUnstarted(o, Outcome(o))

(* settle and confirm_quiescence: a report without an accepted Start must  *)
(* not claim execution.                                                    *)
Settle(t, confirmed) ==
    LET o == Now(t)
        attempt == [attempts[o] EXCEPT !.settled = TRUE, !.confirmed = confirmed]
        ends    == confirmed \/ tasks[t].cancel \/ ~requests[o].source
        x       == IF ends THEN Followed(resource, requests[o])
                   ELSE [r |-> resource, a |-> requests[o]]
    IN
    /\ tasks[t].state = "active" /\ Live(o) /\ ~attempts[o].settled
    /\ workers[o] \in {"running", "failed", "stopped"}
    /\ workers[o] = "stopped" \/ ~confirmed
    /\ IF confirmed
       THEN Finish(t, x, attempt)
       ELSE /\ attempts' = [attempts EXCEPT ![o] = attempt]
            /\ Set(o, x) /\ UNCHANGED <<line, tasks>>
    /\ UNCHANGED workers

ConfirmQuiescence(t) ==
    LET o == Now(t) IN
    /\ tasks[t].state = "active" /\ Live(o) /\ attempts[o].settled
    /\ workers[o] = "stopped"
    /\ Finish(t, Followed(resource, requests[o]), [attempts[o] EXCEPT !.confirmed = TRUE])
    /\ UNCHANGED workers

(* expire_transition: without Start, and unless a real preparation failure *)
(* was closed, the attempt is deferred; otherwise it ends unconfirmed.     *)
Expire(t) ==
    LET o == Now(t)
        x == Followed(resource, requests[o])
    IN
    /\ tasks[t].state = "active" /\ attempts[o].lease = 0
    /\ IF attempts[o].started \/ attempts[o].settled \/ requests[o].close = "quiescent"
       THEN Finish(t, x, attempts[o])
       ELSE Deferred(t, x, FALSE)
    /\ UNCHANGED workers

(* Cancellation of a queued task closes its request, of an active one only *)
(* revokes what has not started.                                           *)
Cancel(t) ==
    LET o == IF tasks[t].state = "queued" THEN Next_(t) ELSE Now(t) IN
    /\ tasks[t].state \in {"queued", "active"} /\ ~tasks[t].cancel
    /\ tasks' = [tasks EXCEPT ![t].cancel = TRUE,
                     ![t].state = IF @ = "queued" THEN "done" ELSE @]
    /\ IF tasks[t].state = "queued"
       THEN /\ Set(o, [r |-> Woken(ReleaseOffer(resource, requests[o]).r),
                       a |-> [ReleaseOffer(resource, requests[o]).a EXCEPT
                                  !.state = "closed_before_start"]])
            /\ line' = Without(line, o)
       ELSE Set(o, Followed(resource, requests[o])) /\ UNCHANGED line
    /\ UNCHANGED <<attempts, workers>>

(* release_task_admission_once, by an operator.                            *)
Release(o) ==
    /\ requests[o].source /\ Occupied(requests[o])
    /\ Set(o, ReleaseStarted(resource, requests[o], "administratively_released"))
    /\ UNCHANGED <<line, tasks, attempts, workers>>

-----------------------------------------------------------------------------
(* Mutant of Dues: an offer's own expiry is forgotten.                     *)
DuesWithoutOffers(r, reqs) ==
    LET of(states) == {o \in Occurrences : reqs[o].state \in states} IN
    {0 : o \in {o \in of({"offered", "preparing"}) : reqs[o].revision < r.revision}}
    \cup ({reqs[o].check : o \in of({"preparing", "possibly_dispatched"})} \ {None})
    \cup ({reqs[o].available : o \in of({"waiting"})} \ {None})
    \cup (IF r.policy.enabled /\ \E o \in of({"waiting"}) : reqs[o].available = None
          THEN IF Capacity(r) > 0 THEN {0} ELSE NextRefill(r)
          ELSE {})

(* refresh_due: the earliest time at which the scheduler has work.         *)
Dues(r, reqs) ==
    LET of(states) == {o \in Occurrences : reqs[o].state \in states} IN
    {0 : o \in {o \in of({"offered", "preparing"}) : reqs[o].revision < r.revision}}
    \cup {reqs[o].expires : o \in of({"offered"})}
    \cup ({reqs[o].check : o \in of({"preparing", "possibly_dispatched"})} \ {None})
    \cup ({reqs[o].available : o \in of({"waiting"})} \ {None})
    \cup (IF r.policy.enabled /\ \E o \in of({"waiting"}) : reqs[o].available = None
          THEN IF Capacity(r) > 0 THEN {0} ELSE NextRefill(r)
          ELSE {})

Eligible(o) == requests[o].state = "waiting" /\ requests[o].available = None

First == LET ready == SelectSeq(line, Eligible) IN IF ready = <<>> THEN None ELSE ready[1]

(* candidate: the scheduler's obligations in their order of priority; the  *)
(* head of the line comes after everything else.                           *)
Priority(o) ==
    LET a == requests[o] IN
    CASE Unstarted(a) /\ a.revision < resource.revision -> 0
      [] a.state = "offered" /\ a.revision = resource.revision /\ a.expires = 0 -> 1
      [] a.state = "preparing" /\ a.revision = resource.revision /\ a.check = 0 -> 2
      [] a.state = "possibly_dispatched" /\ a.check = 0 -> 2
      [] a.state = "waiting" /\ a.available = 0 -> 3
      [] Eligible(o) /\ o = First /\ resource.policy.enabled
           /\ resource.started + resource.offered < resource.policy.max_occupancy -> 4
      [] OTHER -> 5

Candidate(o) ==
    Priority(o) < 5 /\ \A p \in Occurrences : Priority(o) =< Priority(p)

(* Every scheduler transaction ends with refresh_due.                      *)
SetRefreshed(o, x) ==
    LET reqs == [requests EXCEPT ![o] = x.a] IN
    /\ requests' = reqs
    /\ resource' = [x.r EXCEPT !.due = Least(Dues(x.r, reqs))]

(* When an attempt of a live owner is looked at again; None: at no time.   *)
CheckAt(o) ==
    LET left == Least({attempts[o].lease, requests[o].expires})
    IN  IF Current(o) /\ left > 0 THEN left ELSE None

(* tick of an offer or a preparation: dropped when its epoch, its policy   *)
(* or its time is over or its attempt is gone.                             *)
TickOffer(o) ==
    LET a == requests[o]
        x == IF Stale(a) THEN Repark(resource, a)
             ELSE IF a.state = "preparing" /\ a.check = 0
             THEN IF CheckAt(o) # None
                  THEN [r |-> resource, a |-> [a EXCEPT !.check = CheckAt(o)]]
                  ELSE ReleaseOffer(resource, a)
             ELSE [r |-> resource, a |-> a]
    IN
    /\ resource.due = 0 /\ Unstarted(a)
    /\ SetRefreshed(o, x)
    /\ IF x.a.state = "waiting"
       THEN /\ line' = Append(line, o)
            /\ tasks' = [tasks EXCEPT ![o[1]].ready = FALSE]
       ELSE UNCHANGED <<line, tasks>>
    /\ UNCHANGED <<attempts, workers>>

(* tick of a started request: without a live owner its end is unknown.     *)
TickStarted(o) ==
    LET a == requests[o]
        live == Current(o) /\ ~tasks[o[1]].cancel /\ attempts[o].lease > 0
    IN
    /\ resource.due = 0 /\ a.state = "possibly_dispatched" /\ a.check = 0
    /\ IF live
       THEN SetRefreshed(o, [r |-> resource, a |-> [a EXCEPT !.check = attempts[o].lease]])
       ELSE SetRefreshed(o, Followed(resource, a))
    /\ UNCHANGED <<line, tasks, attempts, workers>>

(* tick of a waiting request whose time has come.                          *)
TickPromote(o) ==
    /\ resource.due = 0 /\ requests[o].state = "waiting" /\ requests[o].available = 0
    /\ SetRefreshed(o, [r |-> resource, a |-> [requests[o] EXCEPT !.available = None]])
    /\ UNCHANGED <<line, tasks, attempts, workers>>

(* tick of the first eligible request: offered when there is capacity.     *)
TickAdmit(o) ==
    /\ resource.due = 0 /\ Eligible(o) /\ o = First
    /\ Capacity(resource) > 0
    /\ SetRefreshed(o, [r |-> [resource EXCEPT !.offered = @ + 1],
                        a |-> [requests[o] EXCEPT !.state = "offered",
                                   !.revision = resource.revision,
                                   !.expires = resource.policy.offer_timeout]])
    /\ line' = Without(line, o)
    /\ tasks' = [tasks EXCEPT ![o[1]].ready = TRUE]
    /\ UNCHANGED <<attempts, workers>>

(* A pass that finds nothing to do, or whose candidate another transaction *)
(* has already settled.                                                    *)
TickIdle ==
    /\ resource.due = 0
    /\ resource' = [resource EXCEPT !.due = Least(Dues(resource, requests))]
    /\ UNCHANGED <<line, requests, tasks, attempts, workers>>

Less(n) == IF n \in {0, None} THEN n ELSE n - 1

(* Time passes, and with it the bucket fills.                              *)
Pass ==
    /\ resource' = [resource EXCEPT !.due = Less(@),
                        !.credit = Least({@ + resource.policy.numerator, Full(resource.policy)})]
    /\ requests' = [o \in Occurrences |->
           [requests[o] EXCEPT !.available = Less(@), !.expires = Less(@), !.check = Less(@)]]
    /\ attempts' = [o \in Occurrences |-> [attempts[o] EXCEPT !.lease = Less(@)]]
    /\ UNCHANGED <<line, tasks, workers>>

Tick(o) == TickOffer(o) \/ TickStarted(o) \/ TickPromote(o) \/ TickAdmit(o)

Next ==
    \/ Pass \/ TickIdle
    \/ \E p \in Policies : PutResource(p)
    \/ \E t \in Tasks :
          \/ Submit(t) \/ Claim(t) \/ ClaimStale(t) \/ LegacyClaim(t) \/ Renew(t)
          \/ \E confirmed \in BOOLEAN : Settle(t, confirmed)
          \/ ConfirmQuiescence(t) \/ Expire(t) \/ Cancel(t)
    \/ \E o \in Occurrences :
          \/ Work(o) \/ StartExisting(o) \/ StartStale(o) \/ StartGranted(o) \/ StartDenied(o)
          \/ Close(o) \/ Release(o) \/ Tick(o)

Spec == Init /\ [][Next]_vars

(* Time passes; the maintenance loop serves a due resource, by priority and *)
(* oldest first, so a request that is candidate again and again gets its    *)
(* turn; and the recovery loop expires lapsed attempts.                     *)
Fairness ==
    /\ WF_vars(Pass) /\ WF_vars(TickIdle)
    /\ \A o \in Occurrences : SF_vars(Candidate(o) /\ Tick(o))
    /\ \A t \in Tasks : WF_vars(Expire(t))

FairSpec == Spec /\ Fairness

-----------------------------------------------------------------------------
(* Types of all rows.                                                      *)
TypeOK ==
    /\ resource \in Resource
    /\ line \in Seq(Occurrences)
    /\ requests \in [Occurrences -> Request]
    /\ tasks \in [Tasks -> Task]
    /\ attempts \in [Occurrences -> Attempt]
    /\ workers \in [Occurrences -> Stage]

Count(states) == Cardinality({o \in Occurrences : requests[o].state \in states})

(* The resource's counters are its requests: offers of the current epoch,  *)
(* starts, and starts whose end is unknown.  Start, Close, expiry, policy  *)
(* change, cancellation, stale claims and the scheduler all move them in   *)
(* transactions of their own.                                              *)
CountersMatch ==
    /\ resource.offered =
           Cardinality({o \in Occurrences : Unstarted(requests[o])
                                            /\ requests[o].revision = resource.revision})
    /\ resource.started = Count({"possibly_dispatched", "unknown_occupied"})
    /\ resource.unknown = Count({"unknown_occupied"})

(* Every open offer is backed by a whole token, so the scheduler's "offers *)
(* exceed shadow credit" never stops the resource and Start never lacks a  *)
(* token.                                                                  *)
OffersAreBacked ==
    Metered(resource.policy) => resource.offered * resource.policy.period =< resource.credit

(* Whatever a worker may be executing is counted as started, until an      *)
(* operator takes the decision on itself.                                  *)
InvocationIsCounted ==
    \A o \in Occurrences :
        workers[o] \in {"granted", "running"} =>
            Occupied(requests[o]) \/ requests[o].state = "administratively_released"

(* The combination of fields that save insists on holds for every request: *)
(* no transaction, such as a cleanup, is refused by its own validation.    *)
RequestsAreValid == \A o \in Occurrences : Valid(requests[o])

(* A queued task always has a request of its next generation that waits,   *)
(* in the line, or is offered, and is published as ready exactly then: no  *)
(* claim finds it corrupt and no publication is left behind.               *)
QueuedIsAdmissible ==
    \A t \in Tasks : tasks[t].state = "queued" =>
        LET a == requests[Next_(t)] IN
        /\ a.state \in {"waiting", "offered"}
        /\ tasks[t].ready <=> a.state = "offered"
        /\ a.state = "waiting" <=> \E i \in DOMAIN line : line[i] = Next_(t)

(* An attempt returned free of charge never ran and never will, whatever   *)
(* Start is still under way.                                               *)
DeferredNeverRuns ==
    \A o \in Occurrences : attempts[o].state = "deferred" =>
        workers[o] \notin {"granted", "running"} /\ ~attempts[o].started /\ ~Startable(o)

(* The books of the resource agree with its requests, their tasks and what *)
(* workers do.                                                             *)
AdmissionSound ==
    /\ TypeOK /\ CountersMatch /\ OffersAreBacked /\ InvocationIsCounted
    /\ RequestsAreValid /\ QueuedIsAdmissible /\ DeferredNeverRuns

(* Occupancy only grows by offers within the policy in force, and a start  *)
(* never adds to it; a grant reaches a worker only from the transaction    *)
(* that charged it.                                                        *)
Growth ==
    LET now == resource.offered + resource.started
        then == resource'.offered + resource'.started
    IN  /\ then > now => then =< resource.policy.max_occupancy /\ resource'.started = resource.started
        /\ \A o \in Occurrences :
              workers[o] = "asked" /\ workers'[o] = "granted" =>
                  resource'.started = resource.started + 1
                  /\ ~requests[o].start /\ requests'[o].start

GrowthIsAdmitted == [][Growth]_vars

(* A request that waits is offered in the end, or is over, unless the      *)
(* policy is disabled or invocations nobody closed fill the resource.      *)
WaitingIsServed ==
    \A o \in Occurrences :
        requests[o].state = "waiting" ~>
            \/ requests[o].state # "waiting" \/ ~resource.policy.enabled
            \/ resource.started >= resource.policy.max_occupancy

=============================================================================
