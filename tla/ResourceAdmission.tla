-------------------------- MODULE ResourceAdmission --------------------------
(***************************************************************************)
(* Workflow runs that ask for a governed resource: a run parks until the   *)
(* scheduler offers it occupancy, the resumed activation turns the offer   *)
(* into one charged call with a single Start, and the source of that call, *)
(* or an operator, gives the occupancy back.  A protected request is one   *)
(* whose call is an approved provider operation, claimed in the same       *)
(* transaction that charges the resource.                                  *)
(*                                                                         *)
(* One resource and one request per run.  Every transaction locks run,     *)
(* resource and request before it samples the clock, so it is one step; a  *)
(* grant whose own transaction outlives its offer is rolled back to what   *)
(* the later step does.  Times are what is left until a deadline (0:       *)
(* passed), credit is refilled as time passes.  The clock does not step    *)
(* back here, so its high-water marks are always met.                      *)
(***************************************************************************)
EXTENDS ResourceRow, FiniteSets

CONSTANTS
    Runs,               \* workflow runs that use the resource
    Protected,          \* runs whose call is a provider operation
    Budgeted,           \* runs with a run budget, which may deny the call
    Policies,           \* ResourcePolicy values operators may set
    MaxRevisions,       \* bound: accepted policy revisions
    Timeouts,           \* timeouts of the waits programs ask for
    Lease,              \* an attempt's lease
    MaxActivations,     \* bound: activations of a run
    MaxAttempts         \* bound: attempts of a run's activations

Attempts == 1..MaxAttempts
Acts     == 0..MaxActivations

ResourceAssumption ==
    /\ {MaxActivations, MaxAttempts, Lease} \subseteq Nat \ {0} /\ MaxRevisions \in Nat
    /\ Timeouts \subseteq Nat /\ Protected \subseteq Runs /\ Budgeted \subseteq Runs
    /\ \A p \in Policies :
          /\ p.enabled \in BOOLEAN /\ p.max_occupancy \in Nat
          /\ {p.numerator, p.period, p.burst} \subseteq Nat
          /\ p.period > 0 => p.numerator > 0 /\ p.burst > 0
          /\ {p.offer_timeout, p.start_timeout} \subseteq Nat \ {0}

VARIABLES
    resource,   \* row of admission_resources
    requests,   \* requests[w]: row of admission_requests
    runs,       \* runs[w]: the run, its episode and its current activation
    rows,       \* rows[w]: when the episode's workflow_work is due; None: none open
    procs,      \* procs[w][n]: the program of attempt n
    dispatched  \* whether the provider operation has been dispatched by anyone

vars == <<resource, requests, runs, rows, procs, dispatched>>

RequestState ==
    {"none", "waiting", "offered", "awaiting_rewait", "possibly_dispatched",
     "unknown_occupied", "finished", "closed_before_start", "administratively_released"}

Offer    == [generation : Nat, revision : Nat, act : Acts, expires : Nat]
Resource == [revision : 1..(MaxRevisions + 1), policy : Policies, credit : Nat, offered : Nat,
             started : Nat, unknown : Nat, due : Nat \cup {None}, quarantined_due : Nat \cup {None}]
Request  == [state : RequestState, seq : Nat, deadline : Nat, offer : Offer, generation : Nat,
             source : Attempts \cup {None}, start_left : Nat, begun : BOOLEAN, finish : BOOLEAN,
             record : {"none", "existing", "source"}, report : {"none", "completed", "unknown"},
             denied : BOOLEAN, parking : Acts \cup {None}, check : Nat \cup {None}]
Selection == {"none", "offered", "provider", "finished", "closed", "needs_review"}
Run      == [state : {"Running", "Waiting", "Stopping", "Ended"}, act : Acts, until : Nat,
             wake : Selection, generation : Nat, attempt : 0..MaxAttempts, lease : Nat]
Proc     == [stage : {"none", "idle", "asked", "refused", "calling", "called", "reported", "lost"},
             act : Acts, generation : Nat, waited : Nat]

NoOffer   == [generation |-> 0, revision |-> 0, act |-> 0, expires |-> 0]
NoRequest == [state |-> "none", seq |-> 0, deadline |-> 0, offer |-> NoOffer, generation |-> 0,
              source |-> None, start_left |-> 0, begun |-> FALSE, finish |-> FALSE,
              record |-> "none", report |-> "none", denied |-> FALSE, parking |-> None,
              check |-> None]
NoProc    == [stage |-> "none", act |-> 0, generation |-> 0, waited |-> 0]

TypeOK ==
    /\ resource \in Resource
    /\ requests \in [Runs -> Request]
    /\ runs \in [Runs -> Run]
    /\ rows \in [Runs -> Nat \cup {None}]
    /\ procs \in [Runs -> [Attempts -> Proc]]
    /\ dispatched \in BOOLEAN

Init ==
    /\ \E p \in Policies :
          resource = [revision |-> 1, policy |-> p, credit |-> Full(p), offered |-> 0,
                      started |-> 0, unknown |-> 0, due |-> None, quarantined_due |-> None]
    /\ requests = [w \in Runs |-> NoRequest]
    /\ runs = [w \in Runs |-> [state |-> "Running", act |-> 0, until |-> 0, wake |-> "none",
                               generation |-> 0, attempt |-> 0, lease |-> 0]]
    /\ rows = [w \in Runs |-> None]
    /\ procs = [w \in Runs |-> [n \in Attempts |-> NoProc]]
    /\ dispatched = FALSE

-----------------------------------------------------------------------------
(* The rows a transaction of run w reads and writes, as one value.         *)
Store(w) == [r |-> resource, a |-> requests[w], run |-> runs[w], row |-> rows[w]]

Commit(w, s) ==
    /\ resource' = s.r
    /\ requests' = [requests EXCEPT ![w] = s.a]
    /\ runs' = [runs EXCEPT ![w] = s.run]
    /\ rows' = [rows EXCEPT ![w] = s.row]

(* Resource::wake.                                                         *)
Wake(r) == [r EXCEPT !.due = 0, !.quarantined_due = 0]

(* Only offers of the current policy revision are counted.                 *)
Unoffered(r, a) == [r EXCEPT !.offered = IF a.offer.revision = r.revision THEN @ - 1 ELSE @]

Stale(r, a) ==
    /\ a.state = "offered"
    /\ a.offer.revision # r.revision \/ a.offer.expires = 0 \/ ~r.policy.enabled

(* invalidate_offer.                                                       *)
Invalidated(s) ==
    IF Stale(s.r, s.a)
    THEN [s EXCEPT !.r = Wake(Unoffered(s.r, s.a)), !.a.state = "awaiting_rewait",
                   !.a.offer = NoOffer]
    ELSE s

Occupied(a) == a.state \in {"possibly_dispatched", "unknown_occupied"}

(* The occupancy of a call is given back.                                  *)
Vacated(r, a) ==
    [r EXCEPT !.started = @ - 1, !.unknown = IF a.state = "unknown_occupied" THEN @ - 1 ELSE @]

(* close_request: what has not started is closed, what may run is unknown. *)
Closed(s) ==
    CASE s.a.state = "offered" ->
           [s EXCEPT !.r = Wake(Unoffered(s.r, s.a)), !.a.state = "closed_before_start",
                     !.a.offer = NoOffer]
      [] s.a.state \in {"waiting", "awaiting_rewait"} ->
           [s EXCEPT !.r = Wake(s.r), !.a.state = "closed_before_start"]
      [] s.a.state = "possibly_dispatched" ->
           [s EXCEPT !.r = Wake([s.r EXCEPT !.unknown = @ + 1]), !.a.state = "unknown_occupied",
                     !.a.check = None]
      [] OTHER -> s

(* resolved: what a parked run can be told, if anything.                   *)
Resolved(a, until) ==
    CASE a.record # "none" -> "provider"
      [] a.record = "none" /\ a.state \in {"administratively_released", "closed_before_start"} -> "closed"
      [] a.record = "none" /\ a.state = "finished" -> "finished"
      [] a.record = "none" /\ Occupied(a) /\ until = 0 -> "needs_review"
      [] a.record = "none" /\ a.state \in {"waiting", "awaiting_rewait"} /\ until = 0 -> "closed"
      [] OTHER -> "none"

(* select: the episode and its timer close and the next activation carries *)
(* the selection; a request that never started closes with its wait.       *)
Selected(s, selection) ==
    [s EXCEPT !.r = Wake(s.r), !.row = None,
              !.a = [@ EXCEPT !.parking = None,
                        !.state = IF selection = "closed" /\ s.a.source = None
                                  THEN "closed_before_start" ELSE @,
                        !.offer = IF selection = "closed" THEN NoOffer ELSE @],
              !.run = [@ EXCEPT !.state = "Running", !.act = @ + 1, !.until = 0,
                                !.wake = selection, !.generation = s.a.offer.generation,
                                !.lease = 0]]

(* notify: a parked run's timer becomes due at once, and open again.       *)
Notified(s) == IF s.a.parking = None THEN s ELSE [s EXCEPT !.row = 0]

-----------------------------------------------------------------------------
(* Attempts of the current activation: one begins, and loses its authority *)
(* by expiry, cancellation or settlement.                                  *)
Live(w, n) == runs[w].attempt = n /\ runs[w].lease > 0

Begin(w) ==
    LET n == runs[w].attempt + 1 IN
    /\ runs[w].state = "Running" /\ runs[w].lease = 0 /\ n \in Attempts
    /\ runs' = [runs EXCEPT ![w].attempt = n, ![w].lease = Lease]
    /\ procs' = [procs EXCEPT ![w][n] = [stage |-> "idle", act |-> runs[w].act, waited |-> 0,
                                         generation |-> IF runs[w].wake = "offered"
                                                        THEN runs[w].generation ELSE 0]]
    /\ UNCHANGED <<resource, requests, rows, dispatched>>

Renew(w) ==
    /\ runs[w].lease \in 1..(Lease - 1)
    /\ runs' = [runs EXCEPT ![w].lease = Lease]
    /\ UNCHANGED <<resource, requests, rows, procs, dispatched>>

(* The program: it asks once, calls on the first answer if that grants and *)
(* comes in time, and reports while its worker still has control.  A call  *)
(* may go on after the attempt has lost its authority.                     *)
Step(w, n, from, to) ==
    /\ procs[w][n].stage = from
    /\ procs' = [procs EXCEPT ![w][n].stage = to]
    /\ UNCHANGED <<resource, requests, runs, rows, dispatched>>

Ask(w, n) ==
    /\ Live(w, n) /\ procs[w][n].generation > 0
    /\ Step(w, n, "idle", "asked")

ReceiveGrant(w, n) ==
    /\ requests[w].source = n /\ Live(w, n)
    /\ procs[w][n].waited < requests[w].start_left
    /\ Step(w, n, "asked", "calling")

Proceed(w, n) ==
    \/ Step(w, n, "asked", "refused")
    \/ Step(w, n, "calling", "lost")
    \/ Live(w, n) /\ Step(w, n, "calling", "called")

-----------------------------------------------------------------------------
(* What the activation decides, applied by a coordinator.                  *)
Settled(s) == [s EXCEPT !.run.lease = 0]

Next_seq == 1 + Cardinality({w \in Runs : requests[w].state # "none"})

(* install_wait, once the request is known: resolved at once, or parked    *)
(* with a timer.                                                           *)
Installed(s, t) ==
    LET until == IF s.a.source # None THEN t ELSE Least({t, s.a.deadline})
        p     == [s EXCEPT !.r = Wake(s.r), !.a.parking = s.run.act, !.row = until,
                           !.run = [@ EXCEPT !.state = "Waiting", !.until = until]]
        told  == Resolved(p.a, until)
    IN  IF told = "none" THEN p ELSE Selected(p, told)

(* A request of its own.  The claim that would refuse a protected one is   *)
(* of the run's own approval, which only the request's Start can make.     *)
WaitNew(w, t) ==
    /\ runs[w].act < MaxActivations
    /\ runs[w].lease > 0 /\ requests[w].state = "none"
    /\ Commit(w, Installed([Settled(Store(w)) EXCEPT
                               !.a = [NoRequest EXCEPT !.state = "waiting", !.seq = Next_seq,
                                                       !.deadline = t]], t))
    /\ UNCHANGED <<procs, dispatched>>

(* Waiting again: an unused offer is given up.                             *)
Rewaited(s) ==
    LET i == Invalidated(s)
        g == IF i.a.state = "offered"
             THEN [i EXCEPT !.r = Unoffered(i.r, i.a), !.a.offer = NoOffer] ELSE i
    IN  IF g.a.state \in {"offered", "awaiting_rewait"} THEN [g EXCEPT !.a.state = "waiting"] ELSE g

WaitExisting(w, t) ==
    /\ runs[w].act < MaxActivations
    /\ runs[w].lease > 0 /\ requests[w].state # "none" /\ requests[w].parking = None
    /\ Commit(w, Installed(Rewaited(Settled(Store(w))), t))
    /\ UNCHANGED <<procs, dispatched>>

(* drain: a batch of the run's open requests, here all of them.            *)
Drained(s) ==
    IF s.a.state \in {"waiting", "offered", "possibly_dispatched"}
    THEN [Closed(s) EXCEPT !.a.parking = None] ELSE s

Complete(w) ==
    /\ runs[w].lease > 0
    /\ Commit(w, [Drained(Settled(Store(w))) EXCEPT !.run.state = "Ended"])
    /\ UNCHANGED <<procs, dispatched>>

(* close_wait.                                                             *)
WaitClosed(s) ==
    IF s.run.state = "Waiting"
    THEN [Closed(s) EXCEPT !.a.parking = None, !.row = None, !.run.until = 0] ELSE s

(* Cancellation, or a failed activation: the wait closes first, children   *)
(* and requests are drained by later work.                                 *)
Stop(w) ==
    /\ runs[w].state \in {"Running", "Waiting"}
    /\ Commit(w, [WaitClosed(Settled(Store(w))) EXCEPT !.run.state = "Stopping"])
    /\ UNCHANGED <<procs, dispatched>>

Drain(w) ==
    /\ runs[w].state = "Stopping"
    /\ Commit(w, [Drained(Store(w)) EXCEPT !.run.state = "Ended"])
    /\ UNCHANGED <<procs, dispatched>>

(* apply_wait on a due timer row, which is then processed.                 *)
ApplyWait(w) ==
    LET told == Resolved(requests[w], runs[w].until) IN
    /\ rows[w] = 0
    /\ Commit(w, IF told = "none" THEN [Store(w) EXCEPT !.row = None]
                 ELSE Selected(Store(w), told))
    /\ UNCHANGED <<procs, dispatched>>

-----------------------------------------------------------------------------
(* source_check_at: until when the source may still be executing.          *)
CheckAt(w, n) == IF Live(w, n) THEN runs[w].lease ELSE None

Waiting == {w \in Runs : requests[w].state = "waiting"}
First(w) == \A v \in Waiting : requests[w].seq =< requests[v].seq

(* Mutant of RefreshDue: checks of running sources are forgotten.          *)
RefreshDueIdle(r, reqs) ==
    LET at   == {reqs[w].offer.expires : w \in {v \in Runs : reqs[v].state = "offered"}}
                \cup {reqs[w].deadline : w \in {v \in Runs : reqs[v].state = "waiting"}}
                \cup {0 : w \in {v \in Runs : reqs[v].state = "offered" /\ reqs[v].offer.revision < r.revision}}
        more == IF r.policy.enabled /\ \E w \in Runs : reqs[w].state = "waiting"
                THEN IF Capacity(r) > 0 THEN {0} ELSE NextRefill(r)
                ELSE {}
    IN  [r EXCEPT !.quarantined_due = Least(at), !.due = Least(at \cup more)]

(* refresh_due.                                                            *)
RefreshDue(r, reqs) ==
    LET In(state) == {w \in Runs : reqs[w].state = state}
        at   == {0 : w \in {v \in In("offered") : reqs[v].offer.revision < r.revision}}
                \cup {reqs[w].offer.expires : w \in In("offered")}
                \cup ({reqs[w].check : w \in In("possibly_dispatched")} \ {None})
                \cup {reqs[w].deadline : w \in In("waiting")}
        more == IF r.policy.enabled /\ In("waiting") # {}
                THEN IF Capacity(r) > 0 THEN {0} ELSE NextRefill(r)
                ELSE {}
    IN  [r EXCEPT !.quarantined_due = Least(at), !.due = Least(at \cup more)]

(* The scheduler offers capacity to the oldest waiting request.            *)
Offered(s) ==
    LET g == s.a.generation + 1
    IN  Selected([s EXCEPT !.r.offered = @ + 1, !.a.state = "offered", !.a.generation = g,
                     !.a.offer = [generation |-> g, revision |-> s.r.revision, act |-> s.run.act + 1,
                                  expires |-> Least({s.r.policy.offer_timeout, s.a.deadline, s.run.until})]],
                 "offered")

(* admission_tick, on a candidate that some earlier look has chosen.       *)
Ticked(w, dispatch) ==
    LET s    == Store(w)
        told == Resolved(s.a, s.run.until)
    IN  CASE s.run.state \in {"Stopping", "Ended"} -> [Closed(s) EXCEPT !.a.parking = None]
          [] s.run.state \in {"Running", "Waiting"} /\ Stale(s.r, s.a) -> Invalidated(s)
          [] /\ s.run.state \in {"Running", "Waiting"}
             /\ s.a.state = "possibly_dispatched" /\ s.a.check \in {None, 0} ->
               IF CheckAt(w, s.a.source) = None
               THEN [s EXCEPT !.r.unknown = @ + 1, !.a.state = "unknown_occupied", !.a.check = None]
               ELSE [s EXCEPT !.a.check = CheckAt(w, s.a.source)]
          [] s.run.state \in {"Running", "Waiting"} /\ s.a.state = "waiting" ->
               IF told # "none" THEN Selected(s, told)
               ELSE IF dispatch /\ Capacity(s.r) > 0 /\ First(w) THEN Offered(s) ELSE s
          [] OTHER -> s

Tick(w, dispatch) ==
    LET s == Ticked(w, dispatch) IN
    /\ requests[w].state # "none"
    /\ Commit(w, [s EXCEPT !.r = RefreshDue(s.r, [requests EXCEPT ![w] = s.a])])
    /\ UNCHANGED <<procs, dispatched>>

-----------------------------------------------------------------------------
(* A Start that was sent once may be delivered late.                       *)
Sent(w, n) == procs[w][n].stage \notin {"none", "idle"}

(* start_admission for an offer that has gone: nothing but that is saved.  *)
StartStale(w, n) ==
    /\ Sent(w, n) /\ ~requests[w].begun
    /\ Stale(resource, requests[w])
    /\ Commit(w, Invalidated(Store(w)))
    /\ UNCHANGED <<procs, dispatched>>

(* The offer is the one the activation was resumed with, and check_live.   *)
Eligible(w, n) ==
    LET a == requests[w] IN
    /\ Sent(w, n) /\ ~a.begun
    /\ a.state = "offered" /\ ~Stale(resource, a) /\ a.deadline > 0
    /\ a.offer.generation = procs[w][n].generation /\ a.offer.act = procs[w][n].act
    /\ runs[w].state = "Running" /\ runs[w].act = procs[w][n].act /\ Live(w, n)

(* An offer becomes occupancy and spends its token.                        *)
Charged(r) == [r EXCEPT !.offered = @ - 1, !.started = @ + 1, !.credit = @ - r.policy.period]

(* start_admission, start_provider_admission: the grant.                   *)
StartGranted(w, n) ==
    LET s == Store(w) IN
    /\ Eligible(w, n)
    /\ w \in Protected => ~dispatched
    /\ Commit(w, [s EXCEPT
          !.r = Wake(Charged(s.r)),
          !.a = [@ EXCEPT !.state = "possibly_dispatched", !.offer = NoOffer, !.source = n,
                          !.start_left = Least({s.r.policy.start_timeout, s.run.lease}),
                          !.begun = TRUE, !.check = CheckAt(w, n),
                          !.record = IF w \in Protected THEN "source" ELSE @]])
    /\ dispatched' = (dispatched \/ w \in Protected)
    /\ UNCHANGED procs

(* The provider operation exists already: neither token nor slot is used.  *)
StartExistingOperation(w, n) ==
    LET s == Store(w) IN
    /\ w \in Protected /\ dispatched /\ Eligible(w, n)
    /\ Commit(w, [s EXCEPT !.r = Wake(Unoffered(s.r, s.a)),
                           !.a = [@ EXCEPT !.state = "closed_before_start", !.offer = NoOffer,
                                           !.begun = TRUE, !.record = "existing"]])
    /\ UNCHANGED <<procs, dispatched>>

(* close_budget_offer: the run budget denies the call.                     *)
StartDenied(w, n) ==
    LET s == Store(w) IN
    /\ w \in Budgeted /\ Eligible(w, n)
    /\ w \in Protected => ~dispatched
    /\ Commit(w, Notified([s EXCEPT !.r = Wake(Unoffered(s.r, s.a)),
                           !.a = [@ EXCEPT !.state = "closed_before_start", !.offer = NoOffer,
                                           !.begun = TRUE, !.denied = TRUE]]))
    /\ UNCHANGED <<procs, dispatched>>

(* Another run dispatches the same provider operation.                     *)
RivalDispatch ==
    /\ Protected # {} /\ ~dispatched
    /\ dispatched' = TRUE
    /\ UNCHANGED <<resource, requests, runs, rows, procs>>

(* finish_admission and report_provider_admission: evidence of the source  *)
(* is kept even after an operator has released it.                         *)
Reported(s, completion) ==
    LET ends     == completion = "completed"
        released == s.a.state = "administratively_released"
        r        == IF released THEN s.r
                    ELSE IF ends THEN Vacated(s.r, s.a)
                    ELSE [s.r EXCEPT !.unknown = IF s.a.state = "unknown_occupied" THEN @ ELSE @ + 1]
        state    == IF released THEN s.a.state ELSE IF ends THEN "finished" ELSE "unknown_occupied"
    IN  [s EXCEPT !.r = Wake(r),
                  !.a = [@ EXCEPT !.state = state, !.check = None,
                                  !.finish = s.a.record = "none",
                                  !.report = IF s.a.record = "none" THEN @ ELSE completion]]

(* The report is sent until it is accepted once; repeats change nothing.   *)
Report(w, n, completion) ==
    LET a == requests[w] IN
    /\ procs[w][n].stage = "called" /\ a.source = n
    /\ ~a.finish /\ a.report = "none"
    /\ w \notin Protected => completion = "completed"
    /\ Occupied(a) \/ a.state = "administratively_released"
    /\ Commit(w, Notified(Reported(Store(w), completion)))
    /\ procs' = [procs EXCEPT ![w][n].stage = "reported"]
    /\ UNCHANGED dispatched

-----------------------------------------------------------------------------
(* release_admission: an operator who has seen this source, in this state. *)
Release(w) ==
    LET s == Store(w) IN
    /\ Occupied(s.a)
    /\ Commit(w, Notified([s EXCEPT !.r = Wake(Vacated(s.r, s.a)),
                              !.a.state = "administratively_released", !.a.check = None]))
    /\ UNCHANGED <<procs, dispatched>>

(* inspect_admission.                                                      *)
Inspect(w) ==
    /\ Stale(resource, requests[w])
    /\ Commit(w, Invalidated(Store(w)))
    /\ UNCHANGED <<procs, dispatched>>

(* put_resource: offers belong to a policy revision, started debt stays.   *)
PutResource(p) ==
    /\ resource.revision =< MaxRevisions
    /\ resource' = Wake([resource EXCEPT !.revision = @ + 1, !.policy = p, !.offered = 0,
                             !.credit = Converted(resource.policy, p, resource.credit)])
    /\ UNCHANGED <<requests, runs, rows, procs, dispatched>>

Less(t) == IF t \in {0, None} THEN t ELSE t - 1

(* Time passes: deadlines come closer and the rate is credited.            *)
Pass ==
    /\ resource' = [resource EXCEPT
          !.due = Less(@), !.quarantined_due = Less(@),
          !.credit = Least({@ + resource.policy.numerator, Full(resource.policy)})]
    /\ requests' = [w \in Runs |-> [requests[w] EXCEPT !.deadline = Less(@), !.check = Less(@),
                                        !.offer.expires = Less(@)]]
    /\ runs' = [w \in Runs |-> [runs[w] EXCEPT !.until = Less(@), !.lease = Less(@)]]
    /\ rows' = [w \in Runs |-> Less(rows[w])]
    /\ procs' = [w \in Runs |-> [n \in Attempts |->
          [procs[w][n] EXCEPT !.waited = IF procs[w][n].stage = "asked" /\ @ < Lease THEN @ + 1 ELSE @]]]
    /\ UNCHANGED dispatched
    /\ <<resource, requests, runs, rows, procs>>' # <<resource, requests, runs, rows, procs>>

Next ==
    \/ \E w \in Runs :
          \/ Begin(w) \/ Renew(w) \/ Complete(w) \/ Stop(w) \/ Drain(w) \/ ApplyWait(w)
          \/ Release(w) \/ Inspect(w)
          \/ \E t \in Timeouts : WaitNew(w, t) \/ WaitExisting(w, t)
          \/ \E dispatch \in BOOLEAN : Tick(w, dispatch)
          \/ \E n \in Attempts :
                \/ Ask(w, n) \/ ReceiveGrant(w, n) \/ Proceed(w, n)
                \/ StartStale(w, n) \/ StartGranted(w, n)
                \/ StartExistingOperation(w, n) \/ StartDenied(w, n)
                \/ \E c \in {"completed", "unknown"} : Report(w, n, c)
    \/ \E p \in Policies : PutResource(p)
    \/ RivalDispatch \/ Pass

Spec == Init /\ [][Next]_vars

-----------------------------------------------------------------------------
Count(P(_)) == Cardinality({w \in Runs : P(requests[w])})

(* The counters of the row are the requests they count, though offers go   *)
(* stale with every policy and calls end in four ways.                     *)
CountersMatch ==
    /\ resource.offered = Count(LAMBDA a : a.state = "offered" /\ a.offer.revision = resource.revision)
    /\ resource.started = Count(Occupied)
    /\ resource.unknown = Count(LAMBDA a : a.state = "unknown_occupied")

(* Unstarted offers never exceed the tokens there are, so that no Start    *)
(* fails for want of one.                                                  *)
TokensBacked ==
    Metered(resource.policy) => resource.offered =< Tokens(resource)

(* AdmissionSnapshot::validate: what every later read of the row checks.   *)
Valid(a) ==
    /\ a.denied => a.state = "closed_before_start"
    /\ a.state = "offered" <=> a.offer # NoOffer
    /\ a.state = "offered" => a.offer.expires =< a.deadline
    /\ a.state \in {"waiting", "awaiting_rewait", "closed_before_start", "offered"} =>
          a.source = None /\ ~a.finish
    /\ Occupied(a) => a.source # None /\ ~a.finish /\ a.report # "completed"
    /\ a.state = "finished" => a.source # None /\ (a.finish \/ a.report = "completed")
    /\ a.state = "administratively_released" => a.source # None
    /\ a.record = "source" => a.source # None
    /\ a.record = "existing" => a.state = "closed_before_start"
    /\ a.state = "possibly_dispatched" => a.report = "none"

(* A parked run and its request know each other; a request that waits has  *)
(* a run parked for it.                                                    *)
ParkingAgrees ==
    \A w \in Runs :
       /\ runs[w].state = "Waiting" <=> requests[w].parking # None
       /\ runs[w].state = "Waiting" => requests[w].parking = runs[w].act
       /\ requests[w].state = "waiting" => runs[w].state = "Waiting"
       /\ requests[w].state \in {"offered", "awaiting_rewait"} => requests[w].parking = None

(* No wake-up is lost: a parked run's timer is open, fires with its        *)
(* deadline, and is due as soon as there is something to tell.             *)
WakeStays ==
    \A w \in Runs : runs[w].state = "Waiting" =>
       /\ rows[w] # None /\ rows[w] =< runs[w].until
       /\ Resolved(requests[w], 1) # "none" => rows[w] = 0

(* The scheduler comes back in time: to offers that lapse, to calls whose  *)
(* owner may be gone, to waits that end, and to capacity for those who     *)
(* wait.                                                                   *)
DueCovers ==
    LET Within(due, t) == due # None /\ due =< t IN
    /\ \A w \in Runs :
          LET a == requests[w] IN
          \A due \in {resource.due, resource.quarantined_due} :
             /\ a.state = "offered" =>
                   Within(due, IF a.offer.revision < resource.revision THEN 0 ELSE a.offer.expires)
             /\ a.state = "possibly_dispatched" /\ a.check # None => Within(due, a.check)
             /\ a.state = "waiting" => Within(due, a.deadline)
    /\ Waiting # {} /\ Capacity(resource) > 0 => Within(resource.due, 0)

(* A call is made by the program that the charging transaction granted,    *)
(* and holds occupancy until its source or an operator gives it back.      *)
CallsAreCharged ==
    \A w \in Runs, n \in Attempts :
       procs[w][n].stage = "calling" =>
          /\ requests[w].source = n
          /\ Occupied(requests[w]) \/ requests[w].state = "administratively_released"

ResourceSound ==
    /\ TypeOK /\ CountersMatch /\ TokensBacked /\ (\A w \in Runs : Valid(requests[w]))
    /\ ParkingAgrees /\ WakeStays /\ DueCovers /\ CallsAreCharged

(* Occupancy grows only by one offered request, within the policy it was   *)
(* offered under; and what is recorded of a call stays: its source, its    *)
(* evidence, a denial.                                                     *)
Growth ==
    /\ resource'.started + resource'.offered > resource.started + resource.offered =>
          resource'.started + resource'.offered =< resource'.policy.max_occupancy
    /\ resource'.started > resource.started => resource'.started =< resource'.policy.max_occupancy
    /\ \A w \in Runs :
          LET a == requests[w]  b == requests'[w] IN
          /\ a.source # None => b.source = a.source /\ (Occupied(b) => Occupied(a))
          /\ a.finish => b.finish
          /\ a.report # "none" => b.report = a.report
          /\ a.denied => b.denied
==============================================================================
