-------------------------- MODULE CompletionDelivery --------------------------
(***************************************************************************)
(* Completion notifications: a subscription is activated in the            *)
(* transaction that ends its task or workflow, and dispatchers lease,      *)
(* post and settle the activated ones until the receiver confirms or the   *)
(* attempts of the generation are used up.                                 *)
(*                                                                         *)
(* Time is a choice: a retry delay, a lease, a schedule's pause may run    *)
(* out at any step, so that a suspended dispatcher is covered as well.     *)
(***************************************************************************)
EXTENDS Integers, Sequences, FiniteSets, FiniteSetsExt

CONSTANTS
    Targets,        \* tasks and workflows
    Outcomes,       \* how a target may end
    Keys,           \* idempotency keys
    N,              \* destinations are 1..N, in the dispatcher's order
    Bindings,       \* endpoint identities an operator may configure
    Dispatchers,    \* orchestrator processes
    None,
    MaxAttempts,    \* COMPLETION_MAX_ATTEMPTS
    MaxGeneration,  \* COMPLETION_MAX_GENERATION
    MaxPerTarget,   \* MAX_COMPLETION_SUBSCRIPTIONS
    PerDestination, \* leases of a batch
    MaxBatches,     \* GLOBAL_IN_FLIGHT / PER_DESTINATION
    MaxStops        \* bound: crashes and shutdowns of a dispatcher

Dests == 1..N
Subs  == Targets \X Keys

CompletionAssumption ==
    /\ {N, MaxAttempts, MaxGeneration, MaxPerTarget, PerDestination, MaxBatches} \subseteq Nat \ {0}
    /\ MaxStops \in Nat /\ None \notin Bindings \cup Outcomes

VARIABLES
    outcome,    \* outcome[t]: None, or how the target ended
    rows,       \* completion_subscriptions, by target and key
    bound,      \* completion_destinations: the binding of a destination
    disp,       \* dispatcher processes
    batch,      \* batch[d][n]: the batch of a destination a dispatcher has under way
    sched,      \* sched[d][n]: what is left of the pause before the next batch
    posts,      \* observer: requests sent per subscription
    acked       \* observer: (subscription, attempt) the receiver answered with success

vars == <<outcome, rows, bound, disp, batch, sched, posts, acked>>

Idle     == [stage |-> "idle", leases |-> <<>>]
Absent   == [state |-> "absent"]
Live     == {s \in Subs : rows[s] # Absent}

(* CompletionSubscription; next_attempt_at and the lease are kept as what  *)
(* is left of them, the lease token as the number of the attempt.          *)
Subscription ==
    [dest : Dests, state : {"waiting", "pending", "retrying", "delivering", "delivered", "exhausted"},
     gen : 1..MaxGeneration, attempts : 0..MaxAttempts, total : Nat,
     next : {None, "later", "now"}, lease : {None, "held", "lapsed"}, token : Nat,
     event : Outcomes \cup {None}]

(* CompletionSubscription::validate: what every read of a row insists on.  *)
Valid(r) ==
    /\ r \in Subscription
    /\ r.attempts =< r.total /\ r.total =< r.gen * MaxAttempts
    /\ (r.event = None) = (r.state = "waiting")
    /\ (r.next # None) = (r.state \in {"pending", "retrying"})
    /\ (r.lease # None) = (r.state = "delivering")
    /\ CASE r.state = "waiting"    -> r.total = 0 /\ r.gen = 1
         [] r.state = "pending"    -> r.attempts = 0
         [] r.state = "retrying"   -> r.attempts \in 1..(MaxAttempts - 1)
         [] r.state = "exhausted"  -> r.attempts = MaxAttempts
         [] OTHER                  -> r.attempts > 0

Init ==
    /\ outcome = [t \in Targets |-> None]
    /\ rows = [s \in Subs |-> Absent]
    /\ bound = [n \in Dests |-> None]
    /\ disp = [d \in Dispatchers |-> [phase |-> "down", binding |-> <<>>, cursor |-> 1, stops |-> 0]]
    /\ batch = [d \in Dispatchers |-> [n \in Dests |-> Idle]]
    /\ sched = [d \in Dispatchers |-> [n \in Dests |-> "ready"]]
    /\ posts = [s \in Subs |-> 0]
    /\ acked = {}

------------------------------------------------------------------------------
(* The store.                                                              *)

(* subscribe_completion_once, under the lock of the target: a repetition   *)
(* changes nothing, another command under the same key is a conflict.      *)
Subscribe(t, k, n) ==
    /\ rows[<<t, k>>] = Absent
    /\ bound[n] # None
    /\ Cardinality({s \in Live : s[1] = t}) < MaxPerTarget
    /\ rows' = [rows EXCEPT ![<<t, k>>] =
           [dest |-> n, state |-> IF outcome[t] = None THEN "waiting" ELSE "pending",
            gen |-> 1, attempts |-> 0, total |-> 0,
            next |-> IF outcome[t] = None THEN None ELSE "now",
            lease |-> None, token |-> 0, event |-> outcome[t]]]
    /\ UNCHANGED <<outcome, bound, disp, batch, sched, posts, acked>>

(* task_terminal, workflow_terminal and activate, in the transaction that  *)
(* ends the target; the event is task_completion_event or                  *)
(* workflow_completion_event of the final snapshot.                        *)
Terminalize(t, o) ==
    /\ outcome[t] = None
    /\ outcome' = [outcome EXCEPT ![t] = o]
    /\ rows' = [s \in Subs |->
           IF s[1] = t /\ rows[s] # Absent /\ rows[s].state = "waiting"
           THEN [rows[s] EXCEPT !.state = "pending", !.next = "now", !.event = o]
           ELSE rows[s]]
    /\ UNCHANGED <<bound, disp, batch, sched, posts, acked>>

(* Mutant of Retry: the attempts begin again within the same generation.   *)
RetryInGeneration(s) ==
    /\ s \in Live /\ rows[s].state = "exhausted"
    /\ rows[s].gen < MaxGeneration
    /\ rows' = [rows EXCEPT ![s].state = "pending", ![s].attempts = 0, ![s].next = "now"]
    /\ UNCHANGED <<outcome, bound, disp, batch, sched, posts, acked>>

(* retry_completion_once with the current generation; with an older one it *)
(* only reports the row, so that a repeated request starts nothing twice.  *)
Retry(s) ==
    /\ s \in Live /\ rows[s].state = "exhausted"
    /\ rows[s].gen < MaxGeneration
    /\ rows' = [rows EXCEPT ![s].state = "pending", ![s].gen = @ + 1,
                            ![s].attempts = 0, ![s].next = "now"]
    /\ UNCHANGED <<outcome, bound, disp, batch, sched, posts, acked>>

(* Mutant of Due: a lease that ran out is not taken over.                  *)
DueScheduled(n) == {s \in Live : rows[s].dest = n /\ "now" = rows[s].next}

(* Rows lease_completions_once may take for destination n.                 *)
Due(n) == {s \in Live : rows[s].dest = n /\ "now" = rows[s].next}
          \cup {s \in Live : rows[s].dest = n /\ "lapsed" = rows[s].lease}

(* The UPDATE of completion_leases.sql.                                    *)
Leased(r) ==
    IF r.attempts >= MaxAttempts
    THEN [r EXCEPT !.state = "exhausted", !.next = None, !.lease = None, !.token = 0]
    ELSE [r EXCEPT !.state = "delivering", !.next = None, !.lease = "held",
                   !.attempts = @ + 1, !.total = @ + 1, !.token = r.total + 1]

(* complete_deliveries_once applies an outcome only to the lease it is of. *)
Current(s, l) ==
    /\ rows[s].state = "delivering" /\ rows[s].gen = l.gen
    /\ rows[s].token = l.token /\ rows[s].lease = "held"

(* The row after an outcome.                                               *)
Settled(r, o) ==
    LET free == [r EXCEPT !.lease = None, !.token = 0] IN
    IF o = "confirmed" THEN [free EXCEPT !.state = "delivered"]
    ELSE IF r.attempts >= MaxAttempts THEN [free EXCEPT !.state = "exhausted"]
    ELSE [free EXCEPT !.state = "retrying", !.next = "later"]

(* Time: the delay of completion_retry_delay_ms passes, a lease runs out,  *)
(* a schedule's pause ends.                                                *)
DelayPasses(s) ==
    /\ s \in Live /\ rows[s].next = "later"
    /\ rows' = [rows EXCEPT ![s].next = "now"]
    /\ UNCHANGED <<outcome, bound, disp, batch, sched, posts, acked>>

LeaseLapses(s) ==
    /\ s \in Live /\ rows[s].lease = "held"
    /\ rows' = [rows EXCEPT ![s].lease = "lapsed"]
    /\ UNCHANGED <<outcome, bound, disp, batch, sched, posts, acked>>

PauseEnds(d, n) ==
    /\ disp[d].phase = "running" /\ sched[d][n] = "paused"
    /\ sched' = [sched EXCEPT ![d][n] = "ready"]
    /\ UNCHANGED <<outcome, rows, bound, disp, batch, posts, acked>>

------------------------------------------------------------------------------
(* The dispatcher.                                                         *)

Active(d) == {n \in Dests : batch[d][n] # Idle}

(* configure_completion_destination_once: the first binding stays.         *)
Configured(b) == [n \in Dests |-> IF bound[n] = None THEN b[n] ELSE bound[n]]

(* A process starts: its destinations are configured one after the other,  *)
(* and a binding other than the recorded one (check_destination) ends it.  *)
Start(d, b) ==
    /\ disp[d].phase = "down"
    /\ bound' = Configured(b)
    /\ disp' = [disp EXCEPT ![d] =
           [phase |-> IF bound' = b THEN "running" ELSE "down", binding |-> b,
            cursor |-> 1, stops |-> @.stops]]
    /\ sched' = [sched EXCEPT ![d] = [n \in Dests |-> "ready"]]
    /\ UNCHANGED <<outcome, rows, batch, posts, acked>>

(* The process dies with its batches; the leases stay in the store.        *)
Crash(d) ==
    /\ disp[d].phase # "down" /\ disp[d].stops < MaxStops
    /\ disp' = [disp EXCEPT ![d].phase = "down", ![d].stops = @ + 1]
    /\ batch' = [batch EXCEPT ![d] = [n \in Dests |-> Idle]]
    /\ UNCHANGED <<outcome, rows, bound, sched, posts, acked>>

(* Shutdown, or a batch that failed for another reason than an unavailable *)
(* store: no new batch, and the end once those under way are done.         *)
Shutdown(d) ==
    /\ disp[d].phase = "running" /\ disp[d].stops < MaxStops
    /\ disp' = [disp EXCEPT ![d].phase = "draining", ![d].stops = @ + 1]
    /\ UNCHANGED <<outcome, rows, bound, batch, sched, posts, acked>>

Drained(d) ==
    /\ disp[d].phase = "draining" /\ Active(d) = {}
    /\ disp' = [disp EXCEPT ![d].phase = "down"]
    /\ UNCHANGED <<outcome, rows, bound, batch, sched, posts, acked>>

Position(d, n) == (n + N - disp[d].cursor) % N

(* The cursor after the loop, which leaves early when the room is used up. *)
NextCursor(d, chosen, full) ==
    LET last == CHOOSE n \in chosen : \A k \in chosen : Position(d, k) =< Position(d, n)
    IN  IF full THEN (last % N) + 1 ELSE disp[d].cursor

(* The loop at the head of run: ready destinations without a batch get one *)
(* in rotating order, as far as there is room.                             *)
Spawn(d) ==
    LET ready  == {n \in Dests \ Active(d) : sched[d][n] = "ready"}
        room   == MaxBatches - Cardinality(Active(d))
        chosen == {n \in ready : Cardinality({k \in ready : Position(d, k) < Position(d, n)}) < room}
    IN
    /\ disp[d].phase = "running"
    /\ chosen # {}
    /\ batch' = [batch EXCEPT ![d] = [n \in Dests |->
           IF n \in chosen THEN [stage |-> "leasing", leases |-> <<>>] ELSE @[n]]]
    /\ disp' = [disp EXCEPT ![d].cursor = NextCursor(d, chosen, Cardinality(ready) >= room)]
    /\ UNCHANGED <<outcome, rows, bound, sched, posts, acked>>

(* The join of a batch: a full one is followed at once, another one after  *)
(* a pause, and so is one that found the store unavailable.                *)
Joined(d, n, full) ==
    /\ batch' = [batch EXCEPT ![d][n] = Idle]
    /\ sched' = [sched EXCEPT ![d][n] = IF full THEN "ready" ELSE "paused"]

(* lease_completions, at most PerDestination rows; the reply may be lost,  *)
(* and then nobody sends what was leased.                                  *)
Lease(d, n) ==
    /\ batch[d][n].stage = "leasing"
    /\ \E taken \in kSubset(Min({PerDestination, Cardinality(Due(n))}), Due(n)) :
          LET sent == {s \in taken : Leased(rows[s]).state = "delivering"} IN
          /\ rows' = [s \in Subs |-> IF s \in taken THEN Leased(rows[s]) ELSE rows[s]]
          /\ \/ /\ sent # {}
                /\ batch' = [batch EXCEPT ![d][n] =
                       [stage |-> "sending", leases |-> [s \in sent |->
                           [gen |-> rows[s].gen, token |-> Leased(rows[s]).token, outcome |-> None]]]]
                /\ UNCHANGED sched
             \/ (sent = {} \/ taken # {}) /\ Joined(d, n, FALSE)
    /\ UNCHANGED <<outcome, bound, disp, posts, acked>>

(* deliver_one: a response in time counts, anything else is a retry whose  *)
(* effect at the receiver is unknown.                                      *)
Post(d, n, s) ==
    /\ batch[d][n].stage = "sending" /\ s \in DOMAIN batch[d][n].leases
    /\ batch[d][n].leases[s].outcome = None
    /\ posts' = [posts EXCEPT ![s] = @ + 1]
    /\ \E reply \in {"confirmed", "retry"} :
          /\ batch' = [batch EXCEPT ![d][n].leases[s].outcome = reply]
          /\ acked' = IF reply = "confirmed"
                      THEN acked \cup {<<s, batch[d][n].leases[s].token, disp[d].binding[n]>>}
                      ELSE acked
    /\ UNCHANGED <<outcome, rows, bound, disp, sched>>

(* complete_deliveries for the whole batch; its reply may be lost.         *)
Settle(d, n) ==
    LET b == batch[d][n] IN
    /\ b.stage = "sending"
    /\ \A s \in DOMAIN b.leases : b.leases[s].outcome # None
    /\ rows' = [s \in Subs |->
           IF s \in DOMAIN b.leases /\ Current(s, b.leases[s])
           THEN Settled(rows[s], b.leases[s].outcome) ELSE rows[s]]
    /\ \E full \in {Cardinality(DOMAIN b.leases) = PerDestination, FALSE} : Joined(d, n, full)
    /\ UNCHANGED <<outcome, bound, disp, posts, acked>>

(* The batch ends unsettled: its deadline passes or the store is           *)
(* unavailable.                                                            *)
Abandon(d, n) ==
    /\ batch[d][n] # Idle
    /\ Joined(d, n, FALSE)
    /\ UNCHANGED <<outcome, rows, bound, disp, posts, acked>>

BatchStep(d) == \E n \in Dests : Lease(d, n) \/ Settle(d, n) \/ (\E s \in Subs : Post(d, n, s))

Next ==
    \/ \E t \in Targets, k \in Keys, n \in Dests : Subscribe(t, k, n)
    \/ \E t \in Targets, o \in Outcomes : Terminalize(t, o)
    \/ \E s \in Subs : Retry(s) \/ DelayPasses(s) \/ LeaseLapses(s)
    \/ \E d \in Dispatchers :
          \/ \E b \in [Dests -> Bindings] : Start(d, b)
          \/ Crash(d) \/ Shutdown(d) \/ Drained(d) \/ Spawn(d) \/ BatchStep(d)
          \/ \E n \in Dests : PauseEnds(d, n) \/ Abandon(d, n)

Spec == Init /\ [][Next]_vars

(* A process that keeps running runs its loop and its batches, timers run  *)
(* out, and the supervisor starts a process with the recorded bindings.    *)
(* A batch is not abandoned for ever: the store answers and a receiver is  *)
(* heard or given up.                                                      *)
Fairness ==
    /\ \A s \in Subs : WF_vars(DelayPasses(s)) /\ WF_vars(LeaseLapses(s))
    /\ \A d \in Dispatchers :
          /\ WF_vars(\E b \in [Dests -> Bindings] : Start(d, b) /\ disp'[d].phase = "running")
          /\ WF_vars(Spawn(d)) /\ WF_vars(Drained(d))
          /\ \A n \in Dests :
                /\ WF_vars(PauseEnds(d, n))
                /\ SF_vars(Lease(d, n) /\ rows' # rows)
                /\ WF_vars(Lease(d, n) \/ Settle(d, n) \/ (\E s \in Subs : Post(d, n, s)))

LiveSpec == Spec /\ Fairness

------------------------------------------------------------------------------
(* Types of the state.                                                     *)
TypeOK ==
    /\ outcome \in [Targets -> Outcomes \cup {None}]
    /\ bound \in [Dests -> Bindings \cup {None}]
    /\ \A s \in Live : rows[s] \in Subscription
    /\ \A d \in Dispatchers :
          /\ disp[d].phase \in {"down", "running", "draining"} /\ disp[d].cursor \in Dests
          /\ Cardinality(Active(d)) =< MaxBatches
          /\ \A n \in Dests : batch[d][n].stage \in {"idle", "leasing", "sending"}

(* Every row passes the validation that all its readers apply, however     *)
(* leases lapse and operators retry: subscription() would otherwise fail   *)
(* for ever, and with it every batch of the destination.                   *)
RowsAreValid ==
    \A s \in Live : Valid(rows[s])

(* Registration and terminalization exclude each other (the lock at        *)
(* completion.rs:90): a subscription waits exactly while its target runs,  *)
(* and carries the outcome the target really had.                          *)
ActivatedWithTarget ==
    \A s \in Live : rows[s].event = outcome[s[1]]

(* A delivered subscription was confirmed by the receiver, in answer to    *)
(* the last attempt the row counted and at the endpoint its destination    *)
(* was bound to; an outcome that returns late settles no other attempt.    *)
DeliveredWasConfirmed ==
    \A s \in Live : rows[s].state = "delivered" =>
        <<s, rows[s].total, bound[rows[s].dest]>> \in acked

(* Nothing is ever posted to an endpoint other than the one recorded when  *)
(* the destination was first configured.                                   *)
NeverRedirected ==
    \A a \in acked : a[3] = bound[rows[a[1]].dest]

(* A receiver is not called more often than the generations opened by      *)
(* operators allow, crashes and lost replies included.                     *)
PostsAreBounded ==
    \A s \in Live : posts[s] =< rows[s].gen * MaxAttempts

(* The invariants of subscriptions together.                               *)
SubscriptionsSound ==
    /\ TypeOK /\ RowsAreValid /\ ActivatedWithTarget
    /\ DeliveredWasConfirmed /\ NeverRedirected /\ PostsAreBounded

(* A confirmed delivery is final.                                          *)
DeliveredIsFinal ==
    [][\A s \in Live : rows[s].state = "delivered" => rows'[s] = rows[s]]_vars

(* An activated subscription is delivered or exhausted in the end, though  *)
(* processes crash, replies are lost and destinations share the room.      *)
EventuallyResolved ==
    \A s \in Subs :
        (rows[s] # Absent /\ outcome[s[1]] # None) ~>
            (rows[s] # Absent /\ rows[s].state \in {"delivered", "exhausted"})

(* Deliveries come to an end, and a confirmed one is the end.              *)
DeliveriesSettle == DeliveredIsFinal /\ EventuallyResolved

==============================================================================
