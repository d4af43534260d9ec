--------------------------- MODULE DispatchOutbox ---------------------------
(***************************************************************************)
(* External dispatch: the durable publication obligation that accompanies  *)
(* every queued task of an externally routed queue, the publishers that    *)
(* lease and publish it, the broker, and the consumers that claim exactly  *)
(* the dispatch a broker record names before they acknowledge it.          *)
(*                                                                         *)
(* Time is kept as what is left until each deadline, so that publication,  *)
(* retry and repair may go on for ever in a finite state space.  Database  *)
(* transactions are atomic actions.  A lease token determines publication  *)
(* identity and epoch, which only change when a lease is taken or cleared; *)
(* they are left out.  Of a task only what delivery reads is kept, the     *)
(* rest is TaskLifecycle's.  One queue; tasks carry no admission.          *)
(***************************************************************************)
EXTENDS Integers, FiniteSets

CONSTANTS
    Tasks, Publishers, Slots,
    MaxAttempts,            \* generations a task may use
    RetryDelay,             \* retry_policy.retry_delay_ms
    PublicationLease,       \* PUBLICATION_LEASE_MS
    PublicationRetry,       \* PUBLICATION_RETRY_MS
    PublicationRepair,      \* PUBLICATION_REPAIR_MS
    BatchBudget,            \* BATCH_BUDGET of a publisher
    CapacityDelay,          \* defer_broker's delay while a queue is full
    BatchLimit,             \* publisher.limits().max_publish_batch
    Tokens,                 \* bound: lease tokens that can be in use at once
    MaxLate                 \* bound: uncertain completions at once

ASSUME OutboxAssumption ==
    /\ MaxAttempts \in Nat \ {0}
    /\ RetryDelay \in Nat
    /\ PublicationLease \in Nat \ {0}
    /\ PublicationRetry \in Nat \ {0}
    /\ PublicationRepair \in Nat \ {0}
    /\ BatchBudget \in Nat \ {0}
    /\ CapacityDelay \in Nat \ {0}
    /\ BatchLimit \in Nat \ {0}
    /\ MaxLate \in Nat
    /\ 0 \notin Tokens

VARIABLES
    route,          \* dispatch_routes.destination is set
    tasks,          \* tasks[t]: delivery columns of the task row
    intents,        \* intents[t]: row of dispatch_intents, or NoIntent
    publishers,     \* publishers[p]: its batch in progress
    late,           \* completion transactions left uncertain by a publisher
    wire,           \* sends left uncertain by a publisher
    broker,         \* records the broker may still deliver
    slots,          \* slots[c]: the record a consumer has selected
    delivered       \* history: records the broker has ever stored

vars == <<route, tasks, intents, publishers, late, wire, broker, slots, delivered>>

Generation == 1 .. MaxAttempts
NoToken    == 0

Task   == [state : {"Absent", "Queued", "Active", "Done"}, attempt_count : 0 .. MaxAttempts,
           wait : Nat, external : BOOLEAN, cancel : BOOLEAN]
Intent == [generation : 0 .. MaxAttempts, available : Nat, next : Nat, lease : Nat,
           token : Tokens \cup {NoToken}, confirmed : BOOLEAN]
Lease  == [task : Tasks, generation : Generation, token : Tokens]
Record == [task : Tasks, generation : Generation]

Disposition == {"Claimed", "AlreadyHandedOff", "TerminalOrSuperseded", "Deferred"}
NoRecord  == [task |-> "None", generation |-> 0]
NoReceipt == "None"

NoTask   == [state |-> "Absent", attempt_count |-> 0, wait |-> 0, external |-> FALSE,
             cancel |-> FALSE]
NoIntent == [generation |-> 0, available |-> 0, next |-> 0, lease |-> 0, token |-> NoToken,
             confirmed |-> FALSE]
Resting  == [stage |-> "Idle", leases |-> {}, confirmed |-> {}, budget |-> 0]
FreeSlot == [stage |-> "Idle", record |-> NoRecord, receipt |-> NoReceipt]

Init ==
    /\ route = FALSE
    /\ tasks = [t \in Tasks |-> NoTask]
    /\ intents = [t \in Tasks |-> NoIntent]
    /\ publishers = [p \in Publishers |-> Resting]
    /\ late = {} /\ wire = {} /\ broker = {} /\ delivered = {}
    /\ slots = [c \in Slots |-> FreeSlot]

-----------------------------------------------------------------------------
(* sync_intent: what the row must be for a task row just written.  The     *)
(* same generation keeps its pending publication.                          *)
FreshIntent(generation, wait) ==
    [generation |-> generation, available |-> wait, next |-> wait, lease |-> 0,
     token |-> NoToken, confirmed |-> FALSE]

SyncIntent(task, intent) ==
    IF task.state # "Queued" \/ task.cancel \/ ~task.external THEN NoIntent
    ELSE IF intent.generation = task.attempt_count + 1 THEN intent
    ELSE FreshIntent(task.attempt_count + 1, task.wait)

(* persistence::apply with changes_dispatch_eligibility: only claims,      *)
(* retries and cancellations of queued work touch the obligation.          *)
WriteTask(t, task, eligibility) ==
    /\ tasks' = [tasks EXCEPT ![t] = task]
    /\ intents' = IF eligibility /\ task.external
                  THEN [intents EXCEPT ![t] = SyncIntent(task, @)]
                  ELSE intents

Elsewhere == <<publishers, late, wire, broker, delivered>>

(* accept_resolved_submission: routing is bound once, under a shared lock. *)
Submit(t) ==
    /\ tasks[t].state = "Absent"
    /\ WriteTask(t, [state |-> "Queued", attempt_count |-> 0, wait |-> 0,
                     external |-> route, cancel |-> FALSE], TRUE)
    /\ UNCHANGED <<route, slots, Elsewhere>>

(* activate_route: only an empty logical queue may change its delivery.    *)
ActivateRoute ==
    /\ ~route
    /\ \A t \in Tasks : tasks[t].state \notin {"Queued", "Active"}
    /\ route' = TRUE
    /\ UNCHANGED <<tasks, intents, slots, Elsewhere>>

(* Mutant of Claimed: the generation is not counted.                       *)
ClaimedUncounted(task) == [task EXCEPT !.state = "Active"]

Claimed(task) == [task EXCEPT !.state = "Active", !.attempt_count = @ + 1]

(* Integrated acquisition, refused with ExternalDispatchRequired once the  *)
(* route is active.                                                        *)
PullClaim(t) ==
    /\ ~route
    /\ tasks[t].state = "Queued" /\ ~tasks[t].external
    /\ ~tasks[t].cancel /\ tasks[t].wait = 0
    /\ WriteTask(t, Claimed(tasks[t]), TRUE)
    /\ UNCHANGED <<route, slots, Elsewhere>>

(* An attempt ends by report, expiry or cleanup: a retry, or terminal.     *)
EndAttempt(t) ==
    /\ tasks[t].state = "Active"
    /\ \/ /\ ~tasks[t].cancel /\ tasks[t].attempt_count < MaxAttempts
          /\ WriteTask(t, [tasks[t] EXCEPT !.state = "Queued", !.wait = RetryDelay], TRUE)
       \/ WriteTask(t, [tasks[t] EXCEPT !.state = "Done"], FALSE)
    /\ UNCHANGED <<route, slots, Elsewhere>>

Cancel(t) ==
    /\ ~tasks[t].cancel
    /\ \/ /\ tasks[t].state = "Queued"
          /\ WriteTask(t, [tasks[t] EXCEPT !.state = "Done", !.cancel = TRUE], TRUE)
       \/ /\ tasks[t].state = "Active"
          /\ WriteTask(t, [tasks[t] EXCEPT !.cancel = TRUE], FALSE)
    /\ UNCHANGED <<route, slots, Elsewhere>>

-----------------------------------------------------------------------------
(* Mutant of Due: an abandoned lease is never taken over.                  *)
DueUnleased(t) ==
    /\ intents[t].generation # 0
    /\ intents[t].available = 0 /\ intents[t].next = 0
    /\ intents[t].token = NoToken

Due(t) ==
    /\ intents[t].generation # 0
    /\ intents[t].available = 0 /\ intents[t].next = 0
    /\ intents[t].token = NoToken \/ intents[t].lease = 0

UsedTokens ==
    {intents[t].token : t \in Tasks}
        \cup {l.token : l \in UNION {publishers[p].leases : p \in Publishers}}
        \cup {l.token : l \in UNION {completion.leases : completion \in late}}

(* One lease token of its own for every intent of a batch.                 *)
FreshTokens(batch) ==
    {token \in [batch -> Tokens \ UsedTokens] : \A t, u \in batch : t # u => token[t] # token[u]}

(* lease_publications_once; SKIP LOCKED makes the batch any due intents.   *)
LeasePublications(p, batch) ==
    /\ publishers[p].stage = "Idle"
    /\ batch # {} /\ Cardinality(batch) =< BatchLimit
    /\ \A t \in batch : Due(t)
    /\ \E token \in FreshTokens(batch) :
          /\ intents' = [t \in Tasks |->
                 IF t \in batch
                 THEN [intents[t] EXCEPT !.token = token[t], !.lease = PublicationLease,
                                         !.next = PublicationLease, !.confirmed = FALSE]
                 ELSE intents[t]]
          /\ publishers' = [publishers EXCEPT ![p] =
                 [stage |-> "Leased", confirmed |-> {}, budget |-> BatchBudget,
                  leases |-> {[task |-> t, generation |-> intents[t].generation,
                               token |-> token[t]] : t \in batch}]]
    /\ UNCHANGED <<route, tasks, slots, late, wire, broker, delivered>>

RecordOf(lease) == [task |-> lease.task, generation |-> lease.generation]
Stored(records) ==
    /\ broker' = broker \cup records
    /\ delivered' = delivered \cup records

(* batch sends its records.  Some are stored, of those some are confirmed; *)
(* the others may still arrive, and count as Retry.                        *)
Send(p) ==
    LET leases == publishers[p].leases IN
    /\ publishers[p].stage = "Leased"
    /\ publishers[p].budget > 0
    /\ \E stored \in SUBSET leases : \E confirmed \in SUBSET stored :
          /\ Stored({RecordOf(l) : l \in stored})
          /\ wire' = wire \cup {RecordOf(l) : l \in leases \ stored}
          /\ publishers' = [publishers EXCEPT ![p].stage = "Sent", ![p].confirmed = confirmed]
    /\ UNCHANGED <<route, tasks, intents, slots, late>>

(* complete_publications_once: a completion touches an intent only while   *)
(* its own lease token is there.                                           *)
Completed(completion, t) ==
    LET own == {l \in completion.leases : l.task = t /\ l.generation = intents[t].generation
                                                     /\ l.token = intents[t].token}
    IN  IF own = {} THEN intents[t]
        ELSE [intents[t] EXCEPT !.token = NoToken, !.lease = 0,
                 !.confirmed = own \subseteq completion.confirmed,
                 !.next = IF own \subseteq completion.confirmed THEN PublicationRepair
                                                                ELSE PublicationRetry]

ApplyCompletion(completion) == intents' = [t \in Tasks |-> Completed(completion, t)]

CompletionOf(p) == [leases |-> publishers[p].leases, confirmed |-> publishers[p].confirmed]

CompletePublications(p) ==
    /\ publishers[p].stage = "Sent"
    /\ publishers[p].budget > 0
    /\ ApplyCompletion(CompletionOf(p))
    /\ publishers' = [publishers EXCEPT ![p] = Resting]
    /\ UNCHANGED <<route, tasks, slots, late, wire, broker, delivered>>

(* The batch deadline, an error, shutdown or a crash ends a batch; its     *)
(* completion may already be on its way to commit.                         *)
AbandonBatch(p) ==
    /\ publishers[p].stage # "Idle"
    /\ \/ late' = late
       \/ /\ publishers[p].stage = "Sent" /\ Cardinality(late) < MaxLate
          /\ late' = late \cup {CompletionOf(p)}
    /\ publishers' = [publishers EXCEPT ![p] = Resting]
    /\ UNCHANGED <<route, tasks, intents, slots, wire, broker, delivered>>

CompleteLate(completion) ==
    /\ late' = late \ {completion}
    /\ ApplyCompletion(completion)
    /\ UNCHANGED <<route, tasks, publishers, slots, wire, broker, delivered>>

(* The broker: a late arrival, or a record lost to retention.              *)
Arrive(record) ==
    /\ wire' = wire \ {record}
    /\ Stored({record})
    /\ UNCHANGED <<route, tasks, intents, publishers, slots, late>>

Lose(record) ==
    /\ broker' = broker \ {record}
    /\ UNCHANGED <<route, tasks, intents, publishers, slots, late, wire, delivered>>

-----------------------------------------------------------------------------
(* acquire_once selects one received record.  It stays in the broker and   *)
(* may be delivered again, also to others.                                 *)
Receive(c, record) ==
    /\ slots[c].stage = "Idle"
    /\ slots' = [slots EXCEPT ![c] =
                    [stage |-> "Selected", record |-> record, receipt |-> NoReceipt]]
    /\ UNCHANGED <<route, tasks, intents, Elsewhere>>

(* classify_dispatch's errors, which fail the claim on every retry.        *)
Unissued(record) ==
    LET task == tasks[record.task] IN
    \/ record.generation > task.attempt_count + 1
    \/ /\ task.state = "Active" /\ ~task.cancel
       /\ record.generation > task.attempt_count

(* A future dispatch needs the intent that will publish it again.          *)
Unobliged(record) ==
    LET task == tasks[record.task]  intent == intents[record.task] IN
    /\ task.state = "Queued" /\ ~task.cancel
    /\ record.generation = task.attempt_count + 1
    /\ task.wait > 0
    /\ ~(intent.generation = record.generation /\ intent.available = task.wait)

(* classify_dispatch's decisions.                                          *)
Ready(record) ==
    LET task == tasks[record.task] IN
    /\ task.state = "Queued" /\ ~task.cancel
    /\ record.generation = task.attempt_count + 1
    /\ task.wait = 0

Handled(record) ==
    LET task == tasks[record.task] IN
    IF task.state = "Done" \/ task.cancel THEN "TerminalOrSuperseded"
    ELSE IF task.state = "Active" /\ record.generation = task.attempt_count
    THEN "AlreadyHandedOff"
    ELSE IF record.generation =< task.attempt_count THEN "TerminalOrSuperseded"
    ELSE "Deferred"

(* defer_broker: hand a record back to the intent while the queue is full. *)
(* A handoff already scheduled is reused, anything else is replaced.       *)
DeferredIntent(intent, generation) ==
    IF /\ intent.available > 0 /\ intent.next = intent.available
       /\ intent.token = NoToken /\ ~intent.confirmed
    THEN intent
    ELSE FreshIntent(generation, CapacityDelay)

(* defer_broker's own check of the handoff it is about to rely on.         *)
Undeferrable(record) ==
    LET intent == intents[record.task] IN
    /\ Ready(record)
    /\ ~(/\ intent.generation = record.generation
         /\ DeferredIntent(intent, record.generation).available \in 1 .. CapacityDelay)

SaveReceipt(c, receipt) == slots' = [slots EXCEPT ![c].receipt = receipt]

(* claim_dispatch_once: the transition and its receipt commit together; a  *)
(* repeat of the command finds the receipt.                                *)
ClaimDispatch(c) ==
    LET record == slots[c].record  t == slots[c].record.task IN
    /\ slots[c].stage = "Selected" /\ slots[c].receipt = NoReceipt
    /\ ~Unissued(record) /\ ~Unobliged(record)
    /\ tasks[t].external
    /\ \/ /\ Ready(record)
          /\ WriteTask(t, Claimed(tasks[t]), TRUE)
          /\ SaveReceipt(c, "Claimed")
       \/ /\ Ready(record)          \* the queue's concurrency gate is full
          /\ ~Undeferrable(record)
          /\ intents' = [intents EXCEPT ![t] = DeferredIntent(@, record.generation)]
          /\ SaveReceipt(c, "Deferred")
          /\ UNCHANGED tasks
       \/ /\ ~Ready(record)
          /\ SaveReceipt(c, Handled(record))
          /\ UNCHANGED <<tasks, intents>>
    /\ UNCHANGED <<route, Elsewhere>>

(* A reply to the claim or to its repetition, then one acknowledgment.     *)
(* The broker may miss it, or still hold another publication of it.        *)
Acknowledge(c) ==
    /\ slots[c].stage = "Selected" /\ slots[c].receipt # NoReceipt
    /\ \/ broker' = broker
       \/ broker' = broker \ {slots[c].record}
    /\ slots' = [slots EXCEPT ![c] = FreeSlot]
    /\ UNCHANGED <<route, tasks, intents, publishers, late, wire, delivered>>

(* The worker stops or dies with an unacknowledged record.                 *)
DropSlot(c) ==
    /\ slots[c].stage = "Selected"
    /\ slots' = [slots EXCEPT ![c] = FreeSlot]
    /\ UNCHANGED <<route, tasks, intents, Elsewhere>>

Less(n) == IF n = 0 THEN 0 ELSE n - 1

(* One unit of time; a publisher's deadline cuts its batch off in time.    *)
Tick ==
    /\ \A p \in Publishers : publishers[p].stage # "Idle" => publishers[p].budget > 0
    /\ tasks' = [t \in Tasks |-> [tasks[t] EXCEPT !.wait = Less(@)]]
    /\ intents' = [t \in Tasks |->
           [intents[t] EXCEPT !.available = Less(@), !.next = Less(@), !.lease = Less(@)]]
    /\ publishers' = [p \in Publishers |-> [publishers[p] EXCEPT !.budget = Less(@)]]
    /\ UNCHANGED <<route, late, wire, broker, slots, delivered>>

Next ==
    \/ Tick
    \/ ActivateRoute
    \/ \E t \in Tasks : Submit(t) \/ PullClaim(t) \/ EndAttempt(t) \/ Cancel(t)
    \/ \E p \in Publishers :
          \/ \E batch \in SUBSET Tasks : LeasePublications(p, batch)
          \/ Send(p) \/ CompletePublications(p) \/ AbandonBatch(p)
    \/ \E completion \in late : CompleteLate(completion)
    \/ \E record \in wire : Arrive(record)
    \/ \E record \in broker : Lose(record)
    \/ \E c \in Slots :
          \/ \E record \in broker : Receive(c, record)
          \/ ClaimDispatch(c) \/ Acknowledge(c) \/ DropSlot(c)

Spec == Init /\ [][Next]_vars

(* Publishers and workers are restarted and keep polling, an uncertain     *)
(* transaction resolves, and neither the broker nor the workers fail every *)
(* time: of what is offered again and again, one publication is stored,    *)
(* one record received, one acknowledgment honoured and one claim not      *)
(* turned away by the concurrency gate in the end.                         *)
Fairness ==
    /\ WF_vars(Tick)
    /\ \A p \in Publishers :
          /\ WF_vars(\E batch \in SUBSET Tasks : LeasePublications(p, batch))
          /\ WF_vars(publishers[p].budget = 0 /\ AbandonBatch(p))
          /\ SF_vars(Send(p) /\ \A l \in publishers[p].leases : RecordOf(l) \in broker')
    /\ WF_vars(\E completion \in late : CompleteLate(completion))
    /\ \A record \in Record : SF_vars(\E c \in Slots : record \in broker /\ Receive(c, record))
    /\ \A c \in Slots :
          /\ SF_vars(ClaimDispatch(c) /\ slots'[c].receipt = "Claimed")
          /\ SF_vars(ClaimDispatch(c))
          /\ SF_vars(Acknowledge(c) /\ slots[c].record \notin broker')

FairSpec == Spec /\ Fairness

-----------------------------------------------------------------------------
(* Types of all rows and of the volatile state.                            *)
TypeOK ==
    /\ route \in BOOLEAN
    /\ tasks \in [Tasks -> Task]
    /\ intents \in [Tasks -> Intent]
    /\ publishers \in [Publishers -> [stage : {"Idle", "Leased", "Sent"},
                                      leases : SUBSET Lease, confirmed : SUBSET Lease,
                                      budget : Nat]]
    /\ late \subseteq [leases : SUBSET Lease, confirmed : SUBSET Lease]
    /\ wire \subseteq Record /\ broker \subseteq Record /\ delivered \subseteq Record
    /\ slots \in [Slots -> [stage : {"Idle", "Selected"}, record : Record \cup {NoRecord},
                            receipt : Disposition \cup {NoReceipt}]]

(* Exactly the queued tasks of an external route have a publication        *)
(* obligation, for the generation a claim would create: an acknowledged,   *)
(* lost or never published record cannot leave a task without delivery,    *)
(* and no obligation survives the work it stands for.                      *)
IntentIsObligation ==
    \A t \in Tasks :
        IF tasks[t].state = "Queued" /\ tasks[t].external
        THEN intents[t].generation = tasks[t].attempt_count + 1
        ELSE intents[t] = NoIntent

(* Every record that can reach a worker, however late or often, resolves:  *)
(* classify_dispatch never meets a generation it did not issue or a future *)
(* one without obligation, and defer_broker never misses the intent it     *)
(* hands back to.  A worker that has started a claim which can only fail   *)
(* would try to resolve it for ever.                                       *)
Records ==
    broker \cup wire \cup {slots[c].record : c \in Slots}
        \cup {RecordOf(l) : l \in UNION {publishers[p].leases : p \in Publishers}}

ClaimsResolve ==
    \A record \in Records \ {NoRecord} :
        /\ ~Unissued(record) /\ ~Unobliged(record) /\ ~Undeferrable(record)
        /\ tasks[record.task].external /\ tasks[record.task].state # "Absent"

(* An intent counts as confirmed, and so waits for the long repair delay,  *)
(* only when the broker has stored a record of this very generation: a     *)
(* late completion of an older lease is never credited to a newer one.     *)
ConfirmedWasStored ==
    \A t \in Tasks :
        intents[t].confirmed =>
            [task |-> t, generation |-> intents[t].generation] \in delivered

(* Work that is not finished is delivered the way its queue is now routed, *)
(* so that neither integrated nor external workers can strand it.          *)
RouteUniform ==
    \A t \in Tasks : tasks[t].state \in {"Queued", "Active"} => tasks[t].external = route

(* The invariants of the outbox together.                                  *)
OutboxSound ==
    TypeOK /\ IntentIsObligation /\ ClaimsResolve /\ ConfirmedWasStored /\ RouteUniform

(* A queued task of an external route is claimed or cancelled at last,     *)
(* whatever publications, records and acknowledgments get lost.            *)
QueuedIsClaimed ==
    \A t \in Tasks :
        (tasks[t].state = "Queued" /\ tasks[t].external) ~> (tasks[t].state # "Queued")

=============================================================================
