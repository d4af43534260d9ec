----------------------------- MODULE ProcessPool -----------------------------
(***************************************************************************)
(* ledgence-worker-core: consumer permits, the attempt registry, artifact  *)
(* preparation and the pool of reusable program processes of one worker,   *)
(* with the shutdown that must certify they are gone.                      *)
(*                                                                         *)
(* Every invocation runs in a supervisor task of its own; a step is what   *)
(* it does between two awaits, so the pool and registry locks are atomic   *)
(* and everything else interleaves.  An adapter (store, cache, runtime,    *)
(* admission) may answer, fail, panic or take arbitrarily long.  A process *)
(* is named by the invocation that started it.  Left out: unwinding of the *)
(* supervisor itself, the protocol and platform checks of a manifest       *)
(* (failures of preparation), traces, metrics and observation payloads.    *)
(***************************************************************************)
EXTENDS Integers, Sequences, FiniteSets, SequencesExt

CONSTANTS
    Invs,           \* invocations that callers may submit
    Reservations,   \* consumer reservations that drivers may take
    Attempts, AttemptOf,    \* AttemptOf[i]: the attempt i is for
    Digests, Scopes, KeyOf, \* KeyOf[i]: SessionKey, program digest and scope
    Concurrency,    \* config.concurrency
    None

PoolAssumption ==
    /\ AttemptOf \in [Invs -> Attempts]
    /\ KeyOf \in [Invs -> [digest : Digests, scope : Scopes]]
    /\ Concurrency \in Nat \ {0}
    /\ None \notin Invs \cup Reservations

VARIABLES
    invs,       \* invs[i]: the supervisor of invocation i
    owners,     \* owners[r]: ConsumerOwnership and its public handle
    registry,   \* Registry, without the sets derived below
    slots,      \* Pool.slots: slot id -> observed state, "Empty" if not reserved
    idle,       \* Pool.idle
    quarantined,\* Pool.quarantined
    lost,       \* Pool.unresolved_starts
    closer,     \* the shutdown supervisor
    alive,      \* processes that exist, as the operating system knows
    runs        \* runs[p]: the invocation whose code process p executes

vars == <<invs, owners, registry, slots, idle, quarantined, lost, closer, alive, runs>>

Slot      == 0 .. Concurrency - 1
SlotState == {"Empty", "Unknown", "Starting", "Executing", "Warm", "Retiring", "CleanupPending"}

(* Idle: a process with its slot, held for a reservation or none.          *)
Session == [proc : Invs \cup {None}, slot : Slot, consumer : Reservations \cup {None}]

(* A stage names the await the supervisor is at.  "Late" is a fetch whose  *)
(* caller was already told of the timeout; "End" drops what it owns.       *)
Preparing == {"Lookup", "Fetch", "Late", "Publish", "Evict"}
Stage == {"New", "Permit", "Lock"} \cup Preparing \cup
         {"Session", "Replace", "Reserved", "Starting", "Ready", "Admission", "Dispatch",
          "Execute", "Retire", "End", "Done"}

NewInvocation ==
    [stage |-> "New", via |-> None, cancelled |-> FALSE, session |-> {}, started |-> FALSE]

Init ==
    /\ invs = [i \in Invs |-> NewInvocation]
    /\ owners = [r \in Reservations |->
                    [handle |-> FALSE, taken |-> FALSE, used |-> FALSE, cancelled |-> FALSE,
                     attempts |-> {}]]
    /\ registry = [accepting |-> TRUE, unresolved |-> {}, operations |-> 0, consumers |-> {}]
    /\ slots = [s \in Slot |-> "Empty"]
    /\ idle = <<>>
    /\ quarantined = <<>>
    /\ lost = {}
    /\ closer = [stage |-> "Off", active |-> FALSE, session |-> {}, result |-> "None"]
    /\ alive = {}
    /\ runs = [i \in Invs |-> None]

-----------------------------------------------------------------------------
(* Registry.active: supervisors between registration and its drop.         *)
Active == {i \in Invs : invs[i].stage \notin {"New", "Done"}}

(* The strong references to a ConsumerOwnership: its public handle, a      *)
(* registered supervisor, a session being cleaned up on its behalf, and    *)
(* what an adapter never gave back.                                        *)
References(r) ==
    (IF owners[r].handle THEN {<<"handle">>} ELSE {})
        \cup {<<"supervisor", i>> : i \in {j \in Active : invs[j].via = r}}
        \cup {<<"session", s>> : s \in {t \in Range(quarantined) \cup closer.session \cup lost :
                                             t.consumer = r}}
        \cup (IF r \in registry.consumers THEN {<<"unresolved">>} ELSE {})

Owned(r) == References(r) # {}

(* is_quiescent: only the public handle is left.                           *)
IsQuiescent(r) == References(r) = {<<"handle">>}

(* The semaphore: a direct invocation owns a permit from admission to its  *)
(* end, a reservation as long as anything refers to it.                    *)
Permits ==
    Concurrency - Cardinality({r \in Reservations : Owned(r)})
                - Cardinality({i \in Active : invs[i].via = None /\ invs[i].stage # "Permit"})

(* registry.pending_settlement, weak references included.                  *)
PendingSettlement(a) == \E r \in Reservations : Owned(r) /\ a \in owners[r].attempts

(* Registry.cancel_all, for the registered supervisors and reservations.   *)
CancelAll ==
    /\ owners' = [r \in Reservations |->
                     [owners[r] EXCEPT !.cancelled = @ \/ Owned(r)]]
Cancelled(i) == [invs[i] EXCEPT !.cancelled = @ \/ i \in Active]

(* Advance one supervisor; with every other cancelled if the step failed   *)
(* admission closed.                                                       *)
Step(i, inv) == invs' = [invs EXCEPT ![i] = inv] /\ UNCHANGED <<owners, registry>>
Goto(i, stage) == Step(i, [invs[i] EXCEPT !.stage = stage])

(* fail_closed (also the panic path of close_session): stop admission,     *)
(* cancel everything and never again accept this attempt.                  *)
FailClosed(i, inv) ==
    /\ registry' = [registry EXCEPT !.accepting = FALSE, !.unresolved = @ \cup {AttemptOf[i]}]
    /\ CancelAll
    /\ invs' = [j \in Invs |-> IF j = i THEN [inv EXCEPT !.cancelled = TRUE] ELSE Cancelled(j)]

(* unresolved_preparation: the panicking adapter may still be working, so  *)
(* its consumer is retained for good.                                      *)
UnresolvedPreparation(i) ==
    /\ registry' = [registry EXCEPT !.accepting = FALSE,
                                    !.unresolved = @ \cup {AttemptOf[i]},
                                    !.operations = @ + 1,
                                    !.consumers = @ \cup ({invs[i].via} \ {None})]
    /\ CancelAll
    /\ invs' = [j \in Invs |-> IF j = i THEN [invs[i] EXCEPT !.cancelled = TRUE, !.stage = "End"]
                                         ELSE Cancelled(j)]

PoolUnchanged  == UNCHANGED <<slots, idle, quarantined, lost>>
GhostUnchanged == UNCHANGED <<alive, runs>>

SetSlot(s, state) == slots' = [slots EXCEPT ![s] = state]

(* The one session a supervisor holds.                                     *)
Held(holder) == CHOOSE s \in holder.session : TRUE

-----------------------------------------------------------------------------
(* execute_controlled: nobody runs this attempt, and no earlier execution  *)
(* of it is awaiting cleanup or settlement.                                *)
Admissible(i) ==
    /\ \A j \in Active : AttemptOf[j] # AttemptOf[i]
    /\ AttemptOf[i] \notin registry.unresolved
    /\ ~PendingSettlement(AttemptOf[i])

(* execute, execute_interactive: register and spawn the supervisor.        *)
Execute(i) ==
    /\ invs[i].stage = "New"
    /\ registry.accepting
    /\ Admissible(i)
    /\ Goto(i, "Permit")
    /\ PoolUnchanged /\ GhostUnchanged /\ UNCHANGED closer

(* ConsumerReservation::execute*: at most once per reservation, also when  *)
(* the invocation is refused.                                              *)
ExecuteReserved(i, r) ==
    /\ invs[i].stage = "New"
    /\ owners[r].handle
    /\ ~owners[r].used
    /\ IF registry.accepting /\ Admissible(i) /\ ~owners[r].cancelled
       THEN /\ invs' = [invs EXCEPT ![i].stage = "Lock", ![i].via = r]
            /\ owners' = [owners EXCEPT ![r].used = TRUE, ![r].attempts = {AttemptOf[i]}]
       ELSE /\ owners' = [owners EXCEPT ![r].used = TRUE]
            /\ UNCHANGED invs
    /\ UNCHANGED registry /\ PoolUnchanged /\ GhostUnchanged /\ UNCHANGED closer

(* reserve_consumer: registration and the drain check share the lock.      *)
Reserve(r) ==
    /\ ~owners[r].taken
    /\ registry.accepting
    /\ Permits > 0
    /\ owners' = [owners EXCEPT ![r].handle = TRUE, ![r].taken = TRUE]
    /\ UNCHANGED <<invs, registry, closer>> /\ PoolUnchanged /\ GhostUnchanged

(* Drop for ConsumerReservation, release included.                         *)
Release(r) ==
    /\ owners[r].handle
    /\ owners' = [owners EXCEPT ![r].handle = FALSE, ![r].cancelled = TRUE]
    /\ invs' = [i \in Invs |-> IF invs[i].via = r THEN Cancelled(i) ELSE invs[i]]
    /\ UNCHANGED <<registry, closer>> /\ PoolUnchanged /\ GhostUnchanged

(* RunControl: its deadline passes, its owner cancels, or the caller's     *)
(* future is dropped (CancelOnDrop).                                       *)
CancelControl(i) ==
    /\ i \in Active
    /\ ~invs[i].cancelled
    /\ Step(i, Cancelled(i))
    /\ PoolUnchanged /\ GhostUnchanged /\ UNCHANGED closer

-----------------------------------------------------------------------------
(* execute_owned: wait for a consumer permit, polling the control.         *)
TakePermit(i) ==
    /\ invs[i].stage = "Permit"
    /\ \/ invs[i].cancelled /\ Goto(i, "End")
       \/ ~invs[i].cancelled /\ Permits > 0 /\ Goto(i, "Lock")
    /\ PoolUnchanged /\ GhostUnchanged /\ UNCHANGED closer

(* prepare: one preparation per digest at a time.                          *)
TakePreparationLock(i) ==
    /\ invs[i].stage = "Lock"
    /\ \/ invs[i].cancelled /\ Goto(i, "End")
       \/ /\ ~invs[i].cancelled
          /\ \A j \in Active :
                KeyOf[j].digest = KeyOf[i].digest => invs[j].stage \notin Preparing
          /\ Goto(i, "Lookup")
    /\ PoolUnchanged /\ GhostUnchanged /\ UNCHANGED closer

(* The artifact is ready: the control decides whether a session is wanted. *)
Prepared(i) == Goto(i, IF invs[i].cancelled THEN "End" ELSE "Session")

Lookup(i) ==
    /\ invs[i].stage = "Lookup"
    /\ \/ Prepared(i)                                               \* hit
       \/ Goto(i, IF invs[i].cancelled THEN "End" ELSE "Fetch")     \* miss
       \/ Goto(i, "End")                                            \* error
       \/ UnresolvedPreparation(i)                                  \* panic
    /\ PoolUnchanged /\ GhostUnchanged /\ UNCHANGED closer

(* The download, or its deadline: the result is sent, the operation stays  *)
(* owned until it really completes.                                        *)
Fetch(i) ==
    /\ invs[i].stage = "Fetch"
    /\ \/ Goto(i, "Publish")
       \/ Goto(i, "Late")
       \/ Goto(i, "End")
       \/ UnresolvedPreparation(i)
    /\ PoolUnchanged /\ GhostUnchanged /\ UNCHANGED closer

FetchLate(i) ==
    /\ invs[i].stage = "Late"
    /\ \/ Goto(i, "End")
       \/ UnresolvedPreparation(i)
    /\ PoolUnchanged /\ GhostUnchanged /\ UNCHANGED closer

(* cache.publish; retire_idle makes room in a full cache.                  *)
Publish(i) ==
    /\ invs[i].stage = "Publish"
    /\ \/ Prepared(i) /\ PoolUnchanged
       \/ Goto(i, "End") /\ PoolUnchanged       \* error, or full and nothing idle
       \/ UnresolvedPreparation(i) /\ PoolUnchanged
       \/ /\ idle # <<>>
          /\ LET s == [Last(idle) EXCEPT !.consumer = invs[i].via] IN
             /\ Step(i, [invs[i] EXCEPT !.stage = "Evict", !.session = {s}])
             /\ idle' = Front(idle)
             /\ SetSlot(s.slot, "Retiring")
             /\ UNCHANGED <<quarantined, lost>>
    /\ GhostUnchanged /\ UNCHANGED closer

-----------------------------------------------------------------------------
(* close_session confirmed the end of the process.                         *)
Closed(s) == alive' = alive \ {s.proc} /\ runs' = [runs EXCEPT ![s.proc] = None]

(* A close that was not confirmed keeps the slot, the process handle and   *)
(* the consumer it was for.                                                *)
Quarantine(s) ==
    /\ SetSlot(s.slot, "CleanupPending")
    /\ quarantined' = Append(quarantined, s)
    /\ UNCHANGED <<idle, lost>>

(* retire, within retire_idle.                                             *)
Evict(i) ==
    LET s    == Held(invs[i])
        over == [invs[i] EXCEPT !.stage = "End", !.session = {}]
    IN
    /\ invs[i].stage = "Evict"
    /\ \/ /\ Closed(s)
          /\ SetSlot(s.slot, "Empty")
          /\ Step(i, [invs[i] EXCEPT !.stage = "Publish", !.session = {}])
          /\ UNCHANGED <<idle, quarantined, lost>>
       \/ /\ Quarantine(s)
          /\ Step(i, over) \/ FailClosed(i, over)
          /\ GhostUnchanged
    /\ UNCHANGED closer

(* A warm process is reused within its program version and scope only.     *)
Matches(p, i) == KeyOf[p] = KeyOf[i]

Occupied == {s \in Slot : slots[s] # "Empty"}
(* reserve_slot: the lowest id that is not occupied.                       *)
FreeSlot == CHOOSE s \in Slot \ Occupied : \A t \in Slot \ Occupied : s =< t

(* swap_remove.                                                            *)
SwapRemove(seq, n) ==
    Front(IF n = Len(seq) THEN seq ELSE [seq EXCEPT ![n] = Last(seq)])

(* session: reuse a matching process, else take a free slot, else replace  *)
(* another idle process, else give up.                                     *)
TakeSession(i) ==
    LET matching == {n \in DOMAIN idle : Matches(idle[n].proc, i)}
        first    == CHOOSE n \in matching : \A k \in matching : n =< k
        reused   == [idle[first] EXCEPT !.consumer = invs[i].via]
        evicted  == [Last(idle) EXCEPT !.consumer = invs[i].via]
    IN
    /\ invs[i].stage = "Session"
    /\ IF matching # {}
       THEN /\ Step(i, [invs[i] EXCEPT !.stage = "Ready", !.session = {reused}])
            /\ idle' = SwapRemove(idle, first)
            /\ SetSlot(reused.slot, "Unknown")
       ELSE IF Cardinality(Occupied) < Concurrency
       THEN /\ Step(i, [invs[i] EXCEPT !.stage = "Reserved",
                            !.session = {[proc |-> None, slot |-> FreeSlot,
                                          consumer |-> invs[i].via]}])
            /\ SetSlot(FreeSlot, "Unknown")
            /\ UNCHANGED idle
       ELSE IF idle # <<>>
       THEN /\ Step(i, [invs[i] EXCEPT !.stage = "Replace", !.session = {evicted}])
            /\ idle' = Front(idle)
            /\ SetSlot(evicted.slot, "Retiring")
       ELSE /\ Goto(i, "End")
            /\ UNCHANGED <<slots, idle>>
    /\ UNCHANGED <<quarantined, lost, closer>> /\ GhostUnchanged

(* Mutant of Replace: the slot is used although the close failed.          *)
ReplaceAnyway(i) ==
    LET s == Held(invs[i]) IN
    /\ invs[i].stage = "Replace"
    /\ Step(i, [invs[i] EXCEPT !.stage = "Reserved", !.session = {[s EXCEPT !.proc = None]}])
    /\ Closed(s) \/ GhostUnchanged
    /\ PoolUnchanged /\ UNCHANGED closer

(* The replaced process must be gone before its slot is used again.        *)
Replace(i) ==
    LET s    == Held(invs[i])
        over == [invs[i] EXCEPT !.stage = "End", !.session = {}]
    IN
    /\ invs[i].stage = "Replace"
    /\ \/ /\ Closed(s)
          /\ Step(i, [invs[i] EXCEPT !.stage = "Reserved",
                                     !.session = {[s EXCEPT !.proc = None]}])
          /\ PoolUnchanged
       \/ /\ Quarantine(s)
          /\ Step(i, over) \/ FailClosed(i, over)
          /\ GhostUnchanged
    /\ UNCHANGED closer

(* pool.starting, then runtime.start: from here the process may exist.     *)
BeginStart(i) ==
    LET s == Held(invs[i]) IN
    /\ invs[i].stage = "Reserved"
    /\ IF invs[i].cancelled
       THEN /\ SetSlot(s.slot, "Empty")
            /\ Step(i, [invs[i] EXCEPT !.stage = "End", !.session = {}])
            /\ GhostUnchanged
       ELSE /\ SetSlot(s.slot, "Starting")
            /\ Step(i, [invs[i] EXCEPT !.stage = "Starting",
                                       !.session = {[s EXCEPT !.proc = i]}])
            /\ alive' = alive \cup {i}
            /\ UNCHANGED runs
    /\ UNCHANGED <<idle, quarantined, lost, closer>>

(* StartOutcome: ready, failed but in need of cleanup, failed cleanly, or  *)
(* a panic that leaves no handle.                                          *)
Started(i) ==
    LET s    == Held(invs[i])
        over == [invs[i] EXCEPT !.stage = "End", !.session = {}]
    IN
    /\ invs[i].stage = "Starting"
    /\ \/ Goto(i, "Ready") /\ PoolUnchanged /\ GhostUnchanged
       \/ Quarantine(s) /\ Step(i, over) /\ GhostUnchanged
       \/ /\ Closed(s) /\ SetSlot(s.slot, "Empty") /\ Step(i, over)
          /\ UNCHANGED <<idle, quarantined, lost>>
       \/ /\ SetSlot(s.slot, "Unknown") /\ FailClosed(i, over)
          /\ lost' = lost \cup {s}
          /\ UNCHANGED <<idle, quarantined>> /\ GhostUnchanged
    /\ UNCHANGED closer

(* With a process in hand: the control and pid checks, invocation_control. *)
CheckReady(i) ==
    LET retire == [invs[i] EXCEPT !.stage = "Retire"] IN
    /\ invs[i].stage = "Ready"
    /\ \/ Step(i, retire)               \* cancelled, or no budget for the invocation
       \/ FailClosed(i, retire)         \* the adapter panicked
       \/ ~invs[i].cancelled /\ Goto(i, "Dispatch")
       \/ ~invs[i].cancelled /\ invs[i].via # None /\ Goto(i, "Admission")
    /\ PoolUnchanged /\ GhostUnchanged /\ UNCHANGED closer

(* reuse_owned: back into the pool, owned by nobody.                       *)
ReuseOwned(i) ==
    LET s == [Held(invs[i]) EXCEPT !.consumer = None] IN
    /\ SetSlot(s.slot, "Warm")
    /\ idle' = Append(idle, s)
    /\ UNCHANGED <<quarantined, lost>>
    /\ Step(i, [invs[i] EXCEPT !.stage = "End", !.session = {}])

(* InvocationAdmission::ready: invoke, defer, fail or panic.               *)
Admit(i) ==
    LET retire == [invs[i] EXCEPT !.stage = "Retire"] IN
    /\ invs[i].stage = "Admission"
    /\ \/ ~invs[i].cancelled /\ Goto(i, "Dispatch") /\ PoolUnchanged
       \/ ~invs[i].cancelled /\ ReuseOwned(i)
       \/ Step(i, retire) /\ PoolUnchanged
       \/ FailClosed(i, retire) /\ PoolUnchanged
    /\ GhostUnchanged /\ UNCHANGED closer

(* The last check before the program is invoked.                           *)
Dispatch(i) ==
    LET s == Held(invs[i]) IN
    /\ invs[i].stage = "Dispatch"
    /\ SetSlot(s.slot, "Executing")
    /\ \/ Goto(i, "Retire") /\ UNCHANGED runs   \* cancelled, or the grant lapsed
       \/ /\ ~invs[i].cancelled
          /\ Step(i, [invs[i] EXCEPT !.stage = "Execute", !.started = TRUE])
          /\ runs' = [runs EXCEPT ![s.proc] = i]
    /\ UNCHANGED <<idle, quarantined, lost, closer, alive>>

(* session.execute: a program outcome leaves the process reusable, any     *)
(* error or panic retires it.                                              *)
Finish(i) ==
    LET retire == [invs[i] EXCEPT !.stage = "Retire"]
        s      == Held(invs[i])
    IN
    /\ invs[i].stage = "Execute"
    /\ \/ ReuseOwned(i) /\ runs' = [runs EXCEPT ![s.proc] = None]
       \/ Step(i, retire) /\ PoolUnchanged /\ UNCHANGED runs
       \/ FailClosed(i, retire) /\ PoolUnchanged /\ UNCHANGED runs
    /\ UNCHANGED <<closer, alive>>

(* retire_owned; a cleanup that failed after the program had started also  *)
(* bars the attempt (retain_attempt).                                      *)
Retire(i) ==
    LET s    == Held(invs[i])
        over == [invs[i] EXCEPT !.stage = "End", !.session = {}]
    IN
    /\ invs[i].stage = "Retire"
    /\ \/ /\ Closed(s) /\ SetSlot(s.slot, "Empty") /\ Step(i, over)
          /\ UNCHANGED <<idle, quarantined, lost>>
       \/ /\ Quarantine(s)
          /\ \/ FailClosed(i, over)
             \/ /\ invs' = [invs EXCEPT ![i] = over]
                /\ registry' = IF invs[i].started
                               THEN [registry EXCEPT !.unresolved = @ \cup {AttemptOf[i]}]
                               ELSE registry
                /\ UNCHANGED owners
          /\ GhostUnchanged
    /\ UNCHANGED closer

(* The supervisor drops its permit and registration and sends the result.  *)
End(i) ==
    /\ invs[i].stage = "End"
    /\ Step(i, [invs[i] EXCEPT !.stage = "Done", !.cancelled = FALSE, !.started = FALSE])
    /\ PoolUnchanged /\ GhostUnchanged /\ UNCHANGED closer

-----------------------------------------------------------------------------
(* active_count: supervisors and reservations held by a delivery driver.   *)
ActiveCount == Cardinality(Active) + Cardinality({r \in Reservations : owners[r].handle})

InvocationsUnchanged == UNCHANGED <<invs, owners, registry>>

(* shutdown, shutdown_until_quiescent: again after an incomplete one.      *)
BeginShutdown ==
    /\ closer.stage = "Off"
    /\ closer.result = "None"
    /\ registry' = [registry EXCEPT !.accepting = FALSE]
    /\ closer' = [closer EXCEPT !.stage = "Drain"]
    /\ UNCHANGED <<invs, owners>> /\ PoolUnchanged /\ GhostUnchanged

RetryShutdown ==
    /\ closer.result = "Incomplete"
    /\ closer' = [closer EXCEPT !.stage = "Drain", !.result = "None"]
    /\ InvocationsUnchanged /\ PoolUnchanged /\ GhostUnchanged

(* Mutant of Drain: the reservations of drivers are not cancelled.         *)
DrainSupervisors ==
    /\ closer.stage = "Drain"
    /\ invs' = [i \in Invs |-> Cancelled(i)]
    /\ closer' = [closer EXCEPT !.stage = "Sample"]
    /\ UNCHANGED <<registry, owners>> /\ PoolUnchanged /\ GhostUnchanged

(* The drain ends when nothing is active or the grace period is over.      *)
Drain ==
    /\ closer.stage = "Drain"
    /\ CancelAll
    /\ invs' = [i \in Invs |-> Cancelled(i)]
    /\ closer' = [closer EXCEPT !.stage = "Sample"]
    /\ UNCHANGED registry /\ PoolUnchanged /\ GhostUnchanged

(* Owners are sampled before the pool: a supervisor publishes its session *)
(* before it deregisters.                                                  *)
SampleOwners ==
    /\ closer.stage = "Sample"
    /\ closer' = [closer EXCEPT !.stage = "Pick", !.active = ActiveCount # 0]
    /\ InvocationsUnchanged /\ PoolUnchanged /\ GhostUnchanged

(* A quarantined session first, else an idle one.                          *)
PickSession ==
    LET pool == IF quarantined # <<>> THEN quarantined ELSE idle
        s    == Last(pool)
    IN
    /\ closer.stage = "Pick"
    /\ pool # <<>>
    /\ closer' = [closer EXCEPT !.stage = "Close", !.session = {s}]
    /\ IF quarantined # <<>>
       THEN quarantined' = Front(quarantined) /\ UNCHANGED idle
       ELSE idle' = Front(idle) /\ UNCHANGED quarantined
    /\ SetSlot(s.slot, "Retiring")
    /\ UNCHANGED lost /\ InvocationsUnchanged /\ GhostUnchanged

(* Nothing to retire: done if nobody was active, else wait for them or for *)
(* the cleanup budget to run out.                                          *)
PickNothing ==
    /\ closer.stage = "Pick"
    /\ quarantined = <<>> /\ idle = <<>>
    /\ closer' \in IF closer.active
                   THEN {[closer EXCEPT !.stage = "Sample"],
                         [closer EXCEPT !.stage = "Off", !.result = "Incomplete"]}
                   ELSE {[closer EXCEPT !.stage = "Certify"]}
    /\ InvocationsUnchanged /\ PoolUnchanged /\ GhostUnchanged

(* Its close is confirmed, or fails, times out or panics.                  *)
CloseSession ==
    LET s == Held(closer) IN
    /\ closer.stage = "Close"
    /\ \/ /\ Closed(s) /\ SetSlot(s.slot, "Empty")
          /\ closer' = [closer EXCEPT !.stage = "Sample", !.session = {}]
          /\ UNCHANGED <<idle, quarantined, lost>>
          /\ InvocationsUnchanged
       \/ /\ Quarantine(s)
          /\ closer' = [closer EXCEPT !.stage = "Off", !.session = {}, !.result = "Incomplete"]
          /\ InvocationsUnchanged /\ GhostUnchanged

(* The pool must be empty and no operation unresolved.                     *)
Certify ==
    /\ closer.stage = "Certify"
    /\ closer' = [closer EXCEPT !.stage = "Off",
                     !.result = IF Occupied = {} /\ registry.operations = 0
                                THEN "Ok" ELSE "Incomplete"]
    /\ InvocationsUnchanged /\ PoolUnchanged /\ GhostUnchanged

-----------------------------------------------------------------------------
Supervise(i) ==
    \/ TakePermit(i) \/ TakePreparationLock(i) \/ Lookup(i) \/ Fetch(i) \/ FetchLate(i)
    \/ Publish(i) \/ Evict(i) \/ TakeSession(i) \/ Replace(i) \/ BeginStart(i) \/ Started(i)
    \/ CheckReady(i) \/ Admit(i) \/ Dispatch(i) \/ Finish(i) \/ Retire(i) \/ End(i)

Shutdown == Drain \/ SampleOwners \/ PickSession \/ PickNothing \/ CloseSession \/ Certify

Next ==
    \/ \E i \in Invs :
          \/ Execute(i) \/ CancelControl(i) \/ Supervise(i)
          \/ \E r \in Reservations : ExecuteReserved(i, r)
    \/ \E r \in Reservations : Reserve(r) \/ Release(r)
    \/ BeginShutdown \/ RetryShutdown \/ Shutdown

Spec == Init /\ [][Next]_vars

(* Adapters return, every control has a deadline, and a driver releases a  *)
(* reservation that shutdown cancelled.                                    *)
Fairness ==
    /\ \A i \in Invs : WF_vars(Supervise(i)) /\ WF_vars(CancelControl(i))
    /\ \A r \in Reservations : WF_vars(owners[r].cancelled /\ Release(r))
    /\ WF_vars(Shutdown)

FairSpec == Spec /\ Fairness

-----------------------------------------------------------------------------
TypeOK ==
    /\ \A i \in Invs :
          /\ invs[i].stage \in Stage
          /\ invs[i].via \in Reservations \cup {None}
          /\ invs[i].session \subseteq Session /\ Cardinality(invs[i].session) =< 1
          /\ {invs[i].cancelled, invs[i].started} \subseteq BOOLEAN
    /\ owners \in [Reservations -> [handle : BOOLEAN, taken : BOOLEAN, used : BOOLEAN, cancelled : BOOLEAN,
                                    attempts : SUBSET Attempts]]
    /\ registry \in [accepting : BOOLEAN, unresolved : SUBSET Attempts,
                     operations : Nat, consumers : SUBSET Reservations]
    /\ slots \in [Slot -> SlotState]
    /\ idle \in Seq(Session) /\ quarantined \in Seq(Session) /\ lost \subseteq Session
    /\ closer.stage \in {"Off", "Drain", "Sample", "Pick", "Close", "Certify"}
    /\ closer.result \in {"None", "Ok", "Incomplete"}
    /\ alive \subseteq Invs
    /\ runs \in [Invs -> Invs \cup {None}]

(* Every place a process handle can be.                                    *)
InHand   == UNION {invs[i].session : i \in Invs} \cup closer.session
Tracked  == Range(idle) \cup Range(quarantined) \cup lost \cup InHand
SlotOf(p) == (CHOOSE s \in Tracked : s.proc = p).slot

(* However starts, replacements, failed closes and panics interleave, the  *)
(* worker never has more processes than its concurrency: each one that may *)
(* exist has a handle, or a marker where its start panicked, and a slot of *)
(* its own that says so.                                                   *)
ProcessesAreTracked ==
    /\ \A p \in alive : \E s \in Tracked : s.proc = p
    /\ \A p, q \in alive : p # q => SlotOf(p) # SlotOf(q)
    /\ \A p \in alive : slots[SlotOf(p)] # "Empty"

(* A process is warm for the pool exactly when it is idle: never while it  *)
(* runs a program or is in the hands of a supervisor.                      *)
WarmMeansIdle ==
    /\ \A s \in Range(idle) : slots[s.slot] = "Warm" /\ runs[s.proc] = None
    /\ \A s \in InHand : slots[s.slot] # "Warm"

(* Code of one scope never runs in a process that another scope started.   *)
ScopesAreIsolated ==
    \A p \in alive : runs[p] # None => KeyOf[runs[p]] = KeyOf[p]

(* An attempt's code is never in two processes at once: not when its       *)
(* cleanup failed and it is submitted again, nor when a reservation still  *)
(* awaits settlement.                                                      *)
AttemptRunsOnce ==
    \A p, q \in alive :
        runs[p] # None /\ runs[q] # None /\ AttemptOf[runs[p]] = AttemptOf[runs[q]] => p = q

(* A driver that finds its reservation quiescent may report that cleanup   *)
(* is confirmed: nothing of its invocation is running or being fetched.    *)
QuiescentMeansStopped ==
    \A r \in Reservations : IsQuiescent(r) =>
        \A i \in Invs : invs[i].via = r =>
            /\ invs[i].stage = "Done"
            /\ \A p \in alive : runs[p] # i

(* A shutdown that reports success is over: no process, no supervisor, no  *)
(* reservation, and nothing can start any more.                            *)
StoppedMeansStopped ==
    closer.result = "Ok" => alive = {} /\ Active = {} /\ ~registry.accepting

(* The invariants of the pool together.                                    *)
PoolSound ==
    /\ TypeOK /\ ProcessesAreTracked /\ WarmMeansIdle /\ ScopesAreIsolated
    /\ AttemptRunsOnce /\ QuiescentMeansStopped /\ StoppedMeansStopped

(* Every accepted invocation ends, whatever permit it waits for.           *)
InvocationsEnd == \A i \in Invs : (invs[i].stage = "Permit") ~> (invs[i].stage = "Done")

(* A requested shutdown reaches a verdict although supervisors, drivers    *)
(* and the shutdown itself wait for one another.                           *)
ShutdownEnds == (closer.stage = "Drain") ~> (closer.result # "None")

(* Nothing the pool was asked for is left hanging.                         *)
PoolFinishes == InvocationsEnd /\ ShutdownEnds
=============================================================================
