---------------------------- MODULE TaskLifecycle ----------------------------
(***************************************************************************)
(* The authoritative store: tasks, their attempts, worker sessions and     *)
(* consumer cursors, and the transactions of ledgence-adapter-postgres     *)
(* that load them under row locks, call a core transition and persist all  *)
(* of its result.  A transaction holds the task row from before it samples *)
(* the clock until it commits, so each is one atomic action here.          *)
(*                                                                         *)
(* Any worker may send any command at any time: a stale, repeated or out   *)
(* of order command finds its guard false, which is the code's error or    *)
(* replay reply and changes nothing.                                       *)
(*                                                                         *)
(* One scope and one pull queue without concurrency policy; tasks carry no *)
(* admission requirement and belong to no workflow.                        *)
(***************************************************************************)
EXTENDS TaskTransitions

CONSTANTS
    Tasks,          \* submission identities (scope and idempotency key)
    Sessions,       \* worker session identities the store may allocate
    Consumers,      \* consumer_id values below the session's concurrency
    None,           \* no owner, no assignment
    MaxTime,        \* bound: the clock stops here
    ClaimHorizon,   \* bound: no submission or claim after this time
    MaxRenewals,    \* bound: renewals accepted per attempt
    MaxSequence     \* bound: acquisitions per consumer

ASSUME BoundsAssumption ==
    /\ None \notin Sessions \X Consumers /\ None \notin Tasks \X Generation
    /\ MaxTime \in Nat
    /\ ClaimHorizon \in Nat
    /\ MaxRenewals \in Nat
    /\ MaxSequence \in Nat

VARIABLES
    now,        \* clock_timestamp(), assumed monotone
    tasks,      \* tasks[t]: the row of table tasks
    attempts,   \* attempts[t][g]: the row of generation g in table attempts
    sessions,   \* sessions[s]: expires_at, NoTime before open_session
    cursors     \* cursors[<<s,c>>]: the row of table consumer_cursors

vars == <<now, tasks, attempts, sessions, cursors>>

Slot == Sessions \X Consumers
SessionOf(slot) == slot[1]

Cursor   == [sequence : Nat, assignment : (Tasks \X Generation) \cup {None}]
NoCursor == [sequence |-> 0, assignment |-> None]

AbsentAttempt ==
    [state |-> "None", owner |-> None,
     expires_at |-> 0, deadline |-> 0, authority_deadline |-> 0,
     started |-> FALSE, renew_sequence |-> 0, renew_intent |-> "None",
     quiescence |-> "Unconfirmed", settlement |-> NoReport]

Init ==
    /\ now = 1
    /\ tasks = [t \in Tasks |-> AbsentTask]
    /\ attempts = [t \in Tasks |-> [g \in Generation |-> AbsentAttempt]]
    /\ sessions = [s \in Sessions |-> NoTime]
    /\ cursors = [slot \in Slot |-> NoCursor]

-----------------------------------------------------------------------------
SessionValid(s) == sessions[s] # NoTime /\ now < sessions[s]

LiveAttempt(t, g) == Live(tasks[t], attempts[t][g], g, now)

(* persistence::apply: one transition's task and attempt rows together.    *)
Apply(t, g, task, attempt) ==
    /\ tasks' = [tasks EXCEPT ![t] = task]
    /\ attempts' = [attempts EXCEPT ![t][g] = attempt]

(* The transition of core::finish applied to an attempt already updated by *)
(* the operation that ends it.                                             *)
Finish(t, g, task, attempt) ==
    Apply(t, g, FinishedTask(task, attempt, now), FinishedAttempt(task, attempt))

(* accept_resolved_submission: the unique key admits one row per identity; *)
(* a repeated submission reads the winner and changes nothing.             *)
Submit(t) ==
    /\ tasks[t].state = "Absent"
    /\ now =< ClaimHorizon
    /\ tasks' = [tasks EXCEPT ![t] = Submitted(now)]
    /\ UNCHANGED <<now, attempts, sessions, cursors>>

OpenSession(s) ==
    /\ sessions[s] = NoTime
    /\ sessions' = [sessions EXCEPT ![s] = now + SessionValidity]
    /\ UNCHANGED <<now, tasks, attempts, cursors>>

ExtendSession(s) ==
    /\ SessionValid(s)
    /\ sessions' = [sessions EXCEPT ![s] = now + SessionValidity]
    /\ UNCHANGED <<now, tasks, attempts, cursors>>

(* A consumer may close its next sequence unless its saved assignment is   *)
(* still live (Busy).                                                      *)
MayAdvance(slot) ==
    /\ SessionValid(SessionOf(slot))
    /\ cursors[slot].sequence < MaxSequence
    /\ cursors[slot].assignment # None =>
           ~LiveAttempt(cursors[slot].assignment[1], cursors[slot].assignment[2])

AdvanceCursor(slot, assignment) ==
    cursors' = [cursors EXCEPT ![slot] =
                    [sequence |-> @.sequence + 1, assignment |-> assignment]]

(* probe_acquisition_once with a candidate.  SKIP LOCKED lets concurrent   *)
(* acquisitions take any claimable task, so the queue order is not kept.   *)
AcquireTask(slot, t) ==
    LET g == tasks[t].attempt_count + 1 IN
    /\ MayAdvance(slot)
    /\ now =< ClaimHorizon
    /\ Claimable(tasks[t], now)
    /\ Assignable(tasks[t])
    /\ Apply(t, g, ClaimedTask(tasks[t]),
                   ClaimedAttempt(slot, sessions[SessionOf(slot)], now))
    /\ AdvanceCursor(slot, <<t, g>>)
    /\ UNCHANGED <<now, sessions>>

(* The final scan of a long poll finds nothing unlocked: a durable Empty.  *)
AcquireEmpty(slot) ==
    /\ MayAdvance(slot)
    /\ AdvanceCursor(slot, None)
    /\ UNCHANGED <<now, tasks, attempts, sessions>>

(* renew_once: the owner's session must be valid and its cursor must still *)
(* point at this attempt.                                                  *)
Renew(t, g, intent) ==
    LET a == attempts[t][g] IN
    /\ LiveAttempt(t, g)
    /\ SessionValid(SessionOf(a.owner))
    /\ cursors[a.owner].assignment = <<t, g>>
    /\ a.renew_sequence < MaxRenewals
    /\ Apply(t, g, tasks[t],
             RenewedAttempt(tasks[t], a, intent, sessions[SessionOf(a.owner)], now))
    /\ UNCHANGED <<now, sessions, cursors>>

(* settle_once: a report of unconfirmed cleanup only stores the report.    *)
Settle(t, g, outcome, may_have_started, quiescence) ==
    LET a == SettledAttempt(attempts[t][g], outcome, may_have_started, quiescence) IN
    /\ LiveAttempt(t, g)
    /\ attempts[t][g].settlement = NoReport
    /\ \/ /\ quiescence = "Confirmed"
          /\ Finish(t, g, tasks[t], a)
       \/ /\ quiescence = "Unconfirmed"
          /\ Apply(t, g, tasks[t], a)
    /\ UNCHANGED <<now, sessions, cursors>>

ConfirmQuiescence(t, g) ==
    /\ LiveAttempt(t, g)
    /\ attempts[t][g].quiescence = "Unconfirmed"
    /\ attempts[t][g].settlement # NoReport
    /\ Finish(t, g, tasks[t], [attempts[t][g] EXCEPT !.quiescence = "Confirmed"])
    /\ UNCHANGED <<now, sessions, cursors>>

(* next_expiry_ms of the current attempt, the recovery scan's index.       *)
NextExpiry(t) ==
    LET a == attempts[t][tasks[t].current] IN Earlier(a.expires_at, a.authority_deadline)

(* Mutant of Expire: recovery insists on the owner's session being valid.  *)
ExpireUnderSession(t) ==
    LET g == tasks[t].current IN
    /\ tasks[t].state = "Active"
    /\ NextExpiry(t) =< now
    /\ SessionValid(SessionOf(attempts[t][g].owner))
    /\ Finish(t, g, tasks[t], attempts[t][g])
    /\ UNCHANGED <<now, sessions, cursors>>

(* expire_batch and expire_one.                                            *)
Expire(t) ==
    LET g == tasks[t].current IN
    /\ tasks[t].state = "Active"
    /\ NextExpiry(t) =< now
    /\ Finish(t, g, tasks[t], attempts[t][g])
    /\ UNCHANGED <<now, sessions, cursors>>

(* storage.rs cancel: a queued task ends here; an active one past its      *)
(* lease is expired as cancelled; a live one keeps only its cleanup grace. *)
Cancel(t) ==
    LET g         == tasks[t].current
        cancelled == [tasks[t] EXCEPT !.cancel_requested_at = now]
    IN
    /\ tasks[t].state \in {"Queued", "Active"}
    /\ ~CancelRequested(tasks[t])
    /\ \/ /\ tasks[t].state = "Queued"
          /\ tasks' = [tasks EXCEPT ![t] = [cancelled EXCEPT !.state = "Cancelled"]]
          /\ UNCHANGED attempts
       \/ /\ tasks[t].state = "Active"
          /\ NextExpiry(t) =< now
          /\ Finish(t, g, cancelled, attempts[t][g])
       \/ /\ tasks[t].state = "Active"
          /\ now < NextExpiry(t)
          /\ Apply(t, g, cancelled, CancelledAttempt(attempts[t][g], now))
    /\ UNCHANGED <<now, sessions, cursors>>

Tick ==
    /\ now < MaxTime
    /\ now' = now + 1
    /\ UNCHANGED <<tasks, attempts, sessions, cursors>>

Next ==
    \/ Tick
    \/ \E s \in Sessions : OpenSession(s) \/ ExtendSession(s)
    \/ \E slot \in Slot : AcquireEmpty(slot) \/ \E t \in Tasks : AcquireTask(slot, t)
    \/ \E t \in Tasks : Submit(t) \/ Cancel(t) \/ Expire(t)
    \/ \E t \in Tasks, g \in Generation :
          \/ \E intent \in {"Dispatch", "KeepAlive"} : Renew(t, g, intent)
          \/ \E outcome \in Outcome, started \in BOOLEAN, q \in Quiescence :
                Settle(t, g, outcome, started, q)
          \/ ConfirmQuiescence(t, g)

Spec == Init /\ [][Next]_vars

(* Time passes and the orchestrator's recovery loop keeps scanning.        *)
Fairness == WF_vars(Tick) /\ \A t \in Tasks : WF_vars(Expire(t))

FairSpec == Spec /\ Fairness

-----------------------------------------------------------------------------
(* Types of all rows.                                                      *)
TypeOK ==
    /\ now \in Nat
    /\ tasks \in [Tasks -> Task]
    /\ attempts \in [Tasks -> [Generation -> Attempt(Slot \cup {None})]]
    /\ sessions \in [Sessions -> Nat]
    /\ cursors \in [Slot -> Cursor]

(* A task has at most one active attempt: its latest generation, and only  *)
(* while the task itself is active.  finish, cancel and acquire update two *)
(* rows each; a missed one leaves an orphan that expire rejects forever.   *)
SingleOwner ==
    \A t \in Tasks, g \in Generation :
        (attempts[t][g].state = "Active")
            <=> /\ tasks[t].state = "Active"
                /\ tasks[t].current = g
                /\ tasks[t].attempt_count = g

(* Supporting facts of SingleOwner: an active task points at an existing   *)
(* attempt, any other at none; exactly the claimed generations exist, each *)
(* owned by a consumer slot, and nothing is recorded for the others.       *)
RowsConsistent ==
    \A t \in Tasks :
        /\ tasks[t].state = "Absent" => tasks[t] = AbsentTask
        /\ tasks[t].state = "Active" => tasks[t].current \in Generation
        /\ tasks[t].state # "Active" => tasks[t].current = NoAttempt
        /\ tasks[t].state = "Active" => tasks[t].attempt_count = tasks[t].current
        /\ \A g \in Generation :
               /\ g > tasks[t].attempt_count => attempts[t][g] = AbsentAttempt
               /\ g =< tasks[t].attempt_count =>
                      attempts[t][g].state # "None" /\ attempts[t][g].owner \in Slot

(* A lease never outlives its hard horizon or the session that holds it,   *)
(* and a requested cancellation caps it by the cleanup grace, whatever is  *)
(* renewed or extended afterwards.                                         *)
LeaseBounded ==
    \A t \in Tasks, g \in Generation :
        LET a == attempts[t][g] IN
        a.state = "Active" =>
            /\ a.expires_at =< a.authority_deadline
            /\ a.authority_deadline =< a.deadline + CleanupGrace
            /\ a.expires_at =< sessions[SessionOf(a.owner)]
            /\ CancelRequested(tasks[t]) =>
                   a.authority_deadline =< tasks[t].cancel_requested_at + CleanupGrace

(* A live attempt is the saved assignment of the consumer that owns it, so *)
(* a consumer never holds two: the Busy check and the cursor written with  *)
(* every claim keep old attempts from coexisting with a new one.           *)
LiveHoldsCursor ==
    \A t \in Tasks, g \in Generation :
        LiveAttempt(t, g) => cursors[attempts[t][g].owner].assignment = <<t, g>>

(* A queued task can always be claimed once available: acquire's retry and *)
(* generation checks fail the acquisition instead of skipping the task, so *)
(* a queued task that fails them would block its whole queue.              *)
QueuedIsAssignable ==
    \A t \in Tasks :
        tasks[t].state = "Queued" => Assignable(tasks[t]) /\ ~CancelRequested(tasks[t])

(* An accepted success is final: no later generation is ever claimed, and  *)
(* the task ends Succeeded unless cancellation was accepted first.         *)
SuccessIsFinal ==
    \A t \in Tasks, g \in Generation :
        attempts[t][g].settlement = "Success" =>
            /\ tasks[t].attempt_count = g
            /\ tasks[t].state \in
                   IF CancelRequested(tasks[t]) THEN {"Active", "Cancelled"}
                                                ELSE {"Active", "Succeeded"}

(* Whenever a reply would allow dispatch, the store already records that   *)
(* user code may have started: no invocation the record does not know of.  *)
DispatchIsRecorded ==
    \A t \in Tasks, g \in Generation :
        Authority(tasks[t], attempts[t][g], g, now).dispatch_allowed
            => attempts[t][g].started

(* The invariants of the store together.                                   *)
StoreSound ==
    /\ TypeOK /\ SingleOwner /\ LeaseBounded /\ LiveHoldsCursor
    /\ QueuedIsAssignable /\ SuccessIsFinal /\ DispatchIsRecorded

(* Once a task is terminal neither its row nor any attempt changes: late   *)
(* renewals, reports, confirmations, cancels and expiry scans are refused. *)
TerminalFrozen ==
    [][\A t \in Tasks :
          tasks[t].state \in Terminal =>
              tasks'[t] = tasks[t] /\ attempts'[t] = attempts[t]]_vars

(* A report accepted for an attempt is never replaced, an attempt that     *)
(* ended never changes, and the record that user code may have started is  *)
(* never withdrawn.                                                        *)
AttemptMonotone ==
    [][\A t \in Tasks, g \in Generation :
          LET a == attempts[t][g]  b == attempts'[t][g] IN
          /\ a.settlement # NoReport => b.settlement = a.settlement
          /\ a.state \notin {"None", "Active"} => b = a
          /\ a.started => b.started
          /\ a.state = "Active" => b.authority_deadline =< a.authority_deadline]_vars

(* After cancellation is accepted no attempt is claimed and no dispatch is *)
(* newly authorized; only a report may still record that code had started. *)
NothingStartsAfterCancel ==
    [][\A t \in Tasks : CancelRequested(tasks[t]) =>
          /\ tasks'[t].attempt_count = tasks[t].attempt_count
          /\ tasks'[t].state # "Queued"
          /\ \A g \in Generation :
                (~attempts[t][g].started /\ attempts'[t][g].started)
                    => attempts'[t][g].settlement # NoReport]_vars

(* What the store has once recorded stands, whatever is sent later.        *)
HistorySound == TerminalFrozen /\ AttemptMonotone /\ NothingStartsAfterCancel

=============================================================================
