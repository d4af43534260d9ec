--------------------------- MODULE TaskTransitions ---------------------------
(***************************************************************************)
(* The pure task and attempt transitions of ledgence-orchestration-core.   *)
(* Every operator maps transaction-loaded records to the records the       *)
(* storage adapter then persists; nothing here has state of its own.       *)
(*                                                                         *)
(* Times are naturals on the database clock, 0 meaning "not set".  Of a    *)
(* report only its class is kept, of a failure whether retryable_failure   *)
(* accepts its kind.  Scope, queue, program, trace and event identities    *)
(* are validated but never changed by the code and are left out, as are    *)
(* the timestamps nothing reads back (terminal_at, finished_at).           *)
(***************************************************************************)
EXTENDS Integers

CONSTANTS
    LeaseDuration,      \* LEASE_DURATION_MS
    CleanupGrace,       \* CLEANUP_GRACE_MS
    SessionValidity,    \* SESSION_VALIDITY_MS
    AttemptTimeout,     \* input.attempt_timeout_ms
    RetryDelay,         \* input.retry_policy.retry_delay_ms
    MaxAttempts,        \* input.retry_policy.max_attempts
    MaxGeneration       \* MAX_TASK_ATTEMPT_GENERATION

ASSUME TimingAssumption ==
    /\ LeaseDuration \in Nat \ {0}
    /\ CleanupGrace \in Nat \ {0}
    /\ SessionValidity \in Nat \ {0}
    /\ AttemptTimeout \in Nat \ {0}
    /\ RetryDelay \in Nat

ASSUME RetryAssumption ==
    /\ MaxAttempts \in Nat \ {0}
    /\ MaxGeneration \in Nat
    /\ MaxAttempts =< MaxGeneration

Earlier(x, y) == IF x =< y THEN x ELSE y

Generation == 1 .. MaxGeneration
NoTime     == 0
NoAttempt  == 0

TaskState    == {"Absent", "Queued", "Active", "Succeeded", "Failed", "Cancelled"}
Terminal     == {"Succeeded", "Failed", "Cancelled"}
AttemptState == {"None", "Active", "Succeeded", "Failed", "Lost", "Cancelled"}
RenewIntent  == {"None", "Dispatch", "KeepAlive"}
Quiescence   == {"Unconfirmed", "Confirmed"}

(* AttemptReport by what finish distinguishes: a successful program, an    *)
(* error kind retryable_failure accepts, or a final failure (a program     *)
(* Failure, or any other error kind).                                      *)
Outcome  == {"Success", "Retryable", "Permanent"}
NoReport == "None"

Task ==
    [state : TaskState, available_at : Nat, current : 0 .. MaxGeneration,
     attempt_count : 0 .. MaxGeneration, cancel_requested_at : Nat]

Attempt(Owner) ==
    [state : AttemptState, owner : Owner,
     expires_at : Nat, deadline : Nat, authority_deadline : Nat,
     started : BOOLEAN, renew_sequence : Nat, renew_intent : RenewIntent,
     quiescence : Quiescence, settlement : Outcome \cup {NoReport}]

AbsentTask ==
    [state |-> "Absent", available_at |-> 0, current |-> NoAttempt,
     attempt_count |-> 0, cancel_requested_at |-> NoTime]

CancelRequested(t) == t.cancel_requested_at # NoTime

-----------------------------------------------------------------------------
(* submit: bind a validated submission and make it claimable at once.      *)
Submitted(at) == [AbsentTask EXCEPT !.state = "Queued", !.available_at = at]

(* live: this attempt still holds the task at the given time.             *)
Live(t, a, g, at) ==
    /\ t.state = "Active"
    /\ a.state = "Active"
    /\ t.current = g
    /\ at < a.expires_at
    /\ at < a.authority_deadline

(* The cap that claim and renewal put on a lease.                          *)
LeaseUntil(at, authority_deadline, session_expires_at) ==
    Earlier(Earlier(at + LeaseDuration, authority_deadline), session_expires_at)

(* authority: what an acquisition or renewal reply tells the worker.       *)
Authority(t, a, g, at) ==
    LET valid        == Live(t, a, g, at)
        cancellation == CancelRequested(t) \/ at >= a.deadline
    IN  [remaining           |-> IF valid THEN a.expires_at - at ELSE 0,
         execution_remaining |-> IF valid /\ ~cancellation THEN a.deadline - at ELSE 0,
         renew_sequence      |-> a.renew_sequence,
         cancel_requested    |-> cancellation,
         dispatch_allowed    |-> /\ valid
                                 /\ ~cancellation
                                 /\ a.settlement = NoReport
                                 /\ a.renew_intent = "Dispatch"]

(* acquire: a task acquisition may hand out.                               *)
Claimable(t, at) ==
    /\ t.state = "Queued"
    /\ ~CancelRequested(t)
    /\ t.available_at =< at

(* acquire: its internal consistency checks on the candidate, which fail   *)
(* the whole acquisition rather than skip the task.                        *)
Assignable(t) ==
    /\ t.current = NoAttempt
    /\ t.attempt_count + 1 =< MaxGeneration
    /\ t.attempt_count < MaxAttempts

ClaimedTask(t) ==
    [t EXCEPT !.state = "Active", !.attempt_count = @ + 1, !.current = t.attempt_count + 1]

ClaimedAttempt(owner, session_expires_at, at) ==
    LET deadline == at + AttemptTimeout
        horizon  == deadline + CleanupGrace
    IN  [state |-> "Active", owner |-> owner,
         expires_at |-> LeaseUntil(at, horizon, session_expires_at),
         deadline |-> deadline, authority_deadline |-> horizon,
         started |-> FALSE, renew_sequence |-> 0, renew_intent |-> "None",
         quiescence |-> "Unconfirmed", settlement |-> NoReport]

(* renew: accept the next renewal of a live attempt.                       *)
RenewedAttempt(t, a, intent, session_expires_at, at) ==
    LET dispatches == /\ intent = "Dispatch"
                      /\ ~CancelRequested(t)
                      /\ at < a.deadline
                      /\ a.settlement = NoReport
    IN  [a EXCEPT !.expires_at     = LeaseUntil(at, a.authority_deadline, session_expires_at),
                  !.renew_sequence = @ + 1,
                  !.renew_intent   = intent,
                  !.started        = @ \/ dispatches]

-----------------------------------------------------------------------------
(* finish: the scheduling decision once an attempt is over.                *)
RetryableOutcome(a) == a.settlement \in {"Retryable", NoReport}

MayRetry(t, a) ==
    /\ ~CancelRequested(t)
    /\ RetryableOutcome(a)
    /\ t.attempt_count < MaxGeneration
    /\ t.attempt_count < MaxAttempts

FinishedAttemptState(t, a) ==
    IF CancelRequested(t)
    THEN IF a.quiescence = "Confirmed" THEN "Cancelled" ELSE "Lost"
    ELSE IF a.settlement = "Success" THEN "Succeeded"
    ELSE IF a.settlement = NoReport THEN "Lost"
    ELSE "Failed"

FinishedTaskState(t, a) ==
    IF CancelRequested(t) THEN "Cancelled"
    ELSE IF a.settlement = "Success" THEN "Succeeded"
    ELSE IF MayRetry(t, a) THEN "Queued"
    ELSE "Failed"

(* Mutant of FinishedAttempt: the attempt row is left behind.              *)
FinishedTaskOnly(t, a) == a

FinishedAttempt(t, a) == [a EXCEPT !.state = FinishedAttemptState(t, a)]

FinishedTask(t, a, at) ==
    [t EXCEPT !.current      = NoAttempt,
              !.state        = FinishedTaskState(t, a),
              !.available_at = IF MayRetry(t, a) THEN at + RetryDelay ELSE @]

(* settle: store the immutable report.  A completed program has started; a *)
(* failed one says whether it may have.                                    *)
ClaimsStart(outcome, may_have_started) == outcome = "Success" \/ may_have_started

(* Mutant of SettledAttempt: the report overwrites the recorded start.     *)
SettledByReport(a, outcome, may_have_started, quiescence) ==
    [a EXCEPT !.settlement = outcome,
              !.quiescence = quiescence,
              !.started    = ClaimsStart(outcome, may_have_started)]

SettledAttempt(a, outcome, may_have_started, quiescence) ==
    [a EXCEPT !.settlement = outcome,
              !.quiescence = quiescence,
              !.started    = @ \/ ClaimsStart(outcome, may_have_started)]

(* cancel of a live attempt: shorten its authority to the cleanup grace.   *)
CancelledAttempt(a, at) ==
    LET horizon == Earlier(a.authority_deadline, at + CleanupGrace)
    IN  [a EXCEPT !.authority_deadline = horizon,
                  !.expires_at         = Earlier(@, horizon)]

=============================================================================
