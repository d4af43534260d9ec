--------------------------- MODULE WorkerDelivery ---------------------------
(***************************************************************************)
(* Workers against the store of TaskLifecycle: ledgence-worker-delivery's  *)
(* consumers, each processing one assignment at a time with a renewal      *)
(* monitor running beside it, over a network that may delay, lose or       *)
(* repeat exchanges.  Here the store's transactions are driven by the      *)
(* commands these workers send, no longer by an arbitrary client.          *)
(*                                                                         *)
(* A request, once sent, may be served at any later time and repeatedly:   *)
(* retries carry the exact same command, so copies need not be counted.    *)
(* Its answer reaches the worker only through an exchange still open.      *)
(* Worker and database clocks advance at the same rate; a worker may act   *)
(* on an expired permission up to MaxLag late, which is the environment    *)
(* assumption the safety margin is there for.  Ordinary assignments only:  *)
(* no admission, no workflow, no provider probe, no queue hold.            *)
(***************************************************************************)
EXTENDS TaskLifecycle, LeaseTracker

CONSTANTS
    RequestTimeout,     \* config.request_timeout
    ConfirmTimeout,     \* CONTROL_REQUEST_TIMEOUT_MS, for the first renewal
    ExtendInterval,     \* config.session_extend_interval
    MaxLag              \* worst delay before a worker acts on its own deadline

ASSUME LagAssumption ==
    /\ RequestTimeout \in Nat \ {0}
    /\ ConfirmTimeout \in Nat \ {0}
    /\ ExtendInterval \in Nat \ {0}
    /\ MaxLag \in Nat
    /\ MaxLag < SafetyMargin

VARIABLES
    workers,    \* workers[slot]: the consumer and its attempt's monitor
    stopping    \* sessions whose worker is shutting down (Shared::stop)

wvars == <<vars, workers, stopping>>

NoReply == [kind |-> "None"]
Refused == [kind |-> "OwnershipLost"]
Expired == [kind |-> "SessionExpired"]

NoCommand  == [sequence |-> 0, intent |-> "None", sent |-> FALSE]
NoExchange == [started |-> NoTime, reply |-> NoReply]
NoSettle   == [outcome |-> NoReport, may_have_started |-> FALSE,
               quiescence |-> "Unconfirmed"]

(* stage: what the consumer task is doing.  "Claimed" is an acquisition    *)
(* whose reply has not arrived; "Prepared" has taken dispatch permission;  *)
(* "Reporting" repeats a frozen settlement until it is resolved.           *)
Stage == {"Idle", "Claimed", "Waiting", "Prepared", "Running", "Reporting",
          "Accepted", "Lost"}

IdleWorker ==
    [stage |-> "Idle", attempt |-> None,
     phase |-> "Stopped", confirm_by |-> NoTime, control_deadline |-> NoTime,
     tracker |-> NewTracker, ready |-> FALSE, consumed |-> FALSE,
     monitoring |-> FALSE, command |-> NoCommand, exchange |-> NoExchange,
     settle |-> NoSettle, quiescent |-> TRUE]

WInit ==
    /\ Init
    /\ workers = [slot \in Slot |-> IdleWorker]
    /\ stopping = {}

-----------------------------------------------------------------------------
Stopping(slot) == SessionOf(slot) \in stopping

(* RunControl::check: cancelled through Permission::stop, or past its      *)
(* fixed deadline.                                                         *)
ControlOK(w) == w.phase = "Confirmed" /\ now < w.control_deadline

StopPermission(w) == [w EXCEPT !.phase = "Stopped", !.ready = FALSE]

(* Permission::check.                                                      *)
CheckPermission(w, halt) ==
    LET seen    == [w EXCEPT !.tracker =
                        IF w.phase = "Confirmed" THEN ObserveLease(@, now) ELSE @]
        expired == \/ w.phase = "Awaiting" /\ now >= w.confirm_by
                   \/ w.phase = "Confirmed" /\ (seen.tracker.state # "Active" \/ ~ControlOK(w))
    IN  IF halt \/ expired THEN StopPermission(seen) ELSE seen

(* Mutant of AcceptAuthority: a reply revives a stopped permission.        *)
AcceptRevived(w, authority, started) ==
    LET checked == CheckPermission(w, FALSE)
        applied == [checked EXCEPT !.tracker = ApplyAuthority(@, authority, started, now)]
    IN  IF w.command.intent # "Dispatch" THEN applied
        ELSE [applied EXCEPT !.ready = TRUE, !.phase = "Confirmed",
                             !.control_deadline = applied.tracker.execution_deadline]

(* Permission::accept of a positive reply to the command in flight.        *)
AcceptAuthority(w, authority, started) ==
    LET checked == CheckPermission(w, FALSE)
        applied == [checked EXCEPT !.tracker = ApplyAuthority(@, authority, started, now)]
    IN  IF checked.phase = "Stopped" THEN checked
        ELSE IF applied.tracker.state \in StoppedLease THEN StopPermission(applied)
        ELSE IF w.command.intent # "Dispatch" THEN applied
        ELSE IF ~MayDispatch(applied.tracker) THEN StopPermission(applied)
        ELSE [applied EXCEPT !.ready = TRUE, !.phase = "Confirmed",
                             !.control_deadline =
                                 IF checked.phase = "Awaiting"
                                 THEN applied.tracker.execution_deadline ELSE @]

(* The next command of Monitor::run after an accepted renewal: keep asking *)
(* for dispatch until the consumer has taken it.                           *)
NextCommand(w) ==
    [sequence |-> w.command.sequence + 1, sent |-> FALSE,
     intent |-> IF w.consumed \/ w.phase = "Stopped" THEN "KeepAlive" ELSE "Dispatch"]

Update(slot, w) == workers' = [workers EXCEPT ![slot] = w]
ServerUnchanged == UNCHANGED vars

Monitoring(slot) == workers[slot].monitoring
TaskOf(slot)     == workers[slot].attempt[1]
GenOf(slot)      == workers[slot].attempt[2]
AttemptOf(slot)  == attempts[TaskOf(slot)][GenOf(slot)]

-----------------------------------------------------------------------------
(* The consumer sends its next acquisition and the store claims a task.    *)
Acquire(slot, t) ==
    /\ workers[slot].stage = "Idle"
    /\ ~Stopping(slot)
    /\ AcquireTask(slot, t)
    /\ Update(slot, [IdleWorker EXCEPT !.stage = "Claimed",
                                       !.attempt = <<t, tasks[t].attempt_count + 1>>])
    /\ UNCHANGED stopping

AcquireNothing(slot) ==
    /\ workers[slot].stage = "Idle"
    /\ ~Stopping(slot)
    /\ AcquireEmpty(slot)
    /\ UNCHANGED <<workers, stopping>>

(* Its reply, or the replay of a retry, arrives: Monitor::new.  The reply  *)
(* may be as old as the claim, which was valid, or show the state now.     *)
Deliver(slot) ==
    LET authority == Authority(tasks[TaskOf(slot)], AttemptOf(slot), GenOf(slot), now)
        dead == \/ authority.cancel_requested
                \/ authority.remaining = 0 \/ authority.execution_remaining = 0
    IN
    /\ workers[slot].stage = "Claimed"
    /\ now + ConfirmTimeout =< MaxTime      \* bound: the clock must outlast the wait
    /\ \E phase \in {"Awaiting"} \cup (IF dead THEN {"Stopped"} ELSE {}) :
          Update(slot, [workers[slot] EXCEPT
                            !.stage = "Waiting", !.phase = phase,
                            !.confirm_by = now + ConfirmTimeout, !.monitoring = TRUE,
                            !.command = [sequence |-> 1, intent |-> "Dispatch", sent |-> FALSE]])
    /\ ServerUnchanged /\ UNCHANGED stopping

(* The replay finds the saved assignment no longer live.                   *)
DeliverLost(slot) ==
    /\ workers[slot].stage = "Claimed"
    /\ ~LiveAttempt(TaskOf(slot), GenOf(slot))
    /\ Update(slot, IdleWorker)
    /\ ServerUnchanged /\ UNCHANGED stopping

(* The monitor's and the dispatch loop's periodic check.                   *)
Check(slot) ==
    /\ Monitoring(slot)
    /\ Update(slot, CheckPermission(workers[slot], Stopping(slot)))
    /\ ServerUnchanged /\ UNCHANGED stopping

(* Monitor::run sends its command, unchanged if it was sent before.        *)
SendRenew(slot) ==
    LET w == CheckPermission(workers[slot], Stopping(slot)) IN
    /\ Monitoring(slot)
    /\ w.exchange = NoExchange
    /\ w.command.sequence =< MaxRenewals
    /\ Update(slot, [w EXCEPT
           !.command.intent = IF ~w.command.sent /\ w.phase = "Stopped" THEN "KeepAlive" ELSE @,
           !.command.sent = TRUE,
           !.exchange = [started |-> now, reply |-> NoReply]])
    /\ ServerUnchanged /\ UNCHANGED stopping

(* Keep a computed answer for the worker if its exchange is still open.    *)
Answer(slot, reply) ==
    Update(slot, [workers[slot] EXCEPT
        !.exchange.reply = IF workers[slot].exchange # NoExchange /\ @ = NoReply
                           THEN reply ELSE @])

(* A sent renewal is served: accepted as the next sequence, ...            *)
ServeRenew(slot) ==
    LET w == workers[slot]  t == TaskOf(slot)  g == GenOf(slot) IN
    /\ Monitoring(slot)
    /\ w.command.sent
    /\ w.command.sequence = AttemptOf(slot).renew_sequence + 1
    /\ Renew(t, g, w.command.intent)
    /\ Answer(slot, [kind |-> "Authority",
                     authority |-> Authority(tasks'[t], attempts'[t][g], g, now)])
    /\ UNCHANGED stopping

(* ... replayed with the authority of now, or refused.                     *)
ServeRenewReplay(slot) ==
    LET w == workers[slot]  t == TaskOf(slot)  g == GenOf(slot)
        owned == LiveAttempt(t, g) /\ cursors[slot].assignment = <<t, g>>
        valid == SessionValid(SessionOf(slot))
    IN
    /\ Monitoring(slot)
    /\ w.command.sent
    /\ w.exchange # NoExchange /\ w.exchange.reply = NoReply
    /\ \/ /\ valid /\ owned
          /\ w.command.sequence = AttemptOf(slot).renew_sequence
          /\ Answer(slot, [kind |-> "Authority",
                           authority |-> Authority(tasks[t], AttemptOf(slot), g, now)])
       \/ /\ valid /\ ~owned
          /\ Answer(slot, Refused)
       \/ /\ ~valid
          /\ Answer(slot, Expired)
    /\ ServerUnchanged /\ UNCHANGED stopping

(* Monitor::run handles an answer that came back within the exchange.      *)
ReceiveRenew(slot) ==
    LET w       == workers[slot]
        checked == CheckPermission(w, Stopping(slot))
        applied == AcceptAuthority(checked, w.exchange.reply.authority, w.exchange.started)
    IN
    /\ Monitoring(slot)
    /\ w.exchange.reply # NoReply
    /\ now < w.exchange.started + RequestTimeout
    /\ \/ /\ w.exchange.reply.kind = "Authority"
          /\ Update(slot, [applied EXCEPT !.exchange = NoExchange,
                                          !.command = NextCommand(applied)])
          /\ UNCHANGED stopping
       \/ /\ w.exchange.reply \in {Refused, Expired}
          /\ Update(slot, [StopPermission(checked) EXCEPT
                               !.exchange = NoExchange, !.monitoring = FALSE])
          /\ stopping' = IF w.exchange.reply = Expired
                         THEN stopping \cup {SessionOf(slot)} ELSE stopping
    /\ ServerUnchanged

(* The exchange times out or fails: its outcome is unknown and the same    *)
(* command will be sent again.                                             *)
AbandonExchange(slot) ==
    /\ Monitoring(slot)
    /\ workers[slot].exchange # NoExchange
    /\ Update(slot, [CheckPermission(workers[slot], Stopping(slot)) EXCEPT
                         !.exchange = NoExchange])
    /\ ServerUnchanged /\ UNCHANGED stopping

-----------------------------------------------------------------------------
Report(w, outcome, may_have_started, quiescence) ==
    [w EXCEPT !.stage = "Reporting", !.quiescent = (quiescence = "Confirmed"),
              !.settle = [outcome |-> outcome, may_have_started |-> may_have_started,
                          quiescence |-> quiescence]]

(* Unconfirmed cleanup drains the whole worker (Shared::stop).             *)
StopIfUnconfirmed(slot, quiescence) ==
    stopping' = IF quiescence = "Unconfirmed" THEN stopping \cup {SessionOf(slot)}
                                              ELSE stopping

(* Monitor::dispatch: take the permission once, or give up.                *)
Dispatch(slot) ==
    LET w    == CheckPermission(workers[slot], Stopping(slot))
        seen == [w EXCEPT !.tracker = ObserveLease(@, now)]
    IN
    /\ workers[slot].stage = "Waiting"
    /\ \/ /\ w.phase # "Stopped" /\ w.ready
          /\ MayDispatch(seen.tracker) /\ ControlOK(w)
          /\ Update(slot, [seen EXCEPT !.consumed = TRUE, !.stage = "Prepared"])
       \/ /\ \/ w.phase = "Stopped"
             \/ w.ready /\ ~(MayDispatch(seen.tracker) /\ ControlOK(w))
          /\ Update(slot, Report(StopPermission(seen), "Retryable", FALSE, "Confirmed"))
    /\ ServerUnchanged /\ UNCHANGED stopping

(* Reservation::execute: user code starts only under a valid control;      *)
(* otherwise, or when preparing the program fails, it never starts.        *)
StartWork(slot) ==
    /\ workers[slot].stage = "Prepared"
    /\ ControlOK(workers[slot])
    /\ Update(slot, [workers[slot] EXCEPT !.stage = "Running"])
    /\ ServerUnchanged /\ UNCHANGED stopping

FailStart(slot) ==
    /\ workers[slot].stage = "Prepared"
    /\ \E outcome \in {"Retryable", "Permanent"}, quiescence \in Quiescence :
          /\ Update(slot, Report(workers[slot], outcome, FALSE, quiescence))
          /\ StopIfUnconfirmed(slot, quiescence)
    /\ ServerUnchanged

(* User code ends by itself, or is stopped once its control is invalid;    *)
(* either way its process may fail to go away (unconfirmed cleanup).       *)
EndWork(slot) ==
    /\ workers[slot].stage = "Running"
    /\ \E outcome \in Outcome, quiescence \in Quiescence :
          /\ Update(slot, Report(workers[slot], outcome, TRUE, quiescence))
          /\ StopIfUnconfirmed(slot, quiescence)
    /\ ServerUnchanged

(* The frozen report is served, however often and late it is repeated.     *)
ServeSettle(slot) ==
    LET w == workers[slot] IN
    /\ w.stage = "Reporting"
    /\ Settle(TaskOf(slot), GenOf(slot), w.settle.outcome, w.settle.may_have_started,
              w.settle.quiescence)
    /\ UNCHANGED <<workers, stopping>>

(* Mutants of ReceiveSettle: lost ownership counts as accepted; or is not  *)
(* recognised, so that the report is repeated for ever.                    *)
ReceiveAssumed(slot) ==
    /\ workers[slot].stage = "Reporting"
    /\ AttemptOf(slot).settlement # NoReport \/ ~LiveAttempt(TaskOf(slot), GenOf(slot))
    /\ Update(slot, [workers[slot] EXCEPT !.stage = "Accepted"])
    /\ ServerUnchanged /\ UNCHANGED stopping

ReceiveOnlyReceipt(slot) ==
    /\ workers[slot].stage = "Reporting"
    /\ AttemptOf(slot).settlement # NoReport
    /\ Update(slot, [workers[slot] EXCEPT !.stage = "Accepted"])
    /\ ServerUnchanged /\ UNCHANGED stopping

(* The worker learns its receipt, or that ownership was lost before it.    *)
ReceiveSettle(slot) ==
    /\ workers[slot].stage = "Reporting"
    /\ \/ /\ AttemptOf(slot).settlement # NoReport
          /\ Update(slot, [workers[slot] EXCEPT !.stage = "Accepted"])
       \/ /\ AttemptOf(slot).settlement = NoReport
          /\ ~LiveAttempt(TaskOf(slot), GenOf(slot))
          /\ Update(slot, [workers[slot] EXCEPT !.stage = "Lost"])
    /\ ServerUnchanged /\ UNCHANGED stopping

(* Cleanup that could not be confirmed at first finishes later.            *)
Quiesce(slot) ==
    /\ workers[slot].stage \in {"Reporting", "Accepted", "Lost"}
    /\ ~workers[slot].quiescent
    /\ Update(slot, [workers[slot] EXCEPT !.quiescent = TRUE])
    /\ ServerUnchanged /\ UNCHANGED stopping

ServeConfirm(slot) ==
    /\ workers[slot].stage = "Accepted"
    /\ workers[slot].quiescent
    /\ workers[slot].settle.quiescence = "Unconfirmed"
    /\ ConfirmQuiescence(TaskOf(slot), GenOf(slot))
    /\ UNCHANGED <<workers, stopping>>

(* Everything is resolved: stop the monitor and give the consumer back.    *)
Release(slot) ==
    LET w == workers[slot] IN
    /\ w.stage \in {"Accepted", "Lost"}
    /\ w.quiescent
    /\ w.stage = "Accepted" /\ w.settle.quiescence = "Unconfirmed" =>
           \/ AttemptOf(slot).quiescence = "Confirmed"
           \/ ~LiveAttempt(TaskOf(slot), GenOf(slot))
    /\ Update(slot, IdleWorker)
    /\ ServerUnchanged /\ UNCHANGED stopping

(* Shared::stop, from a shutdown request or any fatal error.               *)
StopWorker(s) ==
    /\ s \notin stopping
    /\ sessions[s] # NoTime
    /\ stopping' = stopping \cup {s}
    /\ ServerUnchanged /\ UNCHANGED workers

(* Time passes, but no running user code outlives its local permission by  *)
(* more than MaxLag, and none that is about to start keeps a valid control *)
(* for longer: until then a check of the monitor, every TICK, stopped it.  *)
Permitted(w) == Earlier(w.tracker.deadline, w.control_deadline)

MayStillRun(w) == w.stage = "Running" \/ (w.stage = "Prepared" /\ w.phase = "Confirmed")

WTick ==
    /\ \A slot \in Slot :
          MayStillRun(workers[slot]) => now < Permitted(workers[slot]) + MaxLag
    /\ Tick
    /\ UNCHANGED <<workers, stopping>>

(* maintain_session: extend again once the interval has passed.  An        *)
(* extension whose reply is lost is retried sooner; as it was just         *)
(* extended, that is left out.                                             *)
MaintainSession(s) ==
    /\ sessions[s] # NoTime
    /\ now >= sessions[s] - SessionValidity + ExtendInterval
    /\ ExtendSession(s)
    /\ UNCHANGED <<workers, stopping>>

Server ==
    /\ \/ \E s \in Sessions : OpenSession(s)
       \/ \E t \in Tasks : Submit(t) \/ Cancel(t) \/ Expire(t)
    /\ UNCHANGED <<workers, stopping>>

WNext ==
    \/ WTick
    \/ Server
    \/ \E s \in Sessions : MaintainSession(s) \/ StopWorker(s)
    \/ \E slot \in Slot :
          \/ \E t \in Tasks : Acquire(slot, t)
          \/ AcquireNothing(slot)
          \/ Deliver(slot) \/ DeliverLost(slot) \/ Check(slot)
          \/ SendRenew(slot) \/ ServeRenew(slot) \/ ServeRenewReplay(slot)
          \/ ReceiveRenew(slot) \/ AbandonExchange(slot)
          \/ Dispatch(slot) \/ StartWork(slot) \/ FailStart(slot) \/ EndWork(slot)
          \/ ServeSettle(slot) \/ ReceiveSettle(slot) \/ Quiesce(slot)
          \/ ServeConfirm(slot) \/ Release(slot)

WSpec == WInit /\ [][WNext]_wvars

(* The retry loops of a worker keep going, its runtime enforces an invalid *)
(* control, retained cleanup finishes, time passes and recovery scans.     *)
(* Nothing is assumed of renewals, nor that user code ends by itself.      *)
WFairness ==
    /\ WF_wvars(WTick)
    /\ \A t \in Tasks : WF_wvars(Expire(t) /\ UNCHANGED <<workers, stopping>>)
    /\ \A slot \in Slot :
          /\ WF_wvars(DeliverLost(slot))
          /\ WF_wvars(Dispatch(slot))
          /\ WF_wvars(StartWork(slot) \/ FailStart(slot))
          /\ WF_wvars(EndWork(slot) /\ ~ControlOK(workers[slot]))
          /\ WF_wvars(ServeSettle(slot))
          /\ WF_wvars(ReceiveSettle(slot))
          /\ WF_wvars(Quiesce(slot))
          /\ WF_wvars(ServeConfirm(slot))
          /\ WF_wvars(Release(slot))

-----------------------------------------------------------------------------
(* Types of the worker records.                                            *)
WTypeOK ==
    /\ stopping \subseteq Sessions
    /\ \A slot \in Slot :
          LET w == workers[slot] IN
          /\ w.stage \in Stage
          /\ w.stage # "Idle" => w.attempt \in Tasks \X Generation
          /\ w.phase \in {"Awaiting", "Confirmed", "Stopped"}
          /\ w.tracker \in Tracker
          /\ w.command.intent \in RenewIntent
          /\ w.exchange.reply.kind \in {"None", "OwnershipLost", "SessionExpired", "Authority"}

(* While a worker lets user code of an attempt run, no later attempt of    *)
(* the task has been claimed, and unless the task was cancelled the store  *)
(* still holds the attempt's lease: the local deadline, charged from the   *)
(* request's start and less the safety margin, ends before the lease does. *)
ExclusiveWork ==
    \A slot \in Slot : workers[slot].stage = "Running" =>
        /\ tasks[TaskOf(slot)].attempt_count = GenOf(slot)
        /\ ~CancelRequested(tasks[TaskOf(slot)]) =>
               /\ AttemptOf(slot).state = "Active"
               /\ now < AttemptOf(slot).expires_at

(* User code only runs when the store has durably recorded that it may     *)
(* have started, whatever replies were lost, repeated or late.             *)
WorkIsRecorded ==
    \A slot \in Slot :
        workers[slot].stage \in {"Prepared", "Running"} => AttemptOf(slot).started

(* A heartbeat never revokes a dispatch permission the consumer has not    *)
(* taken yet: while the monitor says ready, its tracker allows dispatch.   *)
ReadyMeansAllowed ==
    \A slot \in Slot :
        LET w == workers[slot] IN
        w.ready /\ ~w.consumed /\ w.tracker.state = "Active" => w.tracker.dispatch_allowed

(* What the store holds as an attempt's report is what its worker froze,   *)
(* and a worker that counts its report accepted, or a confirmed cleanup,   *)
(* finds it stored.                                                        *)
ReportsAgree ==
    \A slot \in Slot :
        LET w == workers[slot] IN
        /\ w.stage = "Accepted" => AttemptOf(slot).settlement = w.settle.outcome
        /\ w.stage \in {"Waiting", "Prepared", "Running", "Lost"} =>
               AttemptOf(slot).settlement = NoReport
        /\ w.stage \in {"Reporting", "Accepted"} =>
               AttemptOf(slot).settlement \in {NoReport, w.settle.outcome}

(* After a cancellation was accepted user code stops within what was left  *)
(* of its local permission, even when no further reply gets through.       *)
CancelStopsWork ==
    \A slot \in Slot :
        workers[slot].stage = "Running" /\ CancelRequested(tasks[TaskOf(slot)]) =>
            now =< tasks[TaskOf(slot)].cancel_requested_at
                       + LeaseDuration - SafetyMargin + MaxLag

(* What a worker lets user code do is permitted and known to the store.    *)
WorkIsPermitted ==
    WTypeOK /\ ExclusiveWork /\ WorkIsRecorded /\ ReadyMeansAllowed /\ CancelStopsWork

(* Local permission that was stopped never comes back for that attempt,    *)
(* and dispatch permission is taken at most once.                          *)
NoRevival ==
    [][\A slot \in Slot :
          LET w == workers[slot]  v == workers'[slot] IN
          w.stage \notin {"Idle", "Claimed"} /\ v.stage # "Idle" =>
              /\ w.phase = "Stopped" => v.phase = "Stopped"
              /\ w.tracker.state \in StoppedLease => v.tracker.state = w.tracker.state
              /\ w.control_deadline # NoTime => v.control_deadline = w.control_deadline
              /\ v.stage = "Prepared" /\ w.stage # "Prepared" => ~w.consumed]_wvars

(* A consumer always gets its reservation back, though renewals may fail   *)
(* forever: the attempt is resolved by its own deadlines and settlement.   *)
ReservationReturned ==
    \A slot \in Slot : (workers[slot].stage # "Idle") ~> (workers[slot].stage = "Idle")

=============================================================================
