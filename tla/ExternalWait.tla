----------------------------- MODULE ExternalWait -----------------------------
(***************************************************************************)
(* Waits of a workflow run for the outside world: events sent to it,       *)
(* timers, and reviews of an action it proposes.                           *)
(*                                                                         *)
(* Senders, reviewers, cancellation and coordinators meet on the run's     *)
(* row: every transaction takes that lock first and samples the store's    *)
(* clock after it, so a transaction is one step. The clock may be set      *)
(* back. The obligation of a wait is named by the revision of the          *)
(* activation that parked; how it is leased and retried is in              *)
(* WorkflowRuntime, here a lease is just held or lapsed.                   *)
(***************************************************************************)
EXTENDS Integers, FiniteSets

CONSTANTS
    Keys,           \* names of waits
    EventIds,       \* (source, id) of an event
    Bodies,         \* what an event carries
    DecisionIds,    \* decision commands of reviewers
    Actors,         \* who sends a decision
    Program(_),     \* Program(r): what the controller may decide at revision r
    Coordinators,
    MaxRevision,    \* u64::MAX
    MaxPending,     \* WORKFLOW_MAX_PENDING_EVENTS
    MaxTime,        \* MAX_TIMESTAMP
    None

Revisions == 0 .. MaxRevision
Times     == 0 .. MaxTime
Never     == -1    \* no deadline

WaitAssumption ==
    /\ MaxRevision \in Nat /\ MaxPending \in Nat /\ MaxTime \in Nat
    /\ None \notin Coordinators \cup EventIds \cup DecisionIds \cup Keys

VARIABLES
    run,        \* workflow_runs: state, revision, external_wait_key, wait_activation_id, pending_event_count
    waits,      \* workflow_waits
    events,     \* workflow_events
    approvals,  \* workflow_approvals
    wakes,      \* what each activation was resumed with
    rows,       \* workflow_work of kind 'wait'
    coord,      \* the obligation each coordinator carries
    now,        \* the store's clock
    reply,      \* the answer last given to a sender or reviewer
    told        \* observer: what was first answered to an accepted command

vars == <<run, waits, events, approvals, wakes, rows, coord, now, reply, told>>

Kinds    == {"event", "timer", "approval"}
Statuses == {"Pending", "Approved", "Rejected", "Expired", "Cancelled"}

(* WorkflowWait, and the other dispositions of a decision.                 *)
Wait     == [kind : Kinds, key : Keys, delay : Nat \cup {Never}]
Decision == Wait \cup {[kind |-> k, key |-> None, delay |-> Never] : k \in {"continue", "complete", "fail"}}

ApprovalCommand == [key : Keys, id : DecisionIds, by : Revisions, decision : {"Approved", "Rejected"}, actor : Actors]

ApprovalSnapshot ==
    [status : Statuses, by : Revisions, created : Times, deadline : Times,
     command : ApprovalCommand \cup {None}, at : Times, resumed : Revisions \cup {-1}]

Wake == [kind : {"none", "event", "timeout", "timer", "approval"}, key : Keys \cup {None},
         status : Statuses \cup {None}]

NoWait  == [kind |-> "none", by |-> 0, deadline |-> Never, closed |-> FALSE]
NoEvent == [id |-> None, body |-> None, at |-> 0, pending |-> FALSE]
NoReply == [command |-> None, code |-> "none", at |-> 0]
NoWake  == [kind |-> "none", key |-> None, status |-> None]
NoRow   == [status |-> "none", at |-> 0, holder |-> None]

TypeOK ==
    /\ run \in [state : {"Running", "Waiting", "Stopping", "Ended"}, revision : Revisions,
                key : Keys \cup {None}, wait : Revisions \cup {-1}, pending : 0 .. MaxPending]
    /\ waits \in [Keys -> [kind : Kinds \cup {"none"}, by : Revisions, deadline : Times \cup {Never},
                           closed : BOOLEAN]]
    /\ events \in [Keys -> [id : EventIds \cup {None}, body : Bodies \cup {None}, at : Times,
                            pending : BOOLEAN]]
    /\ approvals \in [Keys -> ApprovalSnapshot \cup {None}]
    /\ wakes \in [Revisions -> Wake]
    /\ rows \in [Revisions -> [status : {"none", "open", "done"}, at : Times, holder : Coordinators \cup {None}]]
    /\ coord \in [Coordinators -> Revisions \cup {-1}]
    /\ now \in Times

Init ==
    /\ run = [state |-> "Running", revision |-> 0, key |-> None, wait |-> -1, pending |-> 0]
    /\ waits = [k \in Keys |-> NoWait]
    /\ events = [k \in Keys |-> NoEvent]
    /\ approvals = [k \in Keys |-> None]
    /\ wakes = [r \in Revisions |-> NoWake]
    /\ rows = [r \in Revisions |-> NoRow]
    /\ coord = [c \in Coordinators |-> -1]
    /\ now = 0
    /\ reply = NoReply
    /\ told = {}

(* The rows a transaction of the run writes, as one value.                 *)
Store == [run |-> run, waits |-> waits, events |-> events, approvals |-> approvals,
          wakes |-> wakes, rows |-> rows]

Commit(s) ==
    /\ run' = s.run /\ waits' = s.waits /\ events' = s.events
    /\ approvals' = s.approvals /\ wakes' = s.wakes /\ rows' = s.rows

(***************************************************************************)
(* Selecting what ends a wait, and resuming.                               *)
(***************************************************************************)
Expired(a) == IF a.status = "Pending" /\ now >= a.deadline THEN [a EXCEPT !.status = "Expired"] ELSE a

Fires(w) == waits[w].deadline # Never /\ now >= waits[w].deadline

(* Mutant of InTime: whether the event was in time is judged when it is    *)
(* applied.                                                                *)
InTimeNow(s, k) ==
    /\ s.events[k].pending
    /\ s.waits[k].deadline = Never \/ now < s.waits[k].deadline

(* The event was accepted strictly before the deadline.                    *)
InTime(s, k) ==
    /\ s.events[k].pending
    /\ s.waits[k].deadline = Never \/ s.events[k].at < s.waits[k].deadline

ApprovalWake(s, k) ==
    LET a == Expired(s.approvals[k])
    IN IF a.status = "Pending" THEN NoWake ELSE [kind |-> "approval", key |-> k, status |-> a.status]

(* select_wake; NoWake when the wait goes on.                              *)
SelectWake(s, k) ==
    LET due == s.waits[k].deadline # Never /\ now >= s.waits[k].deadline
    IN CASE s.waits[k].kind = "approval" -> ApprovalWake(s, k)
         [] s.waits[k].kind = "event" ->
              IF InTime(s, k) THEN [kind |-> "event", key |-> k, status |-> None]
              ELSE IF due THEN [kind |-> "timeout", key |-> k, status |-> None] ELSE NoWake
         [] OTHER -> IF due THEN [kind |-> "timer", key |-> k, status |-> None] ELSE NoWake

(* A review is consumed by the activation it resumes.                      *)
Consumed(a, r) == [Expired(a) EXCEPT !.resumed = r]

(* resume: the wait closes, its receipt is retired, and the next           *)
(* activation carries the wake; an approval is consumed by it.             *)
Resume(s, k, wake) ==
    LET r == s.run.revision
    IN [s EXCEPT
          !.waits[k].closed = TRUE,
          !.events[k].pending = FALSE,
          !.approvals[k] = IF wake.kind = "approval" THEN Consumed(@, r) ELSE @,
          !.wakes[r] = wake,
          !.run = [@ EXCEPT !.state = "Running", !.key = None, !.wait = -1,
                            !.pending = @ - (IF s.events[k].pending THEN 1 ELSE 0)]]

(* enqueue_wait: an event brings an obligation forward and leaves a lease  *)
(* and a processed row alone.                                              *)
EnqueueWait(s, r, at) ==
    CASE s.rows[r].status = "none" -> [s EXCEPT !.rows[r] = [status |-> "open", at |-> at, holder |-> None]]
      [] s.rows[r].status = "open" -> [s EXCEPT !.rows[r].at = IF at < @ THEN at ELSE @]
      [] OTHER -> s

Cancelled(a) == IF Expired(a).status = "Pending" THEN [a EXCEPT !.status = "Cancelled"] ELSE Expired(a)

(* close_external_wait: the wait, its review and its obligation end, and   *)
(* the inbox is emptied.                                                   *)
CloseWait(s) ==
    LET k == s.run.key
        closed == IF k = None THEN s ELSE
                  [s EXCEPT !.waits[k].closed = TRUE,
                            !.approvals[k] = IF s.waits[k].kind = "approval" THEN Cancelled(@) ELSE @,
                            !.rows[s.run.wait] = IF @.status = "open" THEN [@ EXCEPT !.status = "done", !.holder = None]
                                                 ELSE @]
    IN [closed EXCEPT !.events = [j \in Keys |-> [@[j] EXCEPT !.pending = FALSE]],
                      !.run = [@ EXCEPT !.key = None, !.pending = 0]]

FailRun(s) == [CloseWait(s) EXCEPT !.run.state = "Stopping"]

(***************************************************************************)
(* Decisions of the controller.                                            *)
(***************************************************************************)
(* WorkflowWait::deadline: anchored once, when the decision is applied.    *)
DeadlineOf(w) == IF w.delay = Never THEN Never ELSE now + w.delay

(* The deadline leaves the clock's range, the key was used before, or an   *)
(* event came for a key that waits for none.                               *)
Refused(w) ==
    \/ DeadlineOf(w) > MaxTime
    \/ waits[w.key].kind # "none"
    \/ w.kind \in {"timer", "approval"} /\ events[w.key].id # None

NewApproval(r, deadline) ==
    [status |-> "Pending", by |-> r, created |-> now, deadline |-> deadline,
     command |-> None, at |-> 0, resumed |-> -1]

Installed(s, w) ==
    LET r        == s.run.revision
        deadline == DeadlineOf(w)
        parked   ==
          [s EXCEPT
             !.waits[w.key] = [kind |-> w.kind, by |-> r, deadline |-> deadline, closed |-> FALSE],
             !.approvals[w.key] = IF w.kind = "approval" THEN NewApproval(r, deadline) ELSE @,
             !.run = [@ EXCEPT !.state = "Waiting", !.revision = r + 1, !.key = w.key, !.wait = r]]
        wake     == SelectWake(parked, w.key)
    IN IF wake # NoWake THEN Resume(parked, w.key, wake)
       ELSE IF deadline # Never THEN EnqueueWait(parked, r, deadline) ELSE parked

(* The decision of a controller whose activation ended is applied.         *)
Decide(d) ==
    /\ run.state = "Running" /\ d \in Program(run.revision)
    /\ Commit(
         IF run.revision = MaxRevision \/ (d.key # None /\ Refused(d)) THEN FailRun(Store)
         ELSE IF d.key # None THEN Installed(Store, d)
         ELSE IF d.kind = "continue" THEN [Store EXCEPT !.run.revision = @ + 1]
         ELSE IF d.kind = "complete" THEN [CloseWait(Store) EXCEPT !.run.state = "Ended"]
         ELSE FailRun(Store))
    /\ UNCHANGED <<coord, now, reply, told>>

CancelWorkflow ==
    /\ run.state \in {"Running", "Waiting"}
    /\ Commit(FailRun(Store))
    /\ UNCHANGED <<coord, now, reply, told>>

Drained ==
    /\ run.state = "Stopping"
    /\ run' = [run EXCEPT !.state = "Ended", !.wait = -1]
    /\ UNCHANGED <<waits, events, approvals, wakes, rows, coord, now, reply, told>>

(***************************************************************************)
(* Senders and reviewers. A reply may be lost and the command sent again.  *)
(***************************************************************************)
Answer(command, code, at) ==
    /\ reply' = [command |-> command, code |-> code, at |-> at]
    /\ told' = IF code = "accepted" THEN told \cup {<<command, at>>} ELSE told

SameReceipts(k, id) == {j \in Keys : events[j].id # None /\ (j = k \/ events[j].id = id)}

EventObsolete(k) ==
    \/ run.state \notin {"Running", "Waiting"}
    \/ waits[k].kind # "none" /\ (waits[k].kind # "event" \/ waits[k].closed \/ Fires(k))

InboxFull == run.pending >= MaxPending

(* send_workflow_event_once.                                               *)
SendEvent(k, id, body) ==
    LET command  == [key |-> k, id |-> id, body |-> body]
        previous == SameReceipts(k, id)
        Refuse(code) == UNCHANGED <<run, waits, events, approvals, wakes, rows>> /\ Answer(command, code, 0)
    IN /\ IF previous # {}
          THEN IF previous = {k} /\ events[k].id = id /\ events[k].body = body
               THEN /\ UNCHANGED <<run, waits, events, approvals, wakes, rows>>
                    /\ Answer(command, "replayed", events[k].at)
               ELSE Refuse("conflict")
          ELSE IF EventObsolete(k) THEN Refuse("obsolete")
          ELSE IF InboxFull THEN Refuse("busy")
          ELSE /\ LET kept == [Store EXCEPT
                                 !.events[k] = [id |-> id, body |-> body, at |-> now, pending |-> TRUE],
                                 !.run.pending = @ + 1]
                  IN Commit(IF run.key = k THEN EnqueueWait(kept, run.wait, now) ELSE kept)
               /\ Answer(command, "accepted", now)
       /\ UNCHANGED <<coord, now>>

(* What ApprovalSnapshot::validate asks of an accepted decision.           *)
DecisionValid(a) == a.created <= now /\ now < a.deadline

ReviewObsolete(c) ==
    LET a == approvals[c.key]
    IN \/ a.status # "Pending" \/ now >= a.deadline
       \/ run.state # "Waiting" \/ run.key # c.key \/ run.wait # c.by

(* decide_approval_transaction.                                            *)
DecideApproval(c) ==
    LET a == approvals[c.key]
        Refuse(code) == UNCHANGED <<run, waits, events, approvals, wakes, rows>> /\ Answer(c, code, 0)
    IN /\ IF a = None THEN Refuse("not_found")
          ELSE IF a.command # None
          THEN IF a.command = c
               THEN /\ UNCHANGED <<run, waits, events, approvals, wakes, rows>>
                    /\ Answer(c, "replayed", a.at)
               ELSE Refuse("conflict")
          ELSE IF a.by # c.by THEN Refuse("conflict")
          ELSE IF ReviewObsolete(c) THEN Refuse("obsolete")
          ELSE IF ~DecisionValid(a) THEN Refuse("invalid")
          ELSE /\ Commit([Store EXCEPT
                     !.approvals[c.key] = [@ EXCEPT !.status = c.decision, !.command = c, !.at = now],
                     !.rows[c.by].at = IF now < @ THEN now ELSE @])
               /\ Answer(c, "accepted", now)
       /\ UNCHANGED <<coord, now>>

(***************************************************************************)
(* Coordinators and time.                                                  *)
(***************************************************************************)
Claim(c, r) ==
    /\ coord[c] = -1
    /\ rows[r].status = "open" /\ rows[r].holder = None /\ rows[r].at <= now
    /\ rows' = [rows EXCEPT ![r].holder = c]
    /\ coord' = [coord EXCEPT ![c] = r]
    /\ UNCHANGED <<run, waits, events, approvals, wakes, now, reply, told>>

LeaseLapses(r) ==
    /\ rows[r].holder # None
    /\ rows' = [rows EXCEPT ![r].holder = None]
    /\ UNCHANGED <<run, waits, events, approvals, wakes, coord, now, reply, told>>

Crash(c) ==
    /\ coord[c] # -1
    /\ coord' = [coord EXCEPT ![c] = -1]
    /\ UNCHANGED <<run, waits, events, approvals, wakes, rows, now, reply, told>>

Done(s, r) == [s EXCEPT !.rows[r] = [@ EXCEPT !.status = "done", !.holder = None]]

(* apply_work of a wait: nothing to resume, a wake, or a deadline that a   *)
(* clock set back made future again.                                       *)
Applied(r) ==
    IF run.state # "Waiting" \/ run.wait # r \/ waits[run.key].closed THEN Done(Store, r)
    ELSE LET wake == SelectWake(Store, run.key)
         IN IF wake # NoWake THEN Done(Resume(Store, run.key, wake), r)
            ELSE [Store EXCEPT !.rows[r] = [@ EXCEPT !.at = waits[run.key].deadline, !.holder = None]]

Apply(c) ==
    /\ coord[c] # -1
    /\ coord' = [coord EXCEPT ![c] = -1]
    /\ IF rows[coord[c]].status = "open" /\ rows[coord[c]].holder = c THEN Commit(Applied(coord[c]))
       ELSE UNCHANGED <<run, waits, events, approvals, wakes, rows>>
    /\ UNCHANGED <<now, reply, told>>

Tick ==
    /\ now < MaxTime /\ now' = now + 1
    /\ UNCHANGED <<run, waits, events, approvals, wakes, rows, coord, reply, told>>

ClockSetBack ==
    /\ now > 0 /\ now' = now - 1
    /\ UNCHANGED <<run, waits, events, approvals, wakes, rows, coord, reply, told>>

Next ==
    \/ \E d \in Program(run.revision) : Decide(d)
    \/ CancelWorkflow \/ Drained
    \/ \E k \in Keys, id \in EventIds, body \in Bodies : SendEvent(k, id, body)
    \/ \E c \in ApprovalCommand : DecideApproval(c)
    \/ \E c \in Coordinators : Crash(c) \/ Apply(c) \/ \E r \in Revisions : Claim(c, r)
    \/ \E r \in Revisions : LeaseLapses(r)
    \/ Tick \/ ClockSetBack

Spec == Init /\ [][Next]_vars

(***************************************************************************)
(* Correctness.                                                            *)
(***************************************************************************)
(* An event that was accepted before its wait's deadline is what the run   *)
(* is resumed with, however late the coordinator comes, and one that was   *)
(* not never overrides the timeout.                                        *)
DeadlineDecidesOnce ==
    \A r \in Revisions :
        LET k == wakes[r].key
        IN /\ wakes[r].kind = "timeout" => events[k].id = None \/ events[k].at >= waits[k].deadline
           /\ wakes[r].kind = "event" => /\ events[k].id # None
                                         /\ waits[k].deadline = Never \/ events[k].at < waits[k].deadline

(* A waiting run whose wait could end now, or whose deadline is to come,   *)
(* has an unprocessed obligation that is due no later than that: whatever  *)
(* the order of event, decision, lease, rearming and clock.                *)
WakeIsOwed ==
    run.state = "Waiting" =>
        /\ SelectWake(Store, run.key) # NoWake => rows[run.wait].status = "open"
        /\ InTime(Store, run.key) => rows[run.wait].at <= events[run.key].at
        /\ approvals[run.key] # None /\ approvals[run.key].command # None =>
              rows[run.wait].at <= approvals[run.key].at
        /\ waits[run.key].deadline # Never =>
              rows[run.wait].status = "open" /\ rows[run.wait].at <= waits[run.key].deadline

(* A key ends one wait of a run at most once: what was sent for an earlier *)
(* iteration never satisfies a later wait, and a review is consumed by one *)
(* activation.                                                             *)
KeysAreOneShot ==
    /\ \A r, q \in Revisions : r # q /\ wakes[r].kind # "none" => wakes[r].key # wakes[q].key
    /\ \A k \in Keys : approvals[k] # None /\ approvals[k].resumed # -1 =>
          wakes[approvals[k].resumed] = [kind |-> "approval", key |-> k, status |-> approvals[k].status]

(* The counter that bounds the inbox counts the unconsumed receipts, and a *)
(* run that stops keeps neither receipts, nor an open wait, review or      *)
(* obligation.                                                             *)
InboxIsCounted ==
    /\ run.pending = Cardinality({k \in Keys : events[k].pending})
    /\ run.state \in {"Stopping", "Ended"} =>
          /\ run.pending = 0
          /\ \A k \in Keys : waits[k].kind # "none" => waits[k].closed
          /\ \A k \in Keys : approvals[k] # None => approvals[k].status # "Pending"
          /\ \A r \in Revisions : rows[r].status # "open"

(* An accepted decision stands: it is the status the run is resumed with,  *)
(* and neither the deadline nor a cancellation that comes before the       *)
(* coordinator turns it into another one.                                  *)
DecisionStands ==
    \A <<c, at>> \in told : c \in ApprovalCommand =>
        /\ approvals[c.key].status = c.decision /\ approvals[c.key].command = c
        /\ \A r \in Revisions : wakes[r].key = c.key => wakes[r].status = c.decision

(* A sender or reviewer whose reply was lost and who repeats the command   *)
(* gets the first acceptance again, also after the wait closed, the        *)
(* deadline passed or the run ended.                                       *)
RepliesAgree ==
    \A <<c, at>> \in told : reply.command = c => reply.code \in {"accepted", "replayed"} /\ reply.at = at

(* The invariants of waits, events and reviews together.                   *)
WaitsSound ==
    /\ TypeOK /\ DeadlineDecidesOnce /\ WakeIsOwed /\ KeysAreOneShot
    /\ InboxIsCounted /\ DecisionStands /\ RepliesAgree

(***************************************************************************)
(* Fairness: the clock runs and is not set back for ever, coordinators     *)
(* poll and apply, and abandoned leases lapse.                             *)
(***************************************************************************)
Fairness ==
    /\ <>[][~ClockSetBack /\ \A c \in Coordinators : ~Crash(c)]_vars
    /\ <>[][\A r \in Revisions : LeaseLapses(r) => coord[rows[r].holder] # r]_vars
    /\ WF_vars(run.state = "Waiting" /\ Tick)
    /\ \A r \in Revisions : WF_vars(LeaseLapses(r) /\ coord[rows[r].holder] # r)
    /\ WF_vars(\E c \in Coordinators, r \in Revisions : Claim(c, r))
    /\ \A c \in Coordinators : WF_vars(Apply(c))

LiveSpec == Spec /\ Fairness

(* A run does not wait past its deadline, nor past an event or decision    *)
(* that was accepted for it: it is resumed or it stops.                    *)
WaitsEnd ==
    \A r \in Revisions :
        (run.state = "Waiting" /\ run.wait = r /\
            (waits[run.key].deadline # Never \/ events[run.key].pending)) ~> run.wait # r \/ run.state # "Waiting"
==============================================================================
