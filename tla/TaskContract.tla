---------------------------- MODULE TaskContract -----------------------------
(***************************************************************************)
(* What the orchestrator promises whoever submits a task, without leases,  *)
(* sessions, consumers or clocks: a task runs in a bounded number of       *)
(* attempts, one at a time; the first report accepted for an attempt       *)
(* stands; an attempt without a usable report is retried or fails the      *)
(* task; an accepted cancellation decides the outcome; an outcome is       *)
(* final.                                                                  *)
(***************************************************************************)
EXTENDS Naturals

CONSTANTS
    Tasks,
    MaxAttempts     \* input.retry_policy.max_attempts

VARIABLES
    status,     \* TaskSnapshot.state
    tries,      \* attempts begun so far
    cancelled,  \* cancellation was accepted
    verdict     \* the report accepted for the running attempt, "None" before

vars == <<status, tries, cancelled, verdict>>

Verdicts == {"Success", "Retryable", "Permanent"}

Init ==
    /\ status = [t \in Tasks |-> "Absent"]
    /\ tries = [t \in Tasks |-> 0]
    /\ cancelled = [t \in Tasks |-> FALSE]
    /\ verdict = [t \in Tasks |-> "None"]

Accept(t) ==
    /\ status[t] = "Absent"
    /\ status' = [status EXCEPT ![t] = "Queued"]
    /\ UNCHANGED <<tries, cancelled, verdict>>

(* An attempt begins.                                                      *)
Begin(t) ==
    /\ status[t] = "Queued"
    /\ tries[t] < MaxAttempts
    /\ status' = [status EXCEPT ![t] = "Active"]
    /\ tries' = [tries EXCEPT ![t] = @ + 1]
    /\ UNCHANGED <<cancelled, verdict>>

(* The first report of the attempt is accepted while its worker may still  *)
(* be cleaning up.                                                         *)
Report(t, v) ==
    /\ status[t] = "Active" /\ verdict[t] = "None"
    /\ verdict' = [verdict EXCEPT ![t] = v]
    /\ UNCHANGED <<status, tries, cancelled>>

(* How a task goes on from an attempt that ended with the given report.    *)
After(stop, v, n) ==
    IF stop THEN "Cancelled"
    ELSE IF v = "Success" THEN "Succeeded"
    ELSE IF v = "Permanent" THEN "Failed"
    ELSE IF n < MaxAttempts THEN "Queued" ELSE "Failed"

(* The attempt ends: with the report it has, with one that comes with the  *)
(* end, or lost; a cancellation may be accepted in the same step.          *)
Conclude(t, v, stop) ==
    /\ status[t] = "Active"
    /\ verdict[t] # "None" => v = verdict[t]
    /\ cancelled[t] => stop
    /\ status' = [status EXCEPT ![t] = After(stop, v, tries[t])]
    /\ cancelled' = [cancelled EXCEPT ![t] = stop]
    /\ verdict' = [verdict EXCEPT ![t] = "None"]
    /\ UNCHANGED tries

Cancel(t) ==
    /\ status[t] \in {"Queued", "Active"} /\ ~cancelled[t]
    /\ cancelled' = [cancelled EXCEPT ![t] = TRUE]
    /\ status' = [status EXCEPT ![t] = IF @ = "Queued" THEN "Cancelled" ELSE @]
    /\ UNCHANGED <<tries, verdict>>

Next ==
    \E t \in Tasks :
        \/ Accept(t) \/ Begin(t) \/ Cancel(t)
        \/ \E v \in Verdicts : Report(t, v)
        \/ \E v \in Verdicts \cup {"None"}, stop \in BOOLEAN : Conclude(t, v, stop)

Spec == Init /\ [][Next]_vars

(* An attempt does not last for ever.                                      *)
Ends(t) == \E v \in Verdicts \cup {"None"}, stop \in BOOLEAN : Conclude(t, v, stop)

FairSpec == Spec /\ \A t \in Tasks : WF_vars(Ends(t))
==============================================================================
