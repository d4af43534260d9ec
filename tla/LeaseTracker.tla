---------------------------- MODULE LeaseTracker ----------------------------
(***************************************************************************)
(* LeaseTracker of ledgence-orchestration-core: the worker's own account   *)
(* of how long an attempt may run user code.  A reply is charged for the   *)
(* time since its request began, and a stopped tracker stays stopped.      *)
(* Pure operators over a tracker record; 0 stands for a deadline not set   *)
(* and -1 for no sequence.  The owner check is left out: a monitor only    *)
(* hands over replies whose owner equals its command's.                    *)
(***************************************************************************)
EXTENDS TaskTransitions

CONSTANT SafetyMargin       \* LEASE_SAFETY_MARGIN_MS

ASSUME MarginAssumption == SafetyMargin \in Nat \ {0}

StoppedLease == {"Cancelled", "OwnershipLost", "Expired"}

Tracker ==
    [state : {"Unconfirmed", "Active"} \cup StoppedLease,
     deadline : Nat, execution_deadline : Nat,
     sequence : Nat \cup {-1}, dispatch_allowed : BOOLEAN]

NewTracker ==
    [state |-> "Unconfirmed", deadline |-> NoTime, execution_deadline |-> NoTime,
     sequence |-> -1, dispatch_allowed |-> FALSE]

StopLease(tracker, state) ==
    [tracker EXCEPT !.state = state, !.dispatch_allowed = FALSE]

(* state: observing the time also records expiry.                          *)
ObserveLease(tracker, at) ==
    IF tracker.state = "Active" /\ at >= tracker.deadline
    THEN StopLease(tracker, "Expired")
    ELSE tracker

(* Mutant of Conservative: the full lease is used.                         *)
FullRemaining(remaining) == remaining

(* saturating_sub of the safety margin.                                    *)
Conservative(remaining) ==
    IF remaining > SafetyMargin THEN remaining - SafetyMargin ELSE 0

(* apply, for a reply whose request began at started and is seen at at.    *)
(* Every Err of the code leaves a stopped tracker, except InvalidAuthority *)
(* (dispatch allowed at sequence 0), which no renewal reply can carry.     *)
ApplyAuthority(tracker, authority, started, at) ==
    LET seen      == ObserveLease(tracker, at)
        bound     == started + Conservative(authority.execution_remaining)
        execution == IF seen.execution_deadline = NoTime THEN bound
                     ELSE Earlier(seen.execution_deadline, bound)
        candidate == Earlier(started + Conservative(authority.remaining), execution)
    IN  IF seen.state \in StoppedLease THEN seen
        ELSE IF authority.cancel_requested THEN StopLease(seen, "Cancelled")
        ELSE IF authority.remaining = 0 THEN StopLease(seen, "OwnershipLost")
        ELSE IF authority.renew_sequence < seen.sequence THEN seen
        ELSE IF at >= candidate THEN StopLease(seen, "Expired")
        ELSE IF authority.renew_sequence = seen.sequence
        THEN [seen EXCEPT !.execution_deadline = execution,
                          !.deadline = Earlier(@, candidate),
                          !.dispatch_allowed = @ /\ authority.dispatch_allowed]
        ELSE [state |-> "Active", deadline |-> candidate,
              execution_deadline |-> execution,
              sequence |-> authority.renew_sequence,
              dispatch_allowed |-> authority.dispatch_allowed]

(* check_dispatch on a tracker that has just observed the time.            *)
MayDispatch(tracker) == tracker.state = "Active" /\ tracker.dispatch_allowed

=============================================================================
