-------------------------- MODULE MCWorkerDelivery --------------------------
(***************************************************************************)
(* TLC instances of WorkerDelivery.  The view drops values that no action  *)
(* or property can read any more, so it merges only equivalent states: the *)
(* deadlines of ended attempts and of stopped permissions whose user code  *)
(* is not running, an availability already reached, the time of a          *)
(* cancellation no running code remains to be measured against, and, with  *)
(* sessions that outlast the clock by a whole lease, when a session was    *)
(* opened or extended.                                                     *)
(***************************************************************************)
EXTENDS WorkerDelivery, TLC

Symmetry == Permutations(Consumers)

LiveColumns(a) ==
    IF a.state = "Active" THEN a
    ELSE [AbsentAttempt EXCEPT !.state = a.state, !.owner = a.owner, !.started = a.started,
                               !.quiescence = a.quiescence, !.settlement = a.settlement]

LiveFields(w) ==
    IF w.phase = "Stopped" /\ w.stage # "Running"
    THEN [w EXCEPT !.tracker = NewTracker, !.confirm_by = NoTime, !.control_deadline = NoTime,
                   !.consumed = FALSE]
    ELSE w

LiveTask(t) ==
    LET running == \E slot \in Slot :
                       workers[slot].stage = "Running" /\ workers[slot].attempt[1] = t
    IN  [tasks[t] EXCEPT !.available_at = IF @ =< now THEN 0 ELSE @,
                         !.cancel_requested_at = IF running THEN @ ELSE Earlier(@, 1)]

LongSessions ==
    <<now, stopping, cursors,
      [t \in Tasks |-> LiveTask(t)],
      [t \in Tasks |-> [g \in Generation |-> LiveColumns(attempts[t][g])]],
      [s \in Sessions |-> sessions[s] # NoTime],
      [slot \in Slot |-> LiveFields(workers[slot])]>>
=============================================================================
