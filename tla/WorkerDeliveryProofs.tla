------------------------ MODULE WorkerDeliveryProofs ------------------------
(***************************************************************************)
(* Proofs about the task store and the workers on it, for every value of   *)
(* the constants.  TaskLifecycle: its invariants, and its refinement of    *)
(* TaskContract.  WorkerDelivery: with any timing whose lag is below the   *)
(* safety margin, and exchanges that are lost, repeated or late, every     *)
(* step of the workers is a step of the store or leaves it alone, user     *)
(* code runs only under a lease the store still holds, and what is         *)
(* reported is what is stored.                                             *)
(*                                                                         *)
(* The argument of exclusive work: an answer covers the time until it was  *)
(* sent for plus what it says remains, because the store never shortens a  *)
(* lease except by a cancellation, after which no attempt is claimed.  The *)
(* tracker keeps the safety margin below that time and user code is        *)
(* stopped within the lag, which is less than the margin.                  *)
(***************************************************************************)
EXTENDS WorkerDelivery, TaskRefinement, TLAPS

-----------------------------------------------------------------------------
(* The store: TaskLifecycle and its refinement of TaskContract.            *)

(* LeaseUntil and Earlier stay within the naturals and below both bounds.  *)
LEMMA EarlierType ==
    ASSUME NEW x \in Nat, NEW y \in Nat
    PROVE  Earlier(x, y) \in Nat /\ Earlier(x, y) =< x /\ Earlier(x, y) =< y
BY DEF Earlier

(* The cap of claim and renewal: below the horizon and the session.        *)
LEMMA LeaseUntilType ==
    ASSUME NEW n \in Nat, NEW h \in Nat, NEW e \in Nat
    PROVE  /\ LeaseUntil(n, h, e) \in Nat
           /\ LeaseUntil(n, h, e) =< h
           /\ LeaseUntil(n, h, e) =< e
BY TimingAssumption DEF LeaseUntil, Earlier

(* core::finish keeps both rows well typed.                                *)
LEMMA FinishType ==
    ASSUME NEW t \in Task, NEW Owner, NEW a \in Attempt(Owner), NEW n \in Nat
    PROVE  /\ FinishedTask(t, a, n) \in Task
           /\ FinishedAttempt(t, a) \in Attempt(Owner)
<1>1. FinishedTaskState(t, a) \in TaskState
  BY DEF FinishedTaskState, TaskState
<1>2. FinishedAttemptState(t, a) \in AttemptState
  BY DEF FinishedAttemptState, AttemptState
<1>3. FinishedTask(t, a, n) \in Task
  <2>1. (IF MayRetry(t, a) THEN n + RetryDelay ELSE t.available_at) \in Nat
    BY TimingAssumption DEF Task
  <2>2. NoAttempt \in 0 .. MaxGeneration
    BY RetryAssumption DEF NoAttempt
  <2> QED BY <1>1, <2>1, <2>2 DEF FinishedTask, Task
<1>4. FinishedAttempt(t, a) \in Attempt(Owner)
  BY <1>2 DEF FinishedAttempt, Attempt
<1> QED BY <1>3, <1>4

(* persistence::apply of well-typed rows.                                  *)
LEMMA ApplyType ==
    ASSUME NEW t \in Tasks, NEW g \in Generation, NEW task \in Task,
           NEW attempt \in Attempt(Slot \cup {None}),
           TypeOK, Apply(t, g, task, attempt)
    PROVE  /\ tasks' \in [Tasks -> Task]
           /\ attempts' \in [Tasks -> [Generation -> Attempt(Slot \cup {None})]]
BY DEF TypeOK, Apply

(* Applying core::finish to well-typed rows.                               *)
LEMMA FinishApplyType ==
    ASSUME NEW t \in Tasks, NEW g \in Generation, NEW task \in Task,
           NEW attempt \in Attempt(Slot \cup {None}),
           TypeOK, Finish(t, g, task, attempt)
    PROVE  /\ tasks' \in [Tasks -> Task]
           /\ attempts' \in [Tasks -> [Generation -> Attempt(Slot \cup {None})]]
<1>1. now \in Nat BY DEF TypeOK
<1>2. /\ FinishedTask(task, attempt, now) \in Task
      /\ FinishedAttempt(task, attempt) \in Attempt(Slot \cup {None})
  BY <1>1, FinishType
<1> QED BY <1>2, ApplyType DEF Finish

(* The other transitions of the core keep rows well typed.                 *)
LEMMA ClaimType ==
    ASSUME NEW t \in Task, Assignable(t), NEW e \in Nat, NEW at \in Nat,
           NEW Owner, NEW owner \in Owner
    PROVE  /\ t.attempt_count + 1 \in Generation
           /\ ClaimedTask(t) \in Task
           /\ ClaimedAttempt(owner, e, at) \in Attempt(Owner)
<1>1. t.attempt_count \in 0 .. MaxGeneration BY DEF Task
<1>2. t.attempt_count + 1 \in Generation
  BY <1>1, RetryAssumption DEF Assignable, Generation
<1>3. t.attempt_count + 1 \in 0 .. MaxGeneration
  BY <1>2, RetryAssumption DEF Generation
<1>4. ClaimedTask(t) \in Task
  BY <1>3 DEF ClaimedTask, Task, TaskState
<1>5. at + AttemptTimeout \in Nat /\ at + AttemptTimeout + CleanupGrace \in Nat
  BY TimingAssumption
<1>6. LeaseUntil(at, at + AttemptTimeout + CleanupGrace, e) \in Nat
  BY <1>5, LeaseUntilType
<1>7. ClaimedAttempt(owner, e, at) \in Attempt(Owner)
  BY <1>5, <1>6 DEF ClaimedAttempt, Attempt, AttemptState, RenewIntent, Quiescence, NoReport
<1> QED BY <1>2, <1>4, <1>7

(* core::renew.                                                            *)
LEMMA RenewType ==
    ASSUME NEW t \in Task, NEW Owner, NEW a \in Attempt(Owner), NEW e \in Nat, NEW at \in Nat,
           NEW intent \in RenewIntent
    PROVE  RenewedAttempt(t, a, intent, e, at) \in Attempt(Owner)
<1>1. a.authority_deadline \in Nat /\ a.renew_sequence + 1 \in Nat BY DEF Attempt
<1>2. LeaseUntil(at, a.authority_deadline, e) \in Nat BY <1>1, LeaseUntilType
<1> QED BY <1>1, <1>2 DEF RenewedAttempt, Attempt

(* core::settle.                                                           *)
LEMMA SettleType ==
    ASSUME NEW Owner, NEW a \in Attempt(Owner), NEW outcome \in Outcome,
           NEW started \in BOOLEAN, NEW q \in Quiescence
    PROVE  SettledAttempt(a, outcome, started, q) \in Attempt(Owner)
BY DEF SettledAttempt, Attempt

(* core::cancel of a live attempt.                                         *)
LEMMA CancelType ==
    ASSUME NEW Owner, NEW a \in Attempt(Owner), NEW at \in Nat
    PROVE  CancelledAttempt(a, at) \in Attempt(Owner)
<1>1. a.authority_deadline \in Nat /\ a.expires_at \in Nat /\ at + CleanupGrace \in Nat
  BY TimingAssumption DEF Attempt
<1>2. Earlier(a.authority_deadline, at + CleanupGrace) \in Nat BY <1>1, EarlierType
<1>3. Earlier(a.expires_at, Earlier(a.authority_deadline, at + CleanupGrace)) \in Nat
  BY <1>1, <1>2, EarlierType
<1> QED BY <1>2, <1>3 DEF CancelledAttempt, Attempt

-----------------------------------------------------------------------------
(* The structural invariant: row types, and which rows exist and agree.    *)
Structure == TypeOK /\ RowsConsistent /\ SingleOwner

(* What apply leaves in every row, point by point.                         *)
LEMMA ApplyRows ==
    ASSUME NEW t \in Tasks, NEW g \in Generation, NEW task, NEW attempt,
           TypeOK, Apply(t, g, task, attempt)
    PROVE  /\ tasks'[t] = task
           /\ attempts'[t][g] = attempt
           /\ \A u \in Tasks : u # t => tasks'[u] = tasks[u] /\ attempts'[u] = attempts[u]
           /\ \A h \in Generation : h # g => attempts'[t][h] = attempts[t][h]
BY DEF TypeOK, Apply

(* Updating the active attempt in place keeps the rows in agreement.       *)
LEMMA InPlaceRows ==
    ASSUME NEW t \in Tasks, NEW g \in Generation, NEW task, NEW attempt,
           Structure, Apply(t, g, task, attempt),
           tasks[t].state = "Active", tasks[t].current = g,
           task.state = "Active", task.current = g,
           task.attempt_count = tasks[t].attempt_count,
           attempt.state = "Active", attempt.owner = attempts[t][g].owner
    PROVE  RowsConsistent' /\ SingleOwner'
<1>1. TypeOK /\ RowsConsistent /\ SingleOwner BY DEF Structure
<1>2. /\ tasks'[t] = task
      /\ attempts'[t][g] = attempt
      /\ \A u \in Tasks : u # t => tasks'[u] = tasks[u] /\ attempts'[u] = attempts[u]
      /\ \A h \in Generation : h # g => attempts'[t][h] = attempts[t][h]
  BY <1>1, ApplyRows
<1>3. tasks[t].attempt_count = g BY <1>1 DEF RowsConsistent
<1>4. attempts[t][g].state # "None" /\ attempts[t][g].owner \in Slot
  BY <1>1, <1>3 DEF RowsConsistent, Generation
<1>5. RowsConsistent'
  BY <1>1, <1>2, <1>3, <1>4 DEF RowsConsistent, Generation
<1>6. SingleOwner'
  BY <1>1, <1>2, <1>3 DEF SingleOwner
<1> QED BY <1>5, <1>6

(* Ending the active attempt and releasing its task keeps them too.        *)
LEMMA EndedRows ==
    ASSUME NEW t \in Tasks, NEW g \in Generation, NEW task, NEW attempt,
           Structure, Apply(t, g, task, attempt),
           tasks[t].state = "Active", tasks[t].current = g,
           task.state \notin {"Absent", "Active"}, task.current = NoAttempt,
           task.attempt_count = tasks[t].attempt_count,
           attempt.state \notin {"None", "Active"}, attempt.owner = attempts[t][g].owner
    PROVE  RowsConsistent' /\ SingleOwner'
<1>1. TypeOK /\ RowsConsistent /\ SingleOwner BY DEF Structure
<1>2. /\ tasks'[t] = task
      /\ attempts'[t][g] = attempt
      /\ \A u \in Tasks : u # t => tasks'[u] = tasks[u] /\ attempts'[u] = attempts[u]
      /\ \A h \in Generation : h # g => attempts'[t][h] = attempts[t][h]
  BY <1>1, ApplyRows
<1>3. tasks[t].attempt_count = g BY <1>1 DEF RowsConsistent
<1>4. attempts[t][g].owner \in Slot
  BY <1>1, <1>3 DEF RowsConsistent, Generation
<1>5. RowsConsistent'
  BY <1>1, <1>2, <1>3, <1>4 DEF RowsConsistent, Generation
<1>6. SingleOwner'
  BY <1>1, <1>2, <1>3 DEF SingleOwner
<1> QED BY <1>5, <1>6

(* Rows start well typed, and no attempt exists.                           *)
LEMMA InitTypeOK == Init => TypeOK
<1> SUFFICES ASSUME Init PROVE TypeOK
  OBVIOUS
<1>1. AbsentTask \in Task
  BY RetryAssumption DEF AbsentTask, Task, TaskState, NoAttempt, NoTime
<1>2. AbsentAttempt \in Attempt(Slot \cup {None})
  BY DEF AbsentAttempt, Attempt, AttemptState, RenewIntent, Quiescence, NoReport
<1>3. NoCursor \in Cursor
  BY DEF NoCursor, Cursor
<1> QED BY <1>1, <1>2, <1>3 DEF Init, TypeOK, NoTime

(* The empty store satisfies the structural invariant.                     *)
LEMMA InitStructure == Init => Structure
<1> SUFFICES ASSUME Init PROVE RowsConsistent /\ SingleOwner
  BY InitTypeOK DEF Structure
<1>1. \A t \in Tasks : tasks[t] = AbsentTask
  BY DEF Init
<1>2. \A t \in Tasks, g \in Generation : attempts[t][g] = AbsentAttempt
  BY DEF Init
<1>3. \A g \in Generation : g > 0 /\ ~(g =< 0)
  BY RetryAssumption DEF Generation
<1>4. /\ AbsentTask.state = "Absent" /\ AbsentTask.current = NoAttempt
      /\ AbsentTask.attempt_count = 0 /\ AbsentAttempt.state = "None"
  BY DEF AbsentTask, AbsentAttempt
<1>5. RowsConsistent BY <1>1, <1>2, <1>3, <1>4 DEF RowsConsistent
<1>6. SingleOwner BY <1>1, <1>2, <1>4 DEF SingleOwner
<1> QED BY <1>5, <1>6

(* core::finish on an active attempt ends it and releases the task, keeps  *)
(* both rows well typed, and so keeps the structure.                       *)
LEMMA FinishStructure ==
    ASSUME NEW t \in Tasks, NEW g \in Generation, NEW task \in Task,
           NEW attempt \in Attempt(Slot \cup {None}),
           Structure, Finish(t, g, task, attempt),
           tasks[t].state = "Active", tasks[t].current = g,
           task.attempt_count = tasks[t].attempt_count,
           attempt.owner = attempts[t][g].owner,
           UNCHANGED <<now, sessions, cursors>>
    PROVE  Structure'
<1>1. TypeOK'
  <2>1. TypeOK BY DEF Structure
  <2> QED BY <2>1, FinishApplyType DEF TypeOK
<1>2. /\ FinishedTask(task, attempt, now).state \notin {"Absent", "Active"}
      /\ FinishedTask(task, attempt, now).current = NoAttempt
      /\ FinishedTask(task, attempt, now).attempt_count = tasks[t].attempt_count
  BY DEF FinishedTask, FinishedTaskState, Task
<1>3. /\ FinishedAttempt(task, attempt).state \notin {"None", "Active"}
      /\ FinishedAttempt(task, attempt).owner = attempts[t][g].owner
  BY DEF FinishedAttempt, FinishedAttemptState, Attempt
<1>4. RowsConsistent' /\ SingleOwner'
  BY <1>2, <1>3, EndedRows DEF Finish
<1> QED BY <1>1, <1>4 DEF Structure

(* An in-place update of the active attempt likewise.                      *)
LEMMA InPlaceStructure ==
    ASSUME NEW t \in Tasks, NEW g \in Generation, NEW task \in Task,
           NEW attempt \in Attempt(Slot \cup {None}),
           Structure, Apply(t, g, task, attempt),
           tasks[t].state = "Active", tasks[t].current = g,
           task.state = "Active", task.current = g,
           task.attempt_count = tasks[t].attempt_count,
           attempt.state = "Active", attempt.owner = attempts[t][g].owner,
           UNCHANGED <<now, sessions, cursors>>
    PROVE  Structure'
<1>1. TypeOK'
  <2>1. TypeOK BY DEF Structure
  <2> QED BY <2>1, ApplyType DEF TypeOK
<1>2. RowsConsistent' /\ SingleOwner' BY InPlaceRows
<1> QED BY <1>1, <1>2 DEF Structure

(* Where no row changes the structure only needs the other types.          *)
LEMMA UnchangedRows ==
    ASSUME Structure, UNCHANGED <<tasks, attempts>>, TypeOK'
    PROVE  Structure'
BY DEF Structure, RowsConsistent, SingleOwner

(* open_session and extend_session touch no task and no attempt.           *)
LEMMA SessionStructure ==
    ASSUME Structure, NEW s \in Sessions, UNCHANGED <<now, tasks, attempts, cursors>>,
           sessions' = [sessions EXCEPT ![s] = now + SessionValidity]
    PROVE  Structure'
<1>1. TypeOK BY DEF Structure
<1>2. now + SessionValidity \in Nat BY <1>1, TimingAssumption DEF TypeOK
<1>3. TypeOK' BY <1>1, <1>2 DEF TypeOK
<1> QED BY <1>3, UnchangedRows

(* A cursor moves to its next sequence.                                    *)
LEMMA AdvanceCursorType ==
    ASSUME TypeOK, NEW slot \in Slot, NEW x \in (Tasks \X Generation) \cup {None},
           AdvanceCursor(slot, x)
    PROVE  cursors' \in [Slot -> Cursor]
<1>1. cursors \in [Slot -> Cursor] /\ cursors[slot] \in Cursor BY DEF TypeOK
<1>2. cursors[slot].sequence + 1 \in Nat BY <1>1 DEF Cursor
<1>3. [sequence |-> cursors[slot].sequence + 1, assignment |-> x] \in Cursor
  BY <1>2 DEF Cursor
<1> QED BY <1>1, <1>3 DEF AdvanceCursor

(* An accepted submission adds a queued row without attempts.              *)
LEMMA SubmitStructure ==
    ASSUME Structure, NEW t \in Tasks, Submit(t)
    PROVE  Structure'
<1>0. TypeOK /\ RowsConsistent /\ SingleOwner BY DEF Structure
<1>1. NoAttempt \in 0 .. MaxGeneration BY RetryAssumption DEF NoAttempt
<1>2. now \in Nat BY <1>0 DEF TypeOK
<1>3. Submitted(now) \in Task
  BY <1>1, <1>2 DEF Submitted, AbsentTask, Task, TaskState, NoAttempt, NoTime
<1>4. TypeOK' BY <1>0, <1>3 DEF Submit, TypeOK
<1>5. tasks'[t] = Submitted(now) /\ \A u \in Tasks : u # t => tasks'[u] = tasks[u]
  BY <1>0 DEF Submit, TypeOK
<1>6. attempts' = attempts BY DEF Submit
<1>7. tasks[t] = AbsentTask BY <1>0 DEF RowsConsistent, Submit
<1>8. /\ tasks'[t].state = "Queued" /\ tasks'[t].current = NoAttempt
      /\ tasks'[t].attempt_count = tasks[t].attempt_count
  BY <1>5, <1>7 DEF Submitted, AbsentTask
<1>9. RowsConsistent'
  BY <1>0, <1>5, <1>6, <1>7, <1>8 DEF RowsConsistent, AbsentTask
<1>10. SingleOwner'
  BY <1>0, <1>5, <1>6, <1>7, <1>8 DEF SingleOwner, AbsentTask
<1> QED BY <1>4, <1>9, <1>10 DEF Structure

(* A claim adds the next generation and points the task at it.             *)
LEMMA AcquireStructure ==
    ASSUME Structure, NEW slot \in Slot, NEW t \in Tasks, AcquireTask(slot, t)
    PROVE  Structure'
<1> DEFINE g == tasks[t].attempt_count + 1
           task == ClaimedTask(tasks[t])
           attempt == ClaimedAttempt(slot, sessions[SessionOf(slot)], now)
<1>0. TypeOK /\ RowsConsistent /\ SingleOwner BY DEF Structure
<1>1. tasks[t] \in Task /\ now \in Nat BY <1>0 DEF TypeOK
<1>2. SessionOf(slot) \in Sessions /\ sessions[SessionOf(slot)] \in Nat
  BY <1>0 DEF TypeOK, Slot, SessionOf
<1>3. Assignable(tasks[t]) /\ tasks[t].state = "Queued" /\ Apply(t, g, task, attempt)
  BY DEF AcquireTask, Claimable
<1>4. /\ g \in Generation /\ task \in Task
      /\ attempt \in Attempt(Slot \cup {None})
  BY <1>1, <1>2, <1>3, ClaimType
<1>5. TypeOK'
  <2>1. <<t, g>> \in Tasks \X Generation BY <1>4
  <2>2. cursors' \in [Slot -> Cursor]
    BY <1>0, <2>1, AdvanceCursorType DEF AcquireTask
  <2>3. /\ tasks' \in [Tasks -> Task]
        /\ attempts' \in [Tasks -> [Generation -> Attempt(Slot \cup {None})]]
    BY <1>0, <1>3, <1>4, ApplyType
  <2> QED BY <1>0, <2>2, <2>3 DEF AcquireTask, TypeOK
<1>6. /\ tasks'[t] = task
      /\ attempts'[t][g] = attempt
      /\ \A u \in Tasks : u # t => tasks'[u] = tasks[u] /\ attempts'[u] = attempts[u]
      /\ \A h \in Generation : h # g => attempts'[t][h] = attempts[t][h]
  BY <1>0, <1>3, <1>4, ApplyRows
<1>7. task.state = "Active" /\ task.current = g /\ task.attempt_count = g
  BY <1>1 DEF ClaimedTask, Task
<1>8. attempt.state = "Active" /\ attempt.owner = slot
  BY DEF ClaimedAttempt
<1>9. \A h \in Generation : attempts[t][h].state # "Active"
  BY <1>0, <1>3 DEF SingleOwner
<1>10. tasks[t].attempt_count \in Nat /\ g \in Nat /\ \A h \in Generation : h \in Nat
  BY <1>1, RetryAssumption DEF Task, Generation
<1>11. RowsConsistent'
  BY <1>0, <1>4, <1>6, <1>7, <1>8, <1>10 DEF RowsConsistent
<1>12. SingleOwner'
  BY <1>0, <1>6, <1>7, <1>8, <1>9 DEF SingleOwner
<1> QED BY <1>5, <1>11, <1>12 DEF Structure

(* A renewal changes the lease of the current attempt only.                *)
LEMMA RenewStructure ==
    ASSUME Structure, NEW t \in Tasks, NEW g \in Generation,
           NEW intent \in {"Dispatch", "KeepAlive"}, Renew(t, g, intent)
    PROVE  Structure'
<1> DEFINE a == attempts[t][g]
           b == RenewedAttempt(tasks[t], a, intent, sessions[SessionOf(a.owner)], now)
<1>0. TypeOK /\ RowsConsistent BY DEF Structure
<1>1. tasks[t] \in Task /\ now \in Nat /\ a \in Attempt(Slot \cup {None})
  BY <1>0 DEF TypeOK
<1>2. /\ tasks[t].state = "Active" /\ tasks[t].current = g /\ a.state = "Active"
      /\ Apply(t, g, tasks[t], b) /\ UNCHANGED <<now, sessions, cursors>>
  BY DEF Renew, LiveAttempt, Live
<1>3. a.owner \in Slot
  BY <1>0, <1>2 DEF RowsConsistent, Generation
<1>4. sessions[SessionOf(a.owner)] \in Nat
  BY <1>0, <1>3 DEF TypeOK, Slot, SessionOf
<1>5. intent \in RenewIntent BY DEF RenewIntent
<1>6. b \in Attempt(Slot \cup {None}) BY <1>1, <1>4, <1>5, RenewType
<1>7. b.state = "Active" /\ b.owner = a.owner
  BY <1>1, <1>2 DEF RenewedAttempt, Attempt
<1> QED BY <1>1, <1>2, <1>6, <1>7, InPlaceStructure

(* A report either ends the current attempt or leaves it active.           *)
LEMMA SettleStructure ==
    ASSUME Structure, NEW t \in Tasks, NEW g \in Generation, NEW outcome \in Outcome,
           NEW started \in BOOLEAN, NEW q \in Quiescence, Settle(t, g, outcome, started, q)
    PROVE  Structure'
<1> DEFINE a == attempts[t][g]
           b == SettledAttempt(a, outcome, started, q)
<1>0. TypeOK BY DEF Structure
<1>1. tasks[t] \in Task /\ a \in Attempt(Slot \cup {None})
  BY <1>0 DEF TypeOK
<1>2. /\ tasks[t].state = "Active" /\ tasks[t].current = g /\ a.state = "Active"
      /\ UNCHANGED <<now, sessions, cursors>>
  BY DEF Settle, LiveAttempt, Live
<1>3. b \in Attempt(Slot \cup {None}) BY <1>1, SettleType
<1>4. b.state = "Active" /\ b.owner = a.owner
  BY <1>1, <1>2 DEF SettledAttempt, Attempt
<1>5. CASE Finish(t, g, tasks[t], b)
  BY <1>1, <1>2, <1>3, <1>4, <1>5, FinishStructure
<1>6. CASE Apply(t, g, tasks[t], b)
  BY <1>1, <1>2, <1>3, <1>4, <1>6, InPlaceStructure
<1> QED BY <1>5, <1>6 DEF Settle

(* A confirmed cleanup ends the current attempt.                           *)
LEMMA ConfirmStructure ==
    ASSUME Structure, NEW t \in Tasks, NEW g \in Generation, ConfirmQuiescence(t, g)
    PROVE  Structure'
<1> DEFINE a == attempts[t][g]
           b == [a EXCEPT !.quiescence = "Confirmed"]
<1>0. TypeOK BY DEF Structure
<1>1. tasks[t] \in Task /\ a \in Attempt(Slot \cup {None})
  BY <1>0 DEF TypeOK
<1>2. /\ tasks[t].state = "Active" /\ tasks[t].current = g
      /\ Finish(t, g, tasks[t], b) /\ UNCHANGED <<now, sessions, cursors>>
  BY DEF ConfirmQuiescence, LiveAttempt, Live
<1>3. b \in Attempt(Slot \cup {None}) /\ b.owner = a.owner
  BY <1>1 DEF Attempt, Quiescence
<1> QED BY <1>1, <1>2, <1>3, FinishStructure

(* Recovery ends the current attempt.                                      *)
LEMMA ExpireStructure ==
    ASSUME Structure, NEW t \in Tasks, Expire(t)
    PROVE  Structure'
<1> DEFINE g == tasks[t].current
<1>0. TypeOK /\ RowsConsistent BY DEF Structure
<1>1. g \in Generation BY <1>0 DEF RowsConsistent, Expire
<1>2. tasks[t] \in Task /\ attempts[t][g] \in Attempt(Slot \cup {None})
  BY <1>0, <1>1 DEF TypeOK
<1> QED BY <1>1, <1>2, FinishStructure DEF Expire

(* The three branches of a cancellation.                                   *)
LEMMA CancelStructure ==
    ASSUME Structure, NEW t \in Tasks, Cancel(t)
    PROVE  Structure'
<1> DEFINE g == tasks[t].current
           cancelled == [tasks[t] EXCEPT !.cancel_requested_at = now]
<1>0. TypeOK /\ RowsConsistent /\ SingleOwner BY DEF Structure
<1>1. tasks[t] \in Task /\ now \in Nat BY <1>0 DEF TypeOK
<1>2. /\ cancelled \in Task
      /\ cancelled.state = tasks[t].state
      /\ cancelled.current = tasks[t].current
      /\ cancelled.attempt_count = tasks[t].attempt_count
  BY <1>1 DEF Task
<1>3. CASE /\ tasks[t].state = "Queued"
           /\ tasks' = [tasks EXCEPT ![t] = [cancelled EXCEPT !.state = "Cancelled"]]
           /\ UNCHANGED attempts
  <2> DEFINE task == [cancelled EXCEPT !.state = "Cancelled"]
  <2>1. /\ task \in Task /\ task.state = "Cancelled"
        /\ task.current = tasks[t].current
        /\ task.attempt_count = tasks[t].attempt_count
    BY <1>2 DEF Task, TaskState
  <2>2. tasks'[t] = task /\ \A u \in Tasks : u # t => tasks'[u] = tasks[u]
    BY <1>0, <1>3 DEF TypeOK
  <2>3. TypeOK' BY <1>0, <1>3, <2>1 DEF Cancel, TypeOK
  <2>4. RowsConsistent' BY <1>0, <1>3, <2>1, <2>2 DEF RowsConsistent
  <2>5. SingleOwner' BY <1>0, <1>3, <2>1, <2>2 DEF SingleOwner
  <2> QED BY <2>3, <2>4, <2>5 DEF Structure
<1>4. CASE tasks[t].state = "Active"
  <2>1. g \in Generation BY <1>0, <1>4 DEF RowsConsistent
  <2>2. attempts[t][g] \in Attempt(Slot \cup {None}) BY <1>0, <2>1 DEF TypeOK
  <2>3. attempts[t][g].state = "Active" BY <1>0, <1>4, <2>1 DEF SingleOwner, RowsConsistent
  <2>4. CASE Finish(t, g, cancelled, attempts[t][g])
    BY <1>2, <1>4, <2>1, <2>2, <2>4, FinishStructure DEF Cancel
  <2>5. CASE Apply(t, g, cancelled, CancelledAttempt(attempts[t][g], now))
    <3>1. CancelledAttempt(attempts[t][g], now) \in Attempt(Slot \cup {None})
      BY <1>1, <2>2, CancelType
    <3>2. /\ CancelledAttempt(attempts[t][g], now).state = "Active"
          /\ CancelledAttempt(attempts[t][g], now).owner = attempts[t][g].owner
      BY <2>2, <2>3 DEF CancelledAttempt, Attempt
    <3> QED BY <1>2, <1>4, <2>1, <2>5, <3>1, <3>2, InPlaceStructure DEF Cancel
  <2> QED BY <1>4, <2>4, <2>5 DEF Cancel
<1> QED BY <1>3, <1>4 DEF Cancel

(* Every step keeps the structural invariant.                              *)
LEMMA NextStructure == Structure /\ [Next]_vars => Structure'
<1> SUFFICES ASSUME Structure, [Next]_vars PROVE Structure'
  OBVIOUS
<1>0. TypeOK BY DEF Structure
<1>1. CASE Tick
  <2>1. now + 1 \in Nat BY <1>0 DEF TypeOK
  <2>2. TypeOK' BY <1>0, <1>1, <2>1 DEF Tick, TypeOK
  <2> QED BY <1>1, <2>2, UnchangedRows DEF Tick
<1>2. ASSUME NEW s \in Sessions, OpenSession(s) \/ ExtendSession(s) PROVE Structure'
  BY <1>2, SessionStructure DEF OpenSession, ExtendSession
<1>3. ASSUME NEW slot \in Slot, AcquireEmpty(slot) PROVE Structure'
  <2>1. cursors' \in [Slot -> Cursor] BY <1>0, <1>3, AdvanceCursorType DEF AcquireEmpty
  <2>2. TypeOK' BY <1>0, <1>3, <2>1 DEF AcquireEmpty, TypeOK
  <2> QED BY <1>3, <2>2, UnchangedRows DEF AcquireEmpty
<1>4. CASE UNCHANGED vars
  <2>1. TypeOK' BY <1>0, <1>4 DEF vars, TypeOK
  <2> QED BY <1>4, <2>1, UnchangedRows DEF vars
<1> QED
  BY <1>1, <1>2, <1>3, <1>4, SubmitStructure, AcquireStructure, RenewStructure,
     SettleStructure, ConfirmStructure, ExpireStructure, CancelStructure DEF Next

-----------------------------------------------------------------------------
(* The structural invariant holds in every reachable state.                *)
THEOREM StructureInvariant == Spec => []Structure
BY InitStructure, NextStructure, PTL DEF Spec

(* Every row of the store stays well typed.                                *)
THEOREM TypeCorrect == Spec => []TypeOK
<1>1. Structure => TypeOK BY DEF Structure
<1> QED BY <1>1, StructureInvariant, PTL

(* A task never has two active attempts, and never an orphaned one.        *)
THEOREM SingleOwnerCorrect == Spec => []SingleOwner
<1>1. Structure => SingleOwner BY DEF Structure
<1> QED BY <1>1, StructureInvariant, PTL

-----------------------------------------------------------------------------
(* What each action leaves in the rows, point by point.  Frame(t, g): only *)
(* the row of t and of its generation g may differ.                        *)
Frame(t, g) ==
    /\ \A u \in Tasks : u # t => tasks'[u] = tasks[u] /\ attempts'[u] = attempts[u]
    /\ \A h \in Generation : h # g => attempts'[t][h] = attempts[t][h]

(* Generation g of task t is its active attempt, and the only one.         *)
Current(t, g) ==
    /\ tasks[t] \in Task /\ attempts[t][g] \in Attempt(Slot \cup {None})
    /\ tasks[t].state = "Active" /\ tasks[t].current = g /\ tasks[t].attempt_count = g
    /\ attempts[t][g].state = "Active" /\ attempts[t][g].owner \in Slot
    /\ sessions[SessionOf(attempts[t][g].owner)] \in Nat
    /\ \A h \in Generation : h # g => attempts[t][h].state # "Active"

(* An active task has exactly its current attempt active.                  *)
LEMMA CurrentFacts ==
    ASSUME Structure, NEW t \in Tasks, NEW g \in Generation,
           tasks[t].state = "Active", tasks[t].current = g
    PROVE  Current(t, g)
<1>0. TypeOK /\ RowsConsistent /\ SingleOwner BY DEF Structure
<1>1. tasks[t] \in Task /\ attempts[t][g] \in Attempt(Slot \cup {None}) BY <1>0 DEF TypeOK
<1>2. tasks[t].attempt_count = g BY <1>0 DEF RowsConsistent
<1>3. attempts[t][g].owner \in Slot BY <1>0, <1>2 DEF RowsConsistent, Generation
<1>4. sessions[SessionOf(attempts[t][g].owner)] \in Nat
  BY <1>0, <1>3 DEF TypeOK, Slot, SessionOf
<1>5. \A h \in Generation : (attempts[t][h].state = "Active") <=> h = g
  BY <1>0, <1>2 DEF SingleOwner
<1> QED BY <1>1, <1>2, <1>3, <1>4, <1>5 DEF Current

(* What a submission changes.                                              *)
LEMMA SubmitEffect ==
    ASSUME Structure, NEW t \in Tasks, Submit(t)
    PROVE  /\ tasks[t] = AbsentTask /\ tasks'[t] = Submitted(now)
           /\ \A u \in Tasks : u # t => tasks'[u] = tasks[u]
           /\ \A g \in Generation : attempts[t][g] = AbsentAttempt
           /\ UNCHANGED <<now, attempts, sessions, cursors>>
<1>0. TypeOK /\ RowsConsistent BY DEF Structure
<1>1. tasks[t] = AbsentTask BY <1>0 DEF RowsConsistent, Submit
<1>2. \A g \in Generation : g > tasks[t].attempt_count
  BY <1>1, RetryAssumption DEF AbsentTask, Generation
<1>3. \A g \in Generation : attempts[t][g] = AbsentAttempt
  BY <1>0, <1>2 DEF RowsConsistent
<1> QED BY <1>0, <1>1, <1>3 DEF Submit, TypeOK

(* What a claim changes.                                                   *)
LEMMA AcquireEffect ==
    ASSUME Structure, NEW slot \in Slot, NEW t \in Tasks, AcquireTask(slot, t)
    PROVE  LET g == tasks[t].attempt_count + 1 IN
           /\ g \in Generation /\ Frame(t, g)
           /\ tasks[t] \in Task /\ now \in Nat /\ sessions[SessionOf(slot)] \in Nat
           /\ tasks'[t] = ClaimedTask(tasks[t])
           /\ attempts'[t][g] = ClaimedAttempt(slot, sessions[SessionOf(slot)], now)
           /\ attempts[t][g] = AbsentAttempt
           /\ \A h \in Generation : attempts[t][h].state # "Active"
           /\ tasks[t].state = "Queued" /\ tasks[t].attempt_count < MaxAttempts
           /\ UNCHANGED <<now, sessions>>
<1> DEFINE g == tasks[t].attempt_count + 1
<1>0. TypeOK /\ RowsConsistent /\ SingleOwner BY DEF Structure
<1>1. tasks[t] \in Task /\ now \in Nat BY <1>0 DEF TypeOK
<1>2. sessions[SessionOf(slot)] \in Nat BY <1>0 DEF TypeOK, Slot, SessionOf
<1>3. /\ Assignable(tasks[t]) /\ tasks[t].state = "Queued"
      /\ Apply(t, g, ClaimedTask(tasks[t]),
               ClaimedAttempt(slot, sessions[SessionOf(slot)], now))
      /\ UNCHANGED <<now, sessions>>
  BY DEF AcquireTask, Claimable
<1>4. g \in Generation BY <1>1, <1>2, <1>3, ClaimType
<1>5. /\ Frame(t, g)
      /\ tasks'[t] = ClaimedTask(tasks[t])
      /\ attempts'[t][g] = ClaimedAttempt(slot, sessions[SessionOf(slot)], now)
  BY <1>0, <1>3, <1>4, ApplyRows DEF Frame
<1>6. tasks[t].attempt_count \in Nat /\ g > tasks[t].attempt_count BY <1>1 DEF Task
<1>7. attempts[t][g] = AbsentAttempt BY <1>0, <1>4, <1>6 DEF RowsConsistent
<1>8. \A h \in Generation : attempts[t][h].state # "Active" BY <1>0, <1>3 DEF SingleOwner
<1>9. tasks[t].attempt_count < MaxAttempts BY <1>3 DEF Assignable
<1> HIDE DEF g
<1> QED BY <1>1, <1>2, <1>3, <1>4, <1>5, <1>7, <1>8, <1>9 DEF g

(* What a renewal changes.                                                 *)
LEMMA RenewEffect ==
    ASSUME Structure, NEW t \in Tasks, NEW g \in Generation,
           NEW intent \in {"Dispatch", "KeepAlive"}, Renew(t, g, intent)
    PROVE  LET a == attempts[t][g] IN
           /\ Current(t, g) /\ Frame(t, g) /\ LiveAttempt(t, g)
           /\ tasks'[t] = tasks[t]
           /\ attempts'[t][g] =
                  RenewedAttempt(tasks[t], a, intent, sessions[SessionOf(a.owner)], now)
           /\ UNCHANGED <<now, sessions, cursors>>
<1>0. TypeOK BY DEF Structure
<1>1. LiveAttempt(t, g) /\ tasks[t].state = "Active" /\ tasks[t].current = g
  BY DEF Renew, LiveAttempt, Live
<1>2. Current(t, g) BY <1>1, CurrentFacts
<1> QED BY <1>0, <1>1, <1>2, ApplyRows DEF Renew, Frame

(* What a report changes, in both of its branches.                         *)
LEMMA SettleEffect ==
    ASSUME Structure, NEW t \in Tasks, NEW g \in Generation, NEW outcome \in Outcome,
           NEW started \in BOOLEAN, NEW q \in Quiescence, Settle(t, g, outcome, started, q)
    PROVE  LET a == attempts[t][g]
               b == SettledAttempt(a, outcome, started, q)
           IN
           /\ Current(t, g) /\ Frame(t, g) /\ LiveAttempt(t, g)
           /\ a.settlement = NoReport
           /\ \/ /\ tasks'[t] = FinishedTask(tasks[t], b, now)
                 /\ attempts'[t][g] = FinishedAttempt(tasks[t], b)
              \/ /\ tasks'[t] = tasks[t]
                 /\ attempts'[t][g] = b
           /\ UNCHANGED <<now, sessions, cursors>>
<1>0. TypeOK BY DEF Structure
<1>1. LiveAttempt(t, g) /\ tasks[t].state = "Active" /\ tasks[t].current = g
  BY DEF Settle, LiveAttempt, Live
<1>2. Current(t, g) BY <1>1, CurrentFacts
<1> QED BY <1>0, <1>1, <1>2, ApplyRows DEF Settle, Finish, Frame

(* What a confirmed cleanup changes.                                       *)
LEMMA ConfirmEffect ==
    ASSUME Structure, NEW t \in Tasks, NEW g \in Generation, ConfirmQuiescence(t, g)
    PROVE  LET b == [attempts[t][g] EXCEPT !.quiescence = "Confirmed"] IN
           /\ Current(t, g) /\ Frame(t, g)
           /\ attempts[t][g].settlement # NoReport
           /\ tasks'[t] = FinishedTask(tasks[t], b, now)
           /\ attempts'[t][g] = FinishedAttempt(tasks[t], b)
           /\ UNCHANGED <<now, sessions, cursors>>
<1>0. TypeOK BY DEF Structure
<1>1. tasks[t].state = "Active" /\ tasks[t].current = g
  BY DEF ConfirmQuiescence, LiveAttempt, Live
<1>2. Current(t, g) BY <1>1, CurrentFacts
<1> QED BY <1>0, <1>2, ApplyRows DEF ConfirmQuiescence, Finish, Frame

(* What an expiry changes.                                                 *)
LEMMA ExpireEffect ==
    ASSUME Structure, NEW t \in Tasks, Expire(t)
    PROVE  LET g == tasks[t].current IN
           /\ g \in Generation /\ Current(t, g) /\ Frame(t, g)
           /\ tasks'[t] = FinishedTask(tasks[t], attempts[t][g], now)
           /\ attempts'[t][g] = FinishedAttempt(tasks[t], attempts[t][g])
           /\ UNCHANGED <<now, sessions, cursors>>
<1> DEFINE g == tasks[t].current
<1>0. TypeOK /\ RowsConsistent BY DEF Structure
<1>1. g \in Generation BY <1>0 DEF RowsConsistent, Expire
<1>2. Current(t, g) BY <1>1, CurrentFacts DEF Expire
<1> QED BY <1>0, <1>1, <1>2, ApplyRows DEF Expire, Finish, Frame

(* A cancelled active task: finished past its lease, otherwise shortened.  *)
LEMMA CancelEffect ==
    ASSUME Structure, NEW t \in Tasks, Cancel(t)
    PROVE  LET g         == tasks[t].current
               cancelled == [tasks[t] EXCEPT !.cancel_requested_at = now]
           IN
           /\ ~CancelRequested(tasks[t]) /\ UNCHANGED <<now, sessions, cursors>>
           /\ \/ /\ tasks[t].state = "Queued" /\ UNCHANGED attempts
                 /\ tasks'[t] = [cancelled EXCEPT !.state = "Cancelled"]
                 /\ \A u \in Tasks : u # t => tasks'[u] = tasks[u]
              \/ /\ g \in Generation /\ Current(t, g) /\ Frame(t, g)
                 /\ \/ /\ tasks'[t] = FinishedTask(cancelled, attempts[t][g], now)
                       /\ attempts'[t][g] = FinishedAttempt(cancelled, attempts[t][g])
                    \/ /\ now < NextExpiry(t)
                       /\ tasks'[t] = cancelled
                       /\ attempts'[t][g] = CancelledAttempt(attempts[t][g], now)
<1> DEFINE g == tasks[t].current
           cancelled == [tasks[t] EXCEPT !.cancel_requested_at = now]
<1>0. TypeOK /\ RowsConsistent BY DEF Structure
<1>1. CASE tasks[t].state = "Queued"
  BY <1>0, <1>1 DEF Cancel, TypeOK
<1>2. CASE tasks[t].state = "Active"
  <2>1. g \in Generation BY <1>0, <1>2 DEF RowsConsistent
  <2>2. Current(t, g) BY <1>2, <2>1, CurrentFacts
  <2>3. CASE Finish(t, g, cancelled, attempts[t][g])
    <3>1. /\ Frame(t, g)
          /\ tasks'[t] = FinishedTask(cancelled, attempts[t][g], now)
          /\ attempts'[t][g] = FinishedAttempt(cancelled, attempts[t][g])
      BY <1>0, <2>1, <2>3, ApplyRows DEF Finish, Frame
    <3> HIDE DEF g, cancelled
    <3> QED BY <2>1, <2>2, <3>1 DEF Cancel, g, cancelled
  <2>4. CASE now < NextExpiry(t) /\ Apply(t, g, cancelled, CancelledAttempt(attempts[t][g], now))
    <3>1. /\ Frame(t, g)
          /\ tasks'[t] = cancelled
          /\ attempts'[t][g] = CancelledAttempt(attempts[t][g], now)
      BY <1>0, <2>1, <2>4, ApplyRows DEF Frame
    <3> QED BY <2>1, <2>2, <2>4, <3>1 DEF Cancel
  <2> QED BY <1>2, <2>3, <2>4 DEF Cancel
<1> QED BY <1>1, <1>2 DEF Cancel

-----------------------------------------------------------------------------
(* Field by field, what the pure transitions return.                       *)
LEMMA FinishFields ==
    ASSUME NEW t \in Task, NEW Owner, NEW a \in Attempt(Owner), NEW at
    PROVE  LET u == FinishedTask(t, a, at)  b == FinishedAttempt(t, a) IN
           /\ u.state = FinishedTaskState(t, a) /\ u.current = NoAttempt
           /\ u.attempt_count = t.attempt_count
           /\ u.cancel_requested_at = t.cancel_requested_at
           /\ b.state = FinishedAttemptState(t, a) /\ b.state \notin {"None", "Active"}
           /\ b.settlement = a.settlement /\ b.started = a.started
           /\ b.authority_deadline = a.authority_deadline
BY DEF FinishedTask, FinishedAttempt, FinishedAttemptState, Task, Attempt

(* The columns of a freshly claimed attempt.                               *)
LEMMA ClaimFields ==
    ASSUME NEW t \in Task, NEW owner, NEW e, NEW at
    PROVE  LET u == ClaimedTask(t)  b == ClaimedAttempt(owner, e, at) IN
           /\ u.state = "Active" /\ u.current = t.attempt_count + 1
           /\ u.attempt_count = t.attempt_count + 1
           /\ u.cancel_requested_at = t.cancel_requested_at
           /\ b.state = "Active" /\ b.owner = owner /\ b.renew_intent = "None"
           /\ b.settlement = NoReport /\ b.started = FALSE
           /\ b.deadline = at + AttemptTimeout
           /\ b.authority_deadline = at + AttemptTimeout + CleanupGrace
           /\ b.expires_at = LeaseUntil(at, at + AttemptTimeout + CleanupGrace, e)
BY DEF ClaimedTask, ClaimedAttempt, Task

(* The columns a renewal leaves and changes.                               *)
LEMMA RenewFields ==
    ASSUME NEW t, NEW Owner, NEW a \in Attempt(Owner), NEW intent, NEW e, NEW at
    PROVE  LET b == RenewedAttempt(t, a, intent, e, at) IN
           /\ b.state = a.state /\ b.owner = a.owner /\ b.renew_intent = intent
           /\ b.settlement = a.settlement
           /\ b.deadline = a.deadline /\ b.authority_deadline = a.authority_deadline
           /\ b.expires_at = LeaseUntil(at, a.authority_deadline, e)
           /\ a.started => b.started
           /\ (/\ intent = "Dispatch" /\ ~CancelRequested(t)
               /\ at < a.deadline /\ a.settlement = NoReport) => b.started
           /\ CancelRequested(t) /\ b.started => a.started
BY DEF RenewedAttempt, Attempt

(* The columns a report leaves and changes.                                *)
LEMMA SettleFields ==
    ASSUME NEW Owner, NEW a \in Attempt(Owner), NEW outcome, NEW started, NEW q
    PROVE  LET b == SettledAttempt(a, outcome, started, q) IN
           /\ b.state = a.state /\ b.owner = a.owner /\ b.renew_intent = a.renew_intent
           /\ b.settlement = outcome /\ b.expires_at = a.expires_at
           /\ b.deadline = a.deadline /\ b.authority_deadline = a.authority_deadline
           /\ a.started => b.started
BY DEF SettledAttempt, Attempt

(* The columns a confirmed cleanup leaves and changes.                     *)
LEMMA ConfirmFields ==
    ASSUME NEW Owner, NEW a \in Attempt(Owner)
    PROVE  LET b == [a EXCEPT !.quiescence = "Confirmed"] IN
           /\ b \in Attempt(Owner)
           /\ b.settlement = a.settlement /\ b.started = a.started
           /\ b.authority_deadline = a.authority_deadline
BY DEF Attempt, Quiescence

(* The columns a cancellation leaves and changes.                          *)
LEMMA CancelFields ==
    ASSUME NEW Owner, NEW a \in Attempt(Owner), NEW at \in Nat
    PROVE  LET b == CancelledAttempt(a, at) IN
           /\ b.state = a.state /\ b.owner = a.owner /\ b.renew_intent = a.renew_intent
           /\ b.settlement = a.settlement /\ b.started = a.started
           /\ b.deadline = a.deadline
           /\ b.authority_deadline =< a.authority_deadline
           /\ b.authority_deadline =< at + CleanupGrace
           /\ b.authority_deadline \in Nat /\ b.expires_at \in Nat
           /\ b.expires_at =< b.authority_deadline /\ b.expires_at =< a.expires_at
<1> DEFINE h == Earlier(a.authority_deadline, at + CleanupGrace)
<1>1. a.authority_deadline \in Nat /\ a.expires_at \in Nat /\ at + CleanupGrace \in Nat
  BY TimingAssumption DEF Attempt
<1>2. h \in Nat /\ h =< a.authority_deadline /\ h =< at + CleanupGrace BY <1>1, EarlierType
<1>3. /\ Earlier(a.expires_at, h) \in Nat
      /\ Earlier(a.expires_at, h) =< a.expires_at /\ Earlier(a.expires_at, h) =< h
  BY <1>1, <1>2, EarlierType
<1>4. /\ CancelledAttempt(a, at).authority_deadline = h
      /\ CancelledAttempt(a, at).expires_at = Earlier(a.expires_at, h)
  BY DEF CancelledAttempt, Attempt
<1>5. LET b == CancelledAttempt(a, at) IN
      /\ b.state = a.state /\ b.owner = a.owner /\ b.renew_intent = a.renew_intent
      /\ b.settlement = a.settlement /\ b.started = a.started
      /\ b.deadline = a.deadline
  BY DEF CancelledAttempt, Attempt
<1> HIDE DEF h
<1> QED BY <1>2, <1>3, <1>4, <1>5

(* The columns of a task row with an accepted cancellation.                *)
LEMMA CancelledTaskFields ==
    ASSUME NEW t \in Task, NEW at \in Nat
    PROVE  LET c == [t EXCEPT !.cancel_requested_at = at] IN
           /\ c \in Task /\ c.state = t.state /\ c.current = t.current
           /\ c.attempt_count = t.attempt_count /\ c.cancel_requested_at = at
           /\ [c EXCEPT !.state = "Cancelled"].state = "Cancelled"
           /\ [c EXCEPT !.state = "Cancelled"].attempt_count = t.attempt_count
           /\ [c EXCEPT !.state = "Cancelled"].cancel_requested_at = at
BY DEF Task

-----------------------------------------------------------------------------
(* A queued task can be claimed: finish requeues only below the limits.    *)
LEMMA FinishedQueued ==
    ASSUME NEW t \in Task, NEW Owner, NEW a \in Attempt(Owner), NEW at,
           FinishedTask(t, a, at).state = "Queued"
    PROVE  /\ Assignable(FinishedTask(t, a, at))
           /\ ~CancelRequested(FinishedTask(t, a, at))
<1>1. MayRetry(t, a) BY FinishFields DEF FinishedTaskState
<1>2. t.attempt_count \in Nat /\ MaxGeneration \in Nat BY RetryAssumption DEF Task
<1> QED BY <1>1, <1>2, FinishFields DEF MayRetry, Assignable, CancelRequested

(* A queued task stays assignable; retry is only granted within limits.    *)
LEMMA NextQueued ==
    Structure /\ QueuedIsAssignable /\ [Next]_vars => QueuedIsAssignable'
<1> SUFFICES ASSUME Structure, QueuedIsAssignable, [Next]_vars PROVE QueuedIsAssignable'
  OBVIOUS
<1>1. ASSUME UNCHANGED tasks PROVE QueuedIsAssignable'
  BY <1>1 DEF QueuedIsAssignable
<1>2. ASSUME NEW t \in Tasks, Submit(t) PROVE QueuedIsAssignable'
  <2>1. Assignable(Submitted(now)) /\ ~CancelRequested(Submitted(now))
    BY RetryAssumption DEF Submitted, AbsentTask, Assignable, CancelRequested
  <2> QED BY <1>2, <2>1, SubmitEffect DEF QueuedIsAssignable
<1>3. ASSUME NEW slot \in Slot, NEW t \in Tasks, AcquireTask(slot, t) PROVE QueuedIsAssignable'
  BY ZenonT(60), <1>3, AcquireEffect, ClaimFields DEF QueuedIsAssignable, Frame
<1>4. ASSUME NEW t \in Tasks, NEW g \in Generation, NEW intent \in {"Dispatch", "KeepAlive"},
             Renew(t, g, intent)
      PROVE  QueuedIsAssignable'
  BY <1>4, RenewEffect DEF QueuedIsAssignable, Frame
<1>5. ASSUME NEW t \in Tasks, NEW g \in Generation, NEW outcome \in Outcome,
             NEW started \in BOOLEAN, NEW q \in Quiescence, Settle(t, g, outcome, started, q)
      PROVE  QueuedIsAssignable'
  <2>1. SettledAttempt(attempts[t][g], outcome, started, q) \in Attempt(Slot \cup {None})
    BY SMTT(30), <1>5, SettleEffect, SettleType DEF Current
  <2> QED BY <1>5, <2>1, SettleEffect, FinishedQueued DEF QueuedIsAssignable, Frame, Current
<1>6. ASSUME NEW t \in Tasks, NEW g \in Generation, ConfirmQuiescence(t, g)
      PROVE  QueuedIsAssignable'
  <2> DEFINE b == [attempts[t][g] EXCEPT !.quiescence = "Confirmed"]
  <2>1. /\ Frame(t, g) /\ tasks'[t] = FinishedTask(tasks[t], b, now)
        /\ tasks[t] \in Task /\ attempts[t][g] \in Attempt(Slot \cup {None})
    BY <1>6, ConfirmEffect DEF Current
  <2>2. b \in Attempt(Slot \cup {None}) BY <2>1, ConfirmFields
  <2> HIDE DEF b
  <2> QED BY <2>1, <2>2, FinishedQueued DEF QueuedIsAssignable, Frame
<1>7. ASSUME NEW t \in Tasks, Expire(t) PROVE QueuedIsAssignable'
  <2> DEFINE g == tasks[t].current
  <2>1. /\ Frame(t, g) /\ tasks'[t] = FinishedTask(tasks[t], attempts[t][g], now)
        /\ tasks[t] \in Task /\ attempts[t][g] \in Attempt(Slot \cup {None})
    BY <1>7, ExpireEffect DEF Current
  <2> QED BY <2>1, FinishedQueued DEF QueuedIsAssignable, Frame
<1>8. ASSUME NEW t \in Tasks, Cancel(t) PROVE QueuedIsAssignable'
  <2>1. tasks[t] \in Task /\ now \in Nat BY DEF Structure, TypeOK
  <2> DEFINE c == [tasks[t] EXCEPT !.cancel_requested_at = now]
  <2>2. /\ c \in Task /\ c.state = tasks[t].state
        /\ [c EXCEPT !.state = "Cancelled"].state = "Cancelled"
    BY <2>1, CancelledTaskFields
  <2>3. \A u \in Tasks : u # t => tasks'[u] = tasks[u]
    BY <1>8, CancelEffect DEF Frame
  <2>4. \/ tasks'[t] = [c EXCEPT !.state = "Cancelled"]
        \/ tasks'[t] = c /\ tasks[t].state = "Active"
        \/ /\ tasks'[t] = FinishedTask(c, attempts[t][tasks[t].current], now)
           /\ attempts[t][tasks[t].current] \in Attempt(Slot \cup {None})
    BY <1>8, CancelEffect DEF Current
  <2> HIDE DEF c
  <2>5. tasks'[t].state = "Queued" => Assignable(tasks'[t]) /\ ~CancelRequested(tasks'[t])
    <3> DEFINE a == attempts[t][tasks[t].current]
    <3>1. CASE /\ tasks'[t] = FinishedTask(c, a, now)
               /\ a \in Attempt(Slot \cup {None})
      <4> HIDE DEF a
      <4> QED BY <2>2, <3>1, FinishedQueued
    <3>2. CASE tasks'[t] = [c EXCEPT !.state = "Cancelled"]
      BY <2>2, <3>2
    <3>3. CASE tasks'[t] = c /\ tasks[t].state = "Active"
      BY <2>2, <3>3
    <3> QED BY <2>4, <3>1, <3>2, <3>3
  <2> QED BY <2>3, <2>5 DEF QueuedIsAssignable
<1>9. CASE Tick \/ UNCHANGED vars BY <1>1, <1>9 DEF Tick, vars
<1>10. ASSUME NEW s \in Sessions, OpenSession(s) \/ ExtendSession(s) PROVE QueuedIsAssignable'
  BY <1>1, <1>10 DEF OpenSession, ExtendSession
<1>11. ASSUME NEW slot \in Slot, AcquireEmpty(slot) PROVE QueuedIsAssignable'
  BY <1>1, <1>11 DEF AcquireEmpty
<1> QED BY <1>2, <1>3, <1>4, <1>5, <1>6, <1>7, <1>8, <1>9, <1>10, <1>11 DEF Next

-----------------------------------------------------------------------------
(* Every step that touches the active attempt has one of two shapes.       *)
Touched(t, g) ==
    LET a == attempts[t][g]  b == attempts'[t][g] IN
    /\ Current(t, g) /\ Frame(t, g) /\ UNCHANGED <<now, sessions, cursors>>
    /\ tasks'[t].attempt_count = g
    /\ \/ tasks'[t].cancel_requested_at = tasks[t].cancel_requested_at
       \/ ~CancelRequested(tasks[t]) /\ tasks'[t].cancel_requested_at = now
    /\ a.settlement # NoReport => b.settlement = a.settlement
    /\ a.started => b.started
    /\ CancelRequested(tasks[t]) /\ ~a.started /\ b.started => b.settlement # NoReport
    /\ b.authority_deadline =< a.authority_deadline

Ended(t, g) ==
    /\ Touched(t, g)
    /\ attempts'[t][g].state \notin {"None", "Active"}
    /\ tasks'[t].state \notin {"Absent", "Active"}
    /\ attempts'[t][g].settlement = "Success" =>
           tasks'[t].state = IF CancelRequested(tasks'[t]) THEN "Cancelled" ELSE "Succeeded"
    /\ CancelRequested(tasks[t]) => tasks'[t].state # "Queued"

InPlace(t, g) ==
    LET a == attempts[t][g]  b == attempts'[t][g] IN
    /\ Touched(t, g) /\ LiveAttempt(t, g)
    /\ tasks'[t].state = "Active" /\ b.state = "Active"
    /\ b.owner = a.owner /\ b.deadline = a.deadline
    /\ b.expires_at \in Nat /\ b.authority_deadline \in Nat
    /\ \/ b.expires_at =< b.authority_deadline
       \/ b.expires_at = a.expires_at /\ b.authority_deadline = a.authority_deadline
    /\ b.expires_at =< sessions[SessionOf(a.owner)] \/ b.expires_at =< a.expires_at
    /\ \/ tasks'[t].cancel_requested_at = tasks[t].cancel_requested_at
       \/ /\ tasks'[t].cancel_requested_at = now
          /\ b.authority_deadline =< now + CleanupGrace
    /\ \/ b.renew_intent = a.renew_intent
       \/ (/\ b.renew_intent = "Dispatch" /\ ~CancelRequested(tasks[t])
           /\ now < a.deadline /\ a.settlement = NoReport) => b.started

(* core::finish of the active attempt has the first shape, for whichever   *)
(* operation called it.                                                    *)
LEMMA FinishEnds ==
    ASSUME NEW t \in Tasks, NEW g \in Generation, Current(t, g), Frame(t, g),
           UNCHANGED <<now, sessions, cursors>>,
           NEW task \in Task, NEW b \in Attempt(Slot \cup {None}),
           tasks'[t] = FinishedTask(task, b, now),
           attempts'[t][g] = FinishedAttempt(task, b),
           task.attempt_count = g,
           \/ task.cancel_requested_at = tasks[t].cancel_requested_at
           \/ ~CancelRequested(tasks[t]) /\ task.cancel_requested_at = now,
           attempts[t][g].settlement # NoReport => b.settlement = attempts[t][g].settlement,
           attempts[t][g].started => b.started,
           ~attempts[t][g].started /\ b.started => b.settlement # NoReport,
           b.authority_deadline = attempts[t][g].authority_deadline
    PROVE  Ended(t, g)
<1>1. LET u == tasks'[t]  c == attempts'[t][g] IN
      /\ u.state = FinishedTaskState(task, b) /\ u.attempt_count = g
      /\ u.cancel_requested_at = task.cancel_requested_at
      /\ c.state \notin {"None", "Active"}
      /\ c.settlement = b.settlement /\ c.started = b.started
      /\ c.authority_deadline = b.authority_deadline
  BY FinishFields
<1>2. b.authority_deadline \in Nat BY DEF Attempt
<1>3. Touched(t, g) BY <1>1, <1>2 DEF Touched
<1>4. CancelRequested(tasks'[t]) = CancelRequested(task) BY <1>1 DEF CancelRequested
<1>5. CancelRequested(tasks[t]) => CancelRequested(task) BY DEF CancelRequested
<1>6. CancelRequested(task) => tasks'[t].state = "Cancelled" BY <1>1 DEF FinishedTaskState
<1>7. tasks'[t].state \notin {"Absent", "Active"} BY <1>1 DEF FinishedTaskState
<1>8. ~CancelRequested(task) /\ b.settlement = "Success" => tasks'[t].state = "Succeeded"
  BY <1>1 DEF FinishedTaskState
<1> QED BY <1>1, <1>3, <1>4, <1>5, <1>6, <1>7, <1>8 DEF Ended

(* A confirmed cleanup is an Ended step.                                   *)
LEMMA ConfirmEnds ==
    ASSUME Structure, NEW t \in Tasks, NEW g \in Generation, ConfirmQuiescence(t, g)
    PROVE  Ended(t, g)
<1> DEFINE a == attempts[t][g]
           b == [a EXCEPT !.quiescence = "Confirmed"]
<1>1. /\ Current(t, g) /\ Frame(t, g) /\ UNCHANGED <<now, sessions, cursors>>
      /\ tasks'[t] = FinishedTask(tasks[t], b, now)
      /\ attempts'[t][g] = FinishedAttempt(tasks[t], b)
  BY ConfirmEffect
<1>2. tasks[t] \in Task /\ tasks[t].attempt_count = g /\ a \in Attempt(Slot \cup {None})
  BY <1>1 DEF Current
<1>3. /\ b \in Attempt(Slot \cup {None})
      /\ b.settlement = a.settlement /\ b.started = a.started
      /\ b.authority_deadline = a.authority_deadline
  BY <1>2, ConfirmFields
<1> HIDE DEF a, b
<1> QED BY <1>1, <1>2, <1>3, FinishEnds DEF a

(* An expiry is an Ended step.                                             *)
LEMMA ExpireEnds ==
    ASSUME Structure, NEW t \in Tasks, Expire(t)
    PROVE  tasks[t].current \in Generation /\ Ended(t, tasks[t].current)
<1> DEFINE g == tasks[t].current
<1>1. /\ g \in Generation
      /\ Current(t, g) /\ Frame(t, g) /\ UNCHANGED <<now, sessions, cursors>>
      /\ tasks'[t] = FinishedTask(tasks[t], attempts[t][g], now)
      /\ attempts'[t][g] = FinishedAttempt(tasks[t], attempts[t][g])
  BY ExpireEffect
<1>2. /\ tasks[t] \in Task /\ tasks[t].attempt_count = g
      /\ attempts[t][g] \in Attempt(Slot \cup {None})
  BY <1>1 DEF Current
<1> HIDE DEF g
<1>3. Ended(t, g) BY <1>1, <1>2, FinishEnds
<1> QED BY <1>1, <1>3 DEF g

(* A report is an Ended or an InPlace step.                                *)
LEMMA SettleShape ==
    ASSUME Structure, NEW t \in Tasks, NEW g \in Generation, NEW outcome \in Outcome,
           NEW started \in BOOLEAN, NEW q \in Quiescence, Settle(t, g, outcome, started, q)
    PROVE  Ended(t, g) \/ InPlace(t, g)
<1> DEFINE a == attempts[t][g]
           b == SettledAttempt(a, outcome, started, q)
<1>1. /\ Current(t, g) /\ Frame(t, g) /\ UNCHANGED <<now, sessions, cursors>>
      /\ LiveAttempt(t, g) /\ a.settlement = NoReport
      /\ \/ /\ tasks'[t] = FinishedTask(tasks[t], b, now)
            /\ attempts'[t][g] = FinishedAttempt(tasks[t], b)
         \/ /\ tasks'[t] = tasks[t]
            /\ attempts'[t][g] = b
  BY SettleEffect
<1>2. /\ tasks[t] \in Task /\ tasks[t].attempt_count = g /\ tasks[t].state = "Active"
      /\ a \in Attempt(Slot \cup {None}) /\ a.state = "Active"
  BY <1>1 DEF Current
<1>3. /\ b \in Attempt(Slot \cup {None})
      /\ b.state = a.state /\ b.owner = a.owner /\ b.renew_intent = a.renew_intent
      /\ b.settlement = outcome /\ b.expires_at = a.expires_at
      /\ b.deadline = a.deadline /\ b.authority_deadline = a.authority_deadline
      /\ a.started => b.started
  <2> HIDE DEF a
  <2> QED BY <1>2, SettleType, SettleFields
<1>4. outcome # NoReport BY DEF Outcome, NoReport
<1>5. a.expires_at \in Nat /\ a.authority_deadline \in Nat BY <1>2 DEF Attempt
<1> HIDE DEF a, b
<1>6. CASE /\ tasks'[t] = FinishedTask(tasks[t], b, now)
           /\ attempts'[t][g] = FinishedAttempt(tasks[t], b)
  BY <1>1, <1>2, <1>3, <1>4, <1>6, FinishEnds DEF a
<1>7. CASE tasks'[t] = tasks[t] /\ attempts'[t][g] = b
  <2>1. Touched(t, g) BY <1>1, <1>2, <1>3, <1>4, <1>5, <1>7 DEF Touched, a
  <2> QED BY <1>1, <1>2, <1>3, <1>5, <1>7, <2>1 DEF InPlace, a
<1> QED BY <1>1, <1>6, <1>7

(* A renewal is an InPlace step.                                           *)
LEMMA RenewShape ==
    ASSUME Structure, NEW t \in Tasks, NEW g \in Generation,
           NEW intent \in {"Dispatch", "KeepAlive"}, Renew(t, g, intent)
    PROVE  InPlace(t, g)
<1> DEFINE a == attempts[t][g]
           e == sessions[SessionOf(a.owner)]
           b == RenewedAttempt(tasks[t], a, intent, e, now)
<1>1. /\ Current(t, g) /\ Frame(t, g) /\ UNCHANGED <<now, sessions, cursors>>
      /\ LiveAttempt(t, g) /\ tasks'[t] = tasks[t] /\ attempts'[t][g] = b
  BY RenewEffect
<1>2. /\ tasks[t] \in Task /\ tasks[t].attempt_count = g /\ tasks[t].state = "Active"
      /\ a \in Attempt(Slot \cup {None}) /\ a.state = "Active" /\ e \in Nat
  BY <1>1 DEF Current
<1>3. now \in Nat BY DEF Structure, TypeOK
<1>4. a.authority_deadline \in Nat BY <1>2 DEF Attempt
<1>5. /\ b.state = a.state /\ b.owner = a.owner /\ b.renew_intent = intent
      /\ b.settlement = a.settlement
      /\ b.deadline = a.deadline /\ b.authority_deadline = a.authority_deadline
      /\ b.expires_at = LeaseUntil(now, a.authority_deadline, e)
      /\ a.started => b.started
      /\ (/\ intent = "Dispatch" /\ ~CancelRequested(tasks[t])
          /\ now < a.deadline /\ a.settlement = NoReport) => b.started
      /\ CancelRequested(tasks[t]) /\ b.started => a.started
  <2> HIDE DEF a, e
  <2> QED BY <1>2, RenewFields
<1>6. /\ b.expires_at \in Nat /\ b.expires_at =< a.authority_deadline
      /\ b.expires_at =< e
  <2>1. b.expires_at = LeaseUntil(now, a.authority_deadline, e) /\ e \in Nat
    BY <1>2, <1>5
  <2> HIDE DEF a, b, e
  <2> QED BY ZenonT(60), <1>3, <1>4, <2>1, LeaseUntilType
<1> HIDE DEF a, b, e
<1>7. Touched(t, g) BY <1>1, <1>2, <1>4, <1>5 DEF Touched, a
<1>8. \/ b.renew_intent = a.renew_intent
      \/ (/\ b.renew_intent = "Dispatch" /\ ~CancelRequested(tasks[t])
          /\ now < a.deadline /\ a.settlement = NoReport) => b.started
  BY <1>5
<1> QED BY <1>1, <1>2, <1>4, <1>5, <1>6, <1>7, <1>8 DEF InPlace, a, e

(* Cancel of an active task has one of the shapes too.                     *)
LEMMA CancelShape ==
    ASSUME Structure, NEW t \in Tasks, Cancel(t), tasks[t].state = "Active"
    PROVE  LET g == tasks[t].current IN g \in Generation /\ (Ended(t, g) \/ InPlace(t, g))
<1> DEFINE g == tasks[t].current
           a == attempts[t][g]
           c == [tasks[t] EXCEPT !.cancel_requested_at = now]
           b == CancelledAttempt(a, now)
<1>1. /\ ~CancelRequested(tasks[t]) /\ UNCHANGED <<now, sessions, cursors>>
      /\ g \in Generation /\ Current(t, g) /\ Frame(t, g)
      /\ \/ /\ tasks'[t] = FinishedTask(c, a, now)
            /\ attempts'[t][g] = FinishedAttempt(c, a)
         \/ /\ now < NextExpiry(t)
            /\ tasks'[t] = c
            /\ attempts'[t][g] = b
  BY CancelEffect
<1>2. /\ tasks[t] \in Task /\ tasks[t].attempt_count = g /\ tasks[t].current = g
      /\ a \in Attempt(Slot \cup {None}) /\ a.state = "Active"
  BY <1>1 DEF Current
<1>3. now \in Nat BY DEF Structure, TypeOK
<1>4. /\ c \in Task /\ c.state = "Active" /\ c.attempt_count = g
      /\ c.cancel_requested_at = now
  BY <1>2, <1>3, CancelledTaskFields
<1>5. /\ b.state = a.state /\ b.owner = a.owner /\ b.renew_intent = a.renew_intent
      /\ b.settlement = a.settlement /\ b.started = a.started
      /\ b.deadline = a.deadline
      /\ b.authority_deadline =< a.authority_deadline
      /\ b.authority_deadline =< now + CleanupGrace
      /\ b.authority_deadline \in Nat /\ b.expires_at \in Nat
      /\ b.expires_at =< b.authority_deadline /\ b.expires_at =< a.expires_at
  BY <1>2, <1>3, CancelFields
<1>6. now < NextExpiry(t) => LiveAttempt(t, g)
  <2>1. a.expires_at \in Nat /\ a.authority_deadline \in Nat BY <1>2 DEF Attempt
  <2> QED BY <1>2, <1>3, <2>1 DEF NextExpiry, LiveAttempt, Live, Earlier
<1> HIDE DEF g, a, b, c
<1>7. CASE /\ tasks'[t] = FinishedTask(c, a, now)
           /\ attempts'[t][g] = FinishedAttempt(c, a)
  BY <1>1, <1>2, <1>3, <1>4, <1>7, FinishEnds DEF a, g
<1>8. CASE now < NextExpiry(t) /\ tasks'[t] = c /\ attempts'[t][g] = b
  <2>1. Touched(t, g) BY <1>1, <1>2, <1>4, <1>5, <1>8 DEF Touched, a
  <2> QED BY <1>1, <1>2, <1>4, <1>5, <1>6, <1>8, <2>1 DEF InPlace, a, g
<1> QED BY <1>1, <1>7, <1>8 DEF g

(* The steps by shape: the rows are kept, or one of these happens.         *)
RowsKept ==
    /\ UNCHANGED <<tasks, attempts>>
    /\ \/ Tick \/ UNCHANGED vars
       \/ \E s \in Sessions : OpenSession(s) \/ ExtendSession(s)
       \/ \E slot \in Slot : AcquireEmpty(slot)

CancelQueued(t) == Cancel(t) /\ tasks[t].state = "Queued"

(* Every change of an existing task row has one of the shapes above.       *)
LEMMA NextShape ==
    ASSUME Structure, [Next]_vars
    PROVE  \/ RowsKept
           \/ \E t \in Tasks : Submit(t) \/ CancelQueued(t)
           \/ \E slot \in Slot, t \in Tasks : AcquireTask(slot, t)
           \/ \E t \in Tasks, g \in Generation : InPlace(t, g) \/ Ended(t, g)
<1>1. CASE Tick \/ UNCHANGED vars BY <1>1 DEF RowsKept, Tick, vars
<1>2. ASSUME NEW s \in Sessions, OpenSession(s) \/ ExtendSession(s) PROVE RowsKept
  BY <1>2 DEF RowsKept, OpenSession, ExtendSession
<1>3. ASSUME NEW slot \in Slot, AcquireEmpty(slot) PROVE RowsKept
  BY <1>3 DEF RowsKept, AcquireEmpty
<1>4. ASSUME NEW t \in Tasks, Cancel(t)
      PROVE  CancelQueued(t) \/ \E g \in Generation : InPlace(t, g) \/ Ended(t, g)
  BY <1>4, CancelShape DEF Cancel, CancelQueued
<1>5. ASSUME NEW t \in Tasks, Expire(t) PROVE \E g \in Generation : Ended(t, g)
  BY <1>5, ExpireEnds
<1>6. ASSUME NEW t \in Tasks, NEW g \in Generation,
             \/ \E intent \in {"Dispatch", "KeepAlive"} : Renew(t, g, intent)
             \/ \E outcome \in Outcome, started \in BOOLEAN, q \in Quiescence :
                   Settle(t, g, outcome, started, q)
             \/ ConfirmQuiescence(t, g)
      PROVE  InPlace(t, g) \/ Ended(t, g)
  BY <1>6, RenewShape, SettleShape, ConfirmEnds
<1> QED BY <1>1, <1>2, <1>3, <1>4, <1>5, <1>6 DEF Next

-----------------------------------------------------------------------------
(* An accepted success is final.                                           *)
LEMMA NextSuccess ==
    ASSUME Structure, QueuedIsAssignable, SuccessIsFinal, [Next]_vars
    PROVE  SuccessIsFinal'
<1>1. CASE RowsKept BY <1>1 DEF RowsKept, SuccessIsFinal
<1>2. ASSUME NEW t \in Tasks, Submit(t) PROVE SuccessIsFinal'
  <2>1. /\ \A u \in Tasks : u # t => tasks'[u] = tasks[u]
        /\ attempts' = attempts
        /\ \A g \in Generation : attempts[t][g].settlement # "Success"
    BY <1>2, SubmitEffect DEF AbsentAttempt, NoReport
  <2> QED BY <2>1 DEF SuccessIsFinal
<1>3. ASSUME NEW t \in Tasks, CancelQueued(t) PROVE SuccessIsFinal'
  <2>1. /\ \A u \in Tasks : u # t => tasks'[u] = tasks[u]
        /\ attempts' = attempts /\ tasks[t].state = "Queued"
    BY <1>3, CancelEffect DEF CancelQueued, Current
  <2>2. \A g \in Generation : attempts[t][g].settlement # "Success"
    BY <2>1 DEF SuccessIsFinal
  <2> QED BY <2>1, <2>2 DEF SuccessIsFinal
<1>4. ASSUME NEW slot \in Slot, NEW t \in Tasks, AcquireTask(slot, t) PROVE SuccessIsFinal'
  <2> DEFINE g == tasks[t].attempt_count + 1
  <2>1. /\ g \in Generation /\ Frame(t, g) /\ tasks[t].state = "Queued"
        /\ attempts'[t][g] = ClaimedAttempt(slot, sessions[SessionOf(slot)], now)
    BY <1>4, AcquireEffect
  <2>2. attempts'[t][g].settlement # "Success" BY <2>1 DEF ClaimedAttempt, NoReport
  <2>3. \A h \in Generation : attempts[t][h].settlement # "Success"
    BY <2>1 DEF SuccessIsFinal
  <2> HIDE DEF g
  <2> QED BY <2>1, <2>2, <2>3 DEF SuccessIsFinal, Frame
<1>5. ASSUME NEW t \in Tasks, NEW g \in Generation, InPlace(t, g) \/ Ended(t, g)
      PROVE  SuccessIsFinal'
  <2>1. Frame(t, g) /\ tasks[t].attempt_count = g /\ tasks'[t].attempt_count = g
    BY <1>5 DEF InPlace, Ended, Touched, Current
  <2>2. \A h \in Generation : h # g => attempts'[t][h].settlement # "Success"
    BY <2>1 DEF SuccessIsFinal, Frame
  <2>3. attempts'[t][g].settlement = "Success" =>
            tasks'[t].state \in IF CancelRequested(tasks'[t]) THEN {"Active", "Cancelled"}
                                                              ELSE {"Active", "Succeeded"}
    BY <1>5 DEF InPlace, Ended
  <2> QED BY <2>1, <2>2, <2>3 DEF SuccessIsFinal, Frame
<1> QED BY <1>1, <1>2, <1>3, <1>4, <1>5, NextShape

(* Dispatch is only ever allowed after its start was recorded: as long as  *)
(* the latest accepted renewal asked for dispatch and nothing ended it.    *)
DispatchStarted ==
    \A t \in Tasks, g \in Generation :
        LET a == attempts[t][g] IN
        (/\ a.state = "Active" /\ a.renew_intent = "Dispatch"
         /\ ~CancelRequested(tasks[t]) /\ now < a.deadline
         /\ a.settlement = NoReport) => a.started

(* Every step keeps the granted dispatch recorded.                         *)
LEMMA NextDispatch ==
    ASSUME Structure, DispatchStarted, [Next]_vars
    PROVE  DispatchStarted'
<1>0. now \in Nat /\ \A t \in Tasks, g \in Generation : attempts[t][g].deadline \in Nat
  BY DEF Structure, TypeOK, Attempt
<1>1. CASE RowsKept
  <2>1. /\ tasks' = tasks /\ attempts' = attempts
        /\ now' = now \/ now' = now + 1
    BY <1>1 DEF RowsKept, Tick, vars, OpenSession, ExtendSession, AcquireEmpty
  <2>2. \A t \in Tasks, g \in Generation :
            now' < attempts[t][g].deadline => now < attempts[t][g].deadline
    BY <1>0, <2>1
  <2> QED BY <2>1, <2>2 DEF DispatchStarted
<1>2. ASSUME NEW t \in Tasks, Submit(t) PROVE DispatchStarted'
  <2>1. /\ \A u \in Tasks : u # t => tasks'[u] = tasks[u]
        /\ attempts' = attempts /\ now' = now
        /\ \A g \in Generation : attempts[t][g].state # "Active"
    BY <1>2, SubmitEffect DEF AbsentAttempt
  <2> QED BY <2>1 DEF DispatchStarted
<1>3. ASSUME NEW t \in Tasks, CancelQueued(t) PROVE DispatchStarted'
  <2>1. /\ \A u \in Tasks : u # t => tasks'[u] = tasks[u]
        /\ attempts' = attempts /\ tasks[t].state = "Queued" /\ now' = now
    BY <1>3, CancelEffect DEF CancelQueued, Current
  <2>2. \A g \in Generation : attempts[t][g].state # "Active"
    BY <2>1 DEF Structure, SingleOwner
  <2> QED BY <2>1, <2>2 DEF DispatchStarted
<1>4. ASSUME NEW slot \in Slot, NEW t \in Tasks, AcquireTask(slot, t) PROVE DispatchStarted'
  <2> DEFINE g == tasks[t].attempt_count + 1
  <2>1. /\ g \in Generation /\ Frame(t, g) /\ now' = now
        /\ attempts'[t][g] = ClaimedAttempt(slot, sessions[SessionOf(slot)], now)
        /\ \A h \in Generation : attempts[t][h].state # "Active"
    BY <1>4, AcquireEffect
  <2>2. attempts'[t][g].renew_intent # "Dispatch" BY <2>1 DEF ClaimedAttempt
  <2> HIDE DEF g
  <2> QED BY <2>1, <2>2 DEF DispatchStarted, Frame
<1>5. ASSUME NEW t \in Tasks, NEW g \in Generation, Ended(t, g) PROVE DispatchStarted'
  <2>1. /\ Frame(t, g) /\ now' = now /\ attempts'[t][g].state # "Active"
        /\ \A h \in Generation : h # g => attempts[t][h].state # "Active"
    BY <1>5 DEF Ended, Touched, Current
  <2> QED BY <2>1 DEF DispatchStarted, Frame
<1>6. ASSUME NEW t \in Tasks, NEW g \in Generation, InPlace(t, g) PROVE DispatchStarted'
  <2> DEFINE a == attempts[t][g]
             b == attempts'[t][g]
  <2>1. /\ Frame(t, g) /\ now' = now
        /\ \A h \in Generation : h # g => attempts[t][h].state # "Active"
    BY <1>6 DEF InPlace, Touched, Current
  <2>2. /\ a.state = "Active" /\ b.deadline = a.deadline
        /\ a.settlement # NoReport => b.settlement = a.settlement
        /\ a.started => b.started
        /\ \/ b.renew_intent = a.renew_intent
           \/ (/\ b.renew_intent = "Dispatch" /\ ~CancelRequested(tasks[t])
               /\ now < a.deadline /\ a.settlement = NoReport) => b.started
    BY <1>6 DEF InPlace, Touched, Current
  <2>3. ~CancelRequested(tasks'[t]) => ~CancelRequested(tasks[t])
    BY <1>6 DEF InPlace, Touched, CancelRequested
  <2>4. (/\ a.renew_intent = "Dispatch" /\ ~CancelRequested(tasks[t])
         /\ now < a.deadline /\ a.settlement = NoReport) => a.started
    BY <2>2 DEF DispatchStarted
  <2>5. (/\ b.renew_intent = "Dispatch" /\ ~CancelRequested(tasks'[t])
         /\ now' < b.deadline /\ b.settlement = NoReport) => b.started
    <3> HIDE DEF a, b
    <3> QED BY <2>1, <2>2, <2>3, <2>4
  <2> QED BY <2>1, <2>5 DEF DispatchStarted, Frame
<1> QED BY <1>1, <1>2, <1>3, <1>4, <1>5, <1>6, NextShape

-----------------------------------------------------------------------------
(* Leases stay bounded.  Sessions only ever grow, since each extension     *)
(* reaches a full validity period past the present.                        *)
SessionsBounded == \A s \in Sessions : sessions[s] =< now + SessionValidity

(* Only the passing of time moves the clock, and only a worker's opening   *)
(* or extending a session moves a session.                                 *)
LEMMA NextClockAndSessions ==
    ASSUME [Next]_vars
    PROVE  \/ Tick
           \/ \E s \in Sessions : OpenSession(s) \/ ExtendSession(s)
           \/ now' = now /\ sessions' = sessions
<1>1. CASE UNCHANGED vars BY <1>1 DEF vars
<1>2. ASSUME NEW slot \in Slot, AcquireEmpty(slot) PROVE now' = now /\ sessions' = sessions
  BY <1>2 DEF AcquireEmpty
<1>3. ASSUME NEW slot \in Slot, NEW t \in Tasks, AcquireTask(slot, t)
      PROVE  now' = now /\ sessions' = sessions
  BY <1>3 DEF AcquireTask
<1>4. ASSUME NEW t \in Tasks, Submit(t) PROVE now' = now /\ sessions' = sessions
  BY <1>4 DEF Submit
<1>5. ASSUME NEW t \in Tasks, Cancel(t) PROVE now' = now /\ sessions' = sessions
  BY <1>5 DEF Cancel
<1>6. ASSUME NEW t \in Tasks, Expire(t) PROVE now' = now /\ sessions' = sessions
  BY <1>6 DEF Expire
<1>7. ASSUME NEW t \in Tasks, NEW g \in Generation, NEW intent, Renew(t, g, intent)
      PROVE  now' = now /\ sessions' = sessions
  BY <1>7 DEF Renew
<1>8. ASSUME NEW t \in Tasks, NEW g \in Generation, NEW outcome, NEW started, NEW q,
             Settle(t, g, outcome, started, q)
      PROVE  now' = now /\ sessions' = sessions
  BY <1>8 DEF Settle
<1>9. ASSUME NEW t \in Tasks, NEW g \in Generation, ConfirmQuiescence(t, g)
      PROVE  now' = now /\ sessions' = sessions
  BY <1>9 DEF ConfirmQuiescence
<1> QED BY <1>1, <1>2, <1>3, <1>4, <1>5, <1>6, <1>7, <1>8, <1>9 DEF Next

(* Every step keeps sessions within their validity.                        *)
LEMMA NextSessions ==
    ASSUME TypeOK, SessionsBounded, [Next]_vars
    PROVE  /\ SessionsBounded'
           /\ \A s \in Sessions : sessions[s] =< sessions'[s]
<1>0. now \in Nat /\ sessions \in [Sessions -> Nat] /\ SessionValidity \in Nat
  BY TimingAssumption DEF TypeOK
<1>1. CASE Tick
  <2>1. now' = now + 1 /\ sessions' = sessions BY <1>1 DEF Tick
  <2> QED BY <1>0, <2>1 DEF SessionsBounded
<1>2. CASE now' = now /\ sessions' = sessions BY <1>0, <1>2 DEF SessionsBounded
<1>3. ASSUME NEW s \in Sessions, OpenSession(s) \/ ExtendSession(s)
      PROVE  /\ SessionsBounded'
             /\ \A r \in Sessions : sessions[r] =< sessions'[r]
  <2>1. /\ now' = now /\ sessions'[s] = now + SessionValidity
        /\ \A r \in Sessions : r # s => sessions'[r] = sessions[r]
    BY <1>0, <1>3 DEF OpenSession, ExtendSession
  <2> QED BY <1>0, <2>1 DEF SessionsBounded
<1> QED BY <1>1, <1>2, <1>3, NextClockAndSessions

(* Every step keeps leases within horizon, session and grace.              *)
LEMMA NextLease ==
    ASSUME Structure, SessionsBounded, LeaseBounded, [Next]_vars
    PROVE  LeaseBounded'
<1>0. /\ now \in Nat /\ CleanupGrace \in Nat /\ AttemptTimeout \in Nat
      /\ sessions \in [Sessions -> Nat]
      /\ \A t \in Tasks, g \in Generation :
            attempts[t][g].expires_at \in Nat /\ attempts[t][g].authority_deadline \in Nat
  BY TimingAssumption DEF Structure, TypeOK, Attempt
<1>1. \A t \in Tasks, g \in Generation :
          attempts[t][g].state = "Active" => SessionOf(attempts[t][g].owner) \in Sessions
  <2>1. ASSUME NEW t \in Tasks, NEW g \in Generation, attempts[t][g].state = "Active"
        PROVE  SessionOf(attempts[t][g].owner) \in Sessions
    <3>1. tasks[t].state = "Active" /\ tasks[t].current = g
      BY <2>1 DEF Structure, SingleOwner
    <3> QED BY <3>1, CurrentFacts DEF Current, Slot, SessionOf
  <2> QED BY <2>1
<1>2. \A s \in Sessions : sessions'[s] \in Nat /\ sessions[s] =< sessions'[s]
  BY NextSessions, NextStructure DEF Structure, TypeOK
<1>3. CASE RowsKept
  <2>1. tasks' = tasks /\ attempts' = attempts BY <1>3 DEF RowsKept
  <2>2. ASSUME NEW t \in Tasks, NEW g \in Generation, attempts[t][g].state = "Active"
        PROVE  attempts[t][g].expires_at =< sessions'[SessionOf(attempts[t][g].owner)]
    <3>1. attempts[t][g].expires_at =< sessions[SessionOf(attempts[t][g].owner)]
      BY <2>2 DEF LeaseBounded
    <3> QED BY <1>0, <1>1, <1>2, <2>2, <3>1
  <2> QED BY <2>1, <2>2 DEF LeaseBounded
<1>4. ASSUME NEW t \in Tasks, Submit(t) PROVE LeaseBounded'
  <2>1. /\ \A u \in Tasks : u # t => tasks'[u] = tasks[u]
        /\ attempts' = attempts /\ sessions' = sessions
        /\ \A g \in Generation : attempts[t][g].state # "Active"
    BY <1>4, SubmitEffect DEF AbsentAttempt
  <2> QED BY <2>1 DEF LeaseBounded
<1>5. ASSUME NEW t \in Tasks, CancelQueued(t) PROVE LeaseBounded'
  <2>1. /\ \A u \in Tasks : u # t => tasks'[u] = tasks[u]
        /\ attempts' = attempts /\ tasks[t].state = "Queued" /\ sessions' = sessions
    BY <1>5, CancelEffect DEF CancelQueued, Current
  <2>2. \A g \in Generation : attempts[t][g].state # "Active"
    BY <2>1 DEF Structure, SingleOwner
  <2> QED BY <2>1, <2>2 DEF LeaseBounded
<1>6. ASSUME NEW slot \in Slot, NEW t \in Tasks, AcquireTask(slot, t) PROVE LeaseBounded'
  <2> DEFINE g == tasks[t].attempt_count + 1
             b == attempts'[t][g]
             e == sessions[SessionOf(slot)]
  <2>1. /\ g \in Generation /\ Frame(t, g) /\ sessions' = sessions /\ e \in Nat
        /\ b = ClaimedAttempt(slot, e, now) /\ tasks[t] \in Task
        /\ tasks'[t] = ClaimedTask(tasks[t])
        /\ \A h \in Generation : attempts[t][h].state # "Active"
    BY <1>6, AcquireEffect
  <2>2. /\ b.owner = slot /\ b.deadline = now + AttemptTimeout
        /\ b.authority_deadline = now + AttemptTimeout + CleanupGrace
        /\ b.expires_at = LeaseUntil(now, now + AttemptTimeout + CleanupGrace, e)
    <3> HIDE DEF b, e
    <3> QED BY <2>1 DEF ClaimedAttempt
  <2>3. b.expires_at =< b.authority_deadline /\ b.expires_at =< e
    <3>1. now + AttemptTimeout + CleanupGrace \in Nat BY <1>0
    <3> HIDE DEF b, e
    <3> QED BY <1>0, <2>1, <2>2, <3>1, LeaseUntilType
  <2>4. b.authority_deadline =< b.deadline + CleanupGrace
    <3> HIDE DEF b
    <3> QED BY <1>0, <2>2
  <2>5. ~CancelRequested(tasks'[t])
    <3>1. ~CancelRequested(tasks[t]) BY <1>6 DEF AcquireTask, Claimable
    <3> QED BY <2>1, <3>1, ClaimFields DEF CancelRequested
  <2>6. e = sessions'[SessionOf(b.owner)] BY <2>1, <2>2
  <2> HIDE DEF g, b, e
  <2> QED BY <2>1, <2>3, <2>4, <2>5, <2>6 DEF LeaseBounded, Frame, b
<1>7. ASSUME NEW t \in Tasks, NEW g \in Generation, Ended(t, g) PROVE LeaseBounded'
  <2>1. /\ Frame(t, g) /\ sessions' = sessions /\ attempts'[t][g].state # "Active"
        /\ \A h \in Generation : h # g => attempts[t][h].state # "Active"
    BY <1>7 DEF Ended, Touched, Current
  <2> QED BY <2>1 DEF LeaseBounded, Frame
<1>8. ASSUME NEW t \in Tasks, NEW g \in Generation, InPlace(t, g) PROVE LeaseBounded'
  <2> DEFINE a == attempts[t][g]
             b == attempts'[t][g]
             e == sessions[SessionOf(a.owner)]
             horizon == a.deadline + CleanupGrace
  <2>1. /\ Frame(t, g) /\ sessions' = sessions /\ e \in Nat
        /\ \A h \in Generation : h # g => attempts[t][h].state # "Active"
        /\ a.state = "Active" /\ a.deadline \in Nat
    BY <1>8 DEF InPlace, Touched, Current, Attempt
  <2>2. /\ b.owner = a.owner /\ b.deadline = a.deadline
        /\ b.authority_deadline =< a.authority_deadline
        /\ b.expires_at \in Nat /\ b.authority_deadline \in Nat
        /\ \/ b.expires_at =< b.authority_deadline
           \/ b.expires_at = a.expires_at /\ b.authority_deadline = a.authority_deadline
        /\ b.expires_at =< e \/ b.expires_at =< a.expires_at
        /\ \/ tasks'[t].cancel_requested_at = tasks[t].cancel_requested_at
           \/ /\ tasks'[t].cancel_requested_at = now
              /\ b.authority_deadline =< now + CleanupGrace
    BY <1>8 DEF InPlace, Touched
  <2>3. /\ a.expires_at =< a.authority_deadline
        /\ a.authority_deadline =< horizon /\ a.expires_at =< e
        /\ CancelRequested(tasks[t]) =>
               a.authority_deadline =< tasks[t].cancel_requested_at + CleanupGrace
    BY <2>1 DEF LeaseBounded
  <2>4. a.expires_at \in Nat /\ a.authority_deadline \in Nat BY <1>0
  <2>5. horizon \in Nat /\ tasks[t].cancel_requested_at \in Nat
    BY <1>0, <2>1 DEF Structure, TypeOK, Task
  <2>6. e = sessions'[SessionOf(b.owner)] /\ b.deadline + CleanupGrace = horizon
    BY <2>1, <2>2
  <2> HIDE DEF a, b, e, horizon
  <2>7. /\ b.expires_at =< b.authority_deadline /\ b.expires_at =< e
        /\ b.authority_deadline =< horizon
    BY <2>1, <2>2, <2>3, <2>4, <2>5
  <2>8. CancelRequested(tasks'[t]) =>
            b.authority_deadline =< tasks'[t].cancel_requested_at + CleanupGrace
    BY <1>0, <2>2, <2>3, <2>4, <2>5 DEF CancelRequested
  <2> QED BY <2>1, <2>6, <2>7, <2>8 DEF LeaseBounded, Frame, b
<1> QED BY <1>3, <1>4, <1>5, <1>6, <1>7, <1>8, NextShape

-----------------------------------------------------------------------------
(* A consumer never holds two live attempts.  Only live attempts count, so *)
(* the passage of time and the end of an attempt can only release it.      *)
LEMMA NextCursor ==
    ASSUME Structure, LiveHoldsCursor, [Next]_vars
    PROVE  LiveHoldsCursor'
<1>0. /\ now \in Nat
      /\ \A t \in Tasks, g \in Generation :
            attempts[t][g].expires_at \in Nat /\ attempts[t][g].authority_deadline \in Nat
  BY DEF Structure, TypeOK, Attempt
<1>1. \A t \in Tasks, g \in Generation :
          LiveAttempt(t, g) => attempts[t][g].owner \in Slot
  <2>1. ASSUME NEW t \in Tasks, NEW g \in Generation, LiveAttempt(t, g)
        PROVE  attempts[t][g].owner \in Slot
    <3>1. tasks[t].state = "Active" /\ tasks[t].current = g BY <2>1 DEF LiveAttempt, Live
    <3> QED BY <3>1, CurrentFacts DEF Current
  <2> QED BY <2>1
<1>2. ASSUME NEW slot \in Slot, MayAdvance(slot), NEW x, AdvanceCursor(slot, x),
             NEW t \in Tasks, NEW g \in Generation, LiveAttempt(t, g)
      PROVE  cursors'[attempts[t][g].owner].assignment = <<t, g>>
  <2>1. attempts[t][g].owner \in Slot BY <1>1, <1>2
  <2>2. cursors[attempts[t][g].owner].assignment = <<t, g>> BY <1>2 DEF LiveHoldsCursor
  <2>3. <<t, g>> # None
    <3>1. <<t, g>> \in Tasks \X Generation OBVIOUS
    <3> QED BY <3>1, BoundsAssumption
  <2>4. attempts[t][g].owner # slot BY <1>2, <2>2, <2>3 DEF MayAdvance
  <2>5. cursors \in [Slot -> Cursor] BY DEF Structure, TypeOK
  <2> QED BY <1>2, <2>1, <2>2, <2>4, <2>5 DEF AdvanceCursor
<1>3. CASE RowsKept
  <2>1. tasks' = tasks /\ attempts' = attempts BY <1>3 DEF RowsKept
  <2>2. now' = now \/ now' = now + 1
    BY <1>3 DEF RowsKept, Tick, vars, OpenSession, ExtendSession, AcquireEmpty
  <2>3. ASSUME NEW t \in Tasks, NEW g \in Generation, LiveAttempt(t, g)'
        PROVE  LiveAttempt(t, g)
    BY <1>0, <2>1, <2>2, <2>3 DEF LiveAttempt, Live
  <2>4. CASE cursors' = cursors BY <2>1, <2>3, <2>4 DEF LiveHoldsCursor
  <2>5. ASSUME NEW slot \in Slot, AcquireEmpty(slot) PROVE LiveHoldsCursor'
    BY <1>2, <2>1, <2>3, <2>5 DEF LiveHoldsCursor, AcquireEmpty
  <2> QED BY <1>3, <2>4, <2>5 DEF RowsKept, Tick, vars, OpenSession, ExtendSession
<1>4. ASSUME NEW t \in Tasks, Submit(t) PROVE LiveHoldsCursor'
  <2>1. /\ \A u \in Tasks : u # t => tasks'[u] = tasks[u]
        /\ attempts' = attempts /\ cursors' = cursors /\ now' = now
        /\ \A g \in Generation : attempts[t][g].state # "Active"
    BY <1>4, SubmitEffect DEF AbsentAttempt
  <2> QED BY <2>1 DEF LiveHoldsCursor, LiveAttempt, Live
<1>5. ASSUME NEW t \in Tasks, CancelQueued(t) PROVE LiveHoldsCursor'
  <2>1. /\ \A u \in Tasks : u # t => tasks'[u] = tasks[u]
        /\ attempts' = attempts /\ tasks[t].state = "Queued"
        /\ cursors' = cursors /\ now' = now
    BY <1>5, CancelEffect DEF CancelQueued, Current
  <2>2. \A g \in Generation : attempts[t][g].state # "Active"
    BY <2>1 DEF Structure, SingleOwner
  <2> QED BY <2>1, <2>2 DEF LiveHoldsCursor, LiveAttempt, Live
<1>6. ASSUME NEW slot \in Slot, NEW t \in Tasks, AcquireTask(slot, t) PROVE LiveHoldsCursor'
  <2> DEFINE g == tasks[t].attempt_count + 1
  <2>1. /\ g \in Generation /\ Frame(t, g) /\ now' = now
        /\ attempts'[t][g] = ClaimedAttempt(slot, sessions[SessionOf(slot)], now)
        /\ \A h \in Generation : attempts[t][h].state # "Active"
    BY <1>6, AcquireEffect
  <2>2. attempts'[t][g].owner = slot BY <2>1 DEF ClaimedAttempt
  <2>3. MayAdvance(slot) /\ AdvanceCursor(slot, <<t, g>>) BY <1>6 DEF AcquireTask
  <2> HIDE DEF g
  <2>4. cursors'[slot].assignment = <<t, g>>
    BY <2>3 DEF AdvanceCursor, Structure, TypeOK
  <2>5. ASSUME NEW u \in Tasks, NEW h \in Generation, u # t, LiveAttempt(u, h)'
        PROVE  cursors'[attempts'[u][h].owner].assignment = <<u, h>>
    <3>1. LiveAttempt(u, h) /\ attempts'[u][h] = attempts[u][h]
      BY <2>1, <2>5 DEF Frame, LiveAttempt, Live
    <3> QED BY <1>2, <2>3, <2>5, <3>1
  <2>6. ASSUME NEW h \in Generation, h # g PROVE ~LiveAttempt(t, h)'
    BY <2>1, <2>6 DEF Frame, LiveAttempt, Live
  <2> QED BY <2>2, <2>4, <2>5, <2>6 DEF LiveHoldsCursor
<1>7. ASSUME NEW t \in Tasks, NEW g \in Generation, InPlace(t, g) \/ Ended(t, g)
      PROVE  LiveHoldsCursor'
  <2>1. /\ Frame(t, g) /\ cursors' = cursors /\ now' = now
        /\ \A h \in Generation : h # g => attempts[t][h].state # "Active"
    BY <1>7 DEF InPlace, Ended, Touched, Current
  <2>2. LiveAttempt(t, g)' => LiveAttempt(t, g) /\ attempts'[t][g].owner = attempts[t][g].owner
    BY <1>7 DEF InPlace, Ended, LiveAttempt, Live
  <2>3. ASSUME NEW u \in Tasks, NEW h \in Generation, u # t \/ h # g, LiveAttempt(u, h)'
        PROVE  LiveAttempt(u, h) /\ attempts'[u][h] = attempts[u][h]
    BY <2>1, <2>3 DEF Frame, LiveAttempt, Live
  <2>4. ASSUME NEW u \in Tasks, NEW h \in Generation, LiveAttempt(u, h)'
        PROVE  LiveAttempt(u, h) /\ attempts'[u][h].owner = attempts[u][h].owner
    BY <2>2, <2>3, <2>4
  <2> QED BY <2>1, <2>4 DEF LiveHoldsCursor
<1> QED BY <1>3, <1>4, <1>5, <1>6, <1>7, NextShape

-----------------------------------------------------------------------------
(* The inductive invariant behind every theorem below.                     *)
Safety ==
    /\ Structure
    /\ SessionsBounded
    /\ LeaseBounded
    /\ QueuedIsAssignable
    /\ SuccessIsFinal
    /\ DispatchStarted
    /\ LiveHoldsCursor

(* The empty store satisfies the inductive invariant.                      *)
LEMMA InitSafety == Init => Safety
<1> SUFFICES ASSUME Init PROVE Safety
  OBVIOUS
<1>1. Structure BY InitStructure
<1>2. \A t \in Tasks : tasks[t].state = "Absent" BY DEF Init, AbsentTask
<1>3. \A t \in Tasks, g \in Generation :
          /\ attempts[t][g].state = "None"
          /\ attempts[t][g].settlement = NoReport
  BY DEF Init, AbsentAttempt
<1>4. SessionsBounded
  BY TimingAssumption DEF Init, SessionsBounded, NoTime
<1>5. LeaseBounded /\ DispatchStarted BY <1>3 DEF LeaseBounded, DispatchStarted
<1>6. LiveHoldsCursor BY <1>3 DEF LiveHoldsCursor, LiveAttempt, Live
<1>7. QueuedIsAssignable BY <1>2 DEF QueuedIsAssignable
<1>8. SuccessIsFinal BY <1>3 DEF SuccessIsFinal, NoReport
<1> QED BY <1>1, <1>4, <1>5, <1>6, <1>7, <1>8 DEF Safety

(* Every step keeps the inductive invariant.                               *)
LEMMA NextSafety == Safety /\ [Next]_vars => Safety'
<1> SUFFICES ASSUME Safety, [Next]_vars PROVE Safety'
  OBVIOUS
<1>1. TypeOK BY DEF Safety, Structure
<1>2. Structure' BY NextStructure DEF Safety
<1>3. SessionsBounded' BY <1>1, NextSessions DEF Safety
<1>4. LeaseBounded' BY NextLease DEF Safety
<1>5. QueuedIsAssignable' BY NextQueued DEF Safety
<1>6. SuccessIsFinal' BY NextSuccess DEF Safety
<1>7. DispatchStarted' BY NextDispatch DEF Safety
<1>8. LiveHoldsCursor' BY NextCursor DEF Safety
<1> QED BY <1>2, <1>3, <1>4, <1>5, <1>6, <1>7, <1>8 DEF Safety

(* The inductive invariant the safety theorems follow from: what the store *)
(* of ledgence-adapter-postgres satisfies after every transaction.         *)
THEOREM SafetyInvariant == Spec => []Safety
BY InitSafety, NextSafety, PTL DEF Spec

(* Leases never outlive their horizon, session or cancellation grace,      *)
(* however renewals, extensions and cancellations interleave.              *)
THEOREM LeaseBoundedCorrect == Spec => []LeaseBounded
<1>1. Safety => LeaseBounded BY DEF Safety
<1> QED BY <1>1, SafetyInvariant, PTL

(* A consumer never holds two live attempts.                               *)
THEOREM LiveHoldsCursorCorrect == Spec => []LiveHoldsCursor
<1>1. Safety => LiveHoldsCursor BY DEF Safety
<1> QED BY <1>1, SafetyInvariant, PTL

(* A queued task never fails the checks of an acquisition that takes it.   *)
THEOREM QueuedIsAssignableCorrect == Spec => []QueuedIsAssignable
<1>1. Safety => QueuedIsAssignable BY DEF Safety
<1> QED BY <1>1, SafetyInvariant, PTL

(* An accepted success is never retried nor turned into a failure.         *)
THEOREM SuccessIsFinalCorrect == Spec => []SuccessIsFinal
<1>1. Safety => SuccessIsFinal BY DEF Safety
<1> QED BY <1>1, SafetyInvariant, PTL

(* No reply allows a dispatch that the store has not recorded.             *)
THEOREM DispatchIsRecordedCorrect == Spec => []DispatchIsRecorded
<1>1. Safety => DispatchIsRecorded
  <2> SUFFICES ASSUME Safety, NEW t \in Tasks, NEW g \in Generation,
                      Authority(tasks[t], attempts[t][g], g, now).dispatch_allowed
               PROVE  attempts[t][g].started
    BY DEF DispatchIsRecorded
  <2>1. /\ Live(tasks[t], attempts[t][g], g, now)
        /\ ~(CancelRequested(tasks[t]) \/ now >= attempts[t][g].deadline)
        /\ attempts[t][g].settlement = NoReport
        /\ attempts[t][g].renew_intent = "Dispatch"
    BY DEF Authority
  <2>2. now \in Nat /\ attempts[t][g].deadline \in Nat
    BY DEF Safety, Structure, TypeOK, Attempt
  <2>3. attempts[t][g].state = "Active" BY <2>1 DEF Live
  <2> QED BY <2>1, <2>2, <2>3 DEF Safety, DispatchStarted
<1> QED BY <1>1, SafetyInvariant, PTL

-----------------------------------------------------------------------------
(* Neither the row nor the attempts of a terminal task ever change.        *)
THEOREM TerminalFrozenCorrect == Spec => TerminalFrozen
<1> DEFINE A == \A t \in Tasks : tasks[t].state \in Terminal =>
                    tasks'[t] = tasks[t] /\ attempts'[t] = attempts[t]
<1>1. ASSUME Safety, [Next]_vars PROVE A
  <2>0. Structure BY <1>1 DEF Safety
  <2>1. CASE RowsKept BY <2>1 DEF RowsKept
  <2>2. ASSUME NEW t \in Tasks, Submit(t) \/ CancelQueued(t) PROVE A
    <3>1. /\ tasks[t].state \in {"Absent", "Queued"} /\ attempts' = attempts
          /\ \A u \in Tasks : u # t => tasks'[u] = tasks[u]
      <4>1. CASE Submit(t) BY <2>0, <4>1, SubmitEffect DEF AbsentTask
      <4>2. CASE CancelQueued(t) BY <2>0, <4>2, CancelEffect DEF CancelQueued, Current
      <4> QED BY <2>2, <4>1, <4>2
    <3> QED BY <3>1 DEF Terminal
  <2>3. ASSUME NEW slot \in Slot, NEW t \in Tasks, AcquireTask(slot, t) PROVE A
    BY <2>0, <2>3, AcquireEffect DEF Frame, Terminal
  <2>4. ASSUME NEW t \in Tasks, NEW g \in Generation, InPlace(t, g) \/ Ended(t, g) PROVE A
    BY <2>4 DEF InPlace, Ended, Touched, Current, Frame, Terminal
  <2> QED BY <1>1, <2>0, <2>1, <2>2, <2>3, <2>4, NextShape
<1>2. Safety /\ [Next]_vars => [A]_vars BY <1>1
<1> QED BY <1>2, SafetyInvariant, PTL DEF Spec, TerminalFrozen

(* Reports are immutable, ended attempts frozen, recorded starts permanent *)
(* and hard horizons never extended.                                       *)
THEOREM AttemptMonotoneCorrect == Spec => AttemptMonotone
<1> DEFINE Keeps(a, b) == /\ a.settlement # NoReport => b.settlement = a.settlement
                          /\ a.state \notin {"None", "Active"} => b = a
                          /\ a.started => b.started
                          /\ a.state = "Active" => b.authority_deadline =< a.authority_deadline
           A == \A t \in Tasks, g \in Generation : Keeps(attempts[t][g], attempts'[t][g])
<1>1. ASSUME Safety, [Next]_vars PROVE A
  <2>0. Structure BY <1>1 DEF Safety
  <2>1. \A t \in Tasks, g \in Generation : attempts[t][g].authority_deadline \in Nat
    BY <2>0 DEF Structure, TypeOK, Attempt
  <2>2. CASE attempts' = attempts BY <2>1, <2>2
  <2>3. ASSUME NEW t \in Tasks, Submit(t) \/ CancelQueued(t) PROVE A
    BY <2>0, <2>2, <2>3, SubmitEffect, CancelEffect DEF CancelQueued, Current
  <2>4. ASSUME NEW slot \in Slot, NEW t \in Tasks, AcquireTask(slot, t) PROVE A
    <3> DEFINE g == tasks[t].attempt_count + 1
    <3>1. g \in Generation /\ Frame(t, g) /\ attempts[t][g] = AbsentAttempt
      BY <2>0, <2>4, AcquireEffect
    <3>2. Keeps(attempts[t][g], attempts'[t][g]) BY <3>1 DEF AbsentAttempt
    <3> HIDE DEF g
    <3> QED BY <2>1, <3>1, <3>2 DEF Frame
  <2>5. ASSUME NEW t \in Tasks, NEW g \in Generation, InPlace(t, g) \/ Ended(t, g) PROVE A
    <3>1. Touched(t, g) BY <2>5 DEF InPlace, Ended
    <3>2. Keeps(attempts[t][g], attempts'[t][g]) BY <3>1 DEF Touched, Current
    <3> QED BY <2>1, <3>1, <3>2 DEF Touched, Frame
  <2> QED BY <1>1, <2>0, <2>2, <2>3, <2>4, <2>5, NextShape DEF RowsKept
<1>2. Safety /\ [Next]_vars => [A]_vars BY <1>1
<1> QED BY <1>2, SafetyInvariant, PTL DEF Spec, AttemptMonotone

(* Once cancellation is accepted nothing new is claimed or started.        *)
THEOREM NothingStartsAfterCancelCorrect == Spec => NothingStartsAfterCancel
<1> DEFINE Quiet(t) ==
             /\ tasks'[t].attempt_count = tasks[t].attempt_count
             /\ tasks'[t].state # "Queued"
             /\ \A g \in Generation :
                   (~attempts[t][g].started /\ attempts'[t][g].started)
                       => attempts'[t][g].settlement # NoReport
           A == \A t \in Tasks : CancelRequested(tasks[t]) => Quiet(t)
<1>1. ASSUME Safety, [Next]_vars PROVE A
  <2>0. Structure /\ QueuedIsAssignable BY <1>1 DEF Safety
  <2>1. ASSUME NEW t \in Tasks, CancelRequested(tasks[t]),
               tasks'[t] = tasks[t], attempts'[t] = attempts[t]
        PROVE  Quiet(t)
    BY <2>0, <2>1 DEF QueuedIsAssignable
  <2>2. CASE RowsKept BY <2>1, <2>2 DEF RowsKept
  <2>3. ASSUME NEW t \in Tasks, Submit(t) \/ CancelQueued(t) PROVE A
    <3>1. /\ ~CancelRequested(tasks[t]) /\ attempts' = attempts
          /\ \A u \in Tasks : u # t => tasks'[u] = tasks[u]
      <4>1. CASE Submit(t) BY <2>0, <4>1, SubmitEffect DEF AbsentTask, CancelRequested
      <4>2. CASE CancelQueued(t) BY <2>0, <4>2, CancelEffect DEF CancelQueued, Current
      <4> QED BY <2>3, <4>1, <4>2
    <3> QED BY <2>1, <3>1
  <2>4. ASSUME NEW slot \in Slot, NEW t \in Tasks, AcquireTask(slot, t) PROVE A
    <3>1. ~CancelRequested(tasks[t]) BY <2>4 DEF AcquireTask, Claimable
    <3>2. \A u \in Tasks : u # t => tasks'[u] = tasks[u] /\ attempts'[u] = attempts[u]
      BY <2>0, <2>4, AcquireEffect DEF Frame
    <3> QED BY <2>1, <3>1, <3>2
  <2>5. ASSUME NEW t \in Tasks, NEW g \in Generation, InPlace(t, g) \/ Ended(t, g) PROVE A
    <3>1. Touched(t, g) BY <2>5 DEF InPlace, Ended
    <3>2. /\ tasks[t].attempt_count = g /\ tasks'[t].attempt_count = g
          /\ CancelRequested(tasks[t]) => tasks'[t].state # "Queued"
      BY <2>5 DEF InPlace, Ended, Touched, Current
    <3>3. CancelRequested(tasks[t]) => Quiet(t)
      BY <3>1, <3>2 DEF Touched, Frame
    <3>4. \A u \in Tasks : u # t => tasks'[u] = tasks[u] /\ attempts'[u] = attempts[u]
      BY <3>1 DEF Touched, Frame
    <3> QED BY <2>1, <3>3, <3>4
  <2> QED BY <1>1, <2>0, <2>2, <2>3, <2>4, <2>5, NextShape
<1>2. Safety /\ [Next]_vars => [A]_vars BY <1>1
<1> QED BY <1>2, SafetyInvariant, PTL DEF Spec, NothingStartsAfterCancel

(* Every invariant of the store holds in every reachable state.            *)
THEOREM StoreSoundCorrect == Spec => []StoreSound
<1>1. StoreSound <=> TypeOK /\ SingleOwner /\ LeaseBounded /\ LiveHoldsCursor
                       /\ QueuedIsAssignable /\ SuccessIsFinal /\ DispatchIsRecorded
  BY DEF StoreSound
<1> QED
  BY <1>1, TypeCorrect, SingleOwnerCorrect, LeaseBoundedCorrect, LiveHoldsCursorCorrect,
     QueuedIsAssignableCorrect, SuccessIsFinalCorrect, DispatchIsRecordedCorrect, PTL

(* What the store has recorded is never taken back: terminal rows are      *)
(* frozen, attempts only advance, nothing starts after a cancellation.     *)
THEOREM HistorySoundCorrect == Spec => HistorySound
BY TerminalFrozenCorrect, AttemptMonotoneCorrect, NothingStartsAfterCancelCorrect DEF HistorySound

-----------------------------------------------------------------------------
(***************************************************************************)
(* The store implements TaskContract.                                      *)
(***************************************************************************)
(* The clock never shows the value that stands for "not set".              *)
ClockSet == now \in Nat \ {0}

(* The clock stays set.                                                    *)
LEMMA NextClock == TypeOK /\ ClockSet /\ [Next]_vars => ClockSet'
<1> SUFFICES ASSUME TypeOK, ClockSet, [Next]_vars PROVE ClockSet'
  OBVIOUS
<1>1. CASE Tick BY <1>1 DEF Tick, ClockSet
<1>2. CASE now' = now BY <1>2 DEF ClockSet
<1>3. ASSUME NEW s \in Sessions, OpenSession(s) \/ ExtendSession(s) PROVE now' = now
  BY <1>3 DEF OpenSession, ExtendSession
<1> QED BY <1>1, <1>2, <1>3, NextClockAndSessions

(* The mapped functions differ from their old values only at t when        *)
(* nothing a submitter sees of the other tasks changes.                    *)
LEMMA MappedExcept ==
    ASSUME NEW t \in Tasks,
           \A u \in Tasks : u # t => tasks'[u] = tasks[u] /\ Verdict(u)' = Verdict(u)
    PROVE  /\ [u \in Tasks |-> tasks'[u].state]
                = [[u \in Tasks |-> tasks[u].state] EXCEPT ![t] = tasks'[t].state]
           /\ [u \in Tasks |-> tasks'[u].attempt_count]
                = [[u \in Tasks |-> tasks[u].attempt_count] EXCEPT ![t] = tasks'[t].attempt_count]
           /\ [u \in Tasks |-> CancelRequested(tasks'[u])]
                = [[u \in Tasks |-> CancelRequested(tasks[u])] EXCEPT ![t] = CancelRequested(tasks'[t])]
           /\ [u \in Tasks |-> Verdict(u)']
                = [[u \in Tasks |-> Verdict(u)] EXCEPT ![t] = Verdict(t)']
<1> USE DEF CancelRequested
<1> QED OBVIOUS

(* core::finish decides as the contract does.                              *)
LEMMA FinishAfter ==
    ASSUME NEW t \in Task, NEW Owner, NEW a \in Attempt(Owner)
    PROVE  FinishedTaskState(t, a)
             = Contract!After(CancelRequested(t), a.settlement, t.attempt_count)
<1>1. t.attempt_count \in Nat /\ MaxAttempts \in Nat /\ MaxGeneration \in Nat
      /\ MaxAttempts =< MaxGeneration
  BY RetryAssumption DEF Task
<1>2. a.settlement \in {"Success", "Retryable", "Permanent", "None"}
  BY DEF Attempt, Outcome, NoReport
<1> QED BY <1>1, <1>2 DEF FinishedTaskState, MayRetry, RetryableOutcome, NoReport, Contract!After

(* The frame of an action hides the other tasks.                           *)
LEMMA FrameVerdict ==
    ASSUME NEW t \in Tasks,
           \A u \in Tasks : u # t => tasks'[u] = tasks[u] /\ attempts'[u] = attempts[u]
    PROVE  \A u \in Tasks : u # t => tasks'[u] = tasks[u] /\ Verdict(u)' = Verdict(u)
BY DEF Verdict

-----------------------------------------------------------------------------
(* A submission is accepted.                                               *)
LEMMA SubmitStep ==
    ASSUME Structure, NEW t \in Tasks, Submit(t)
    PROVE  Contract!Next
<1>1. /\ tasks[t] = AbsentTask /\ tasks'[t] = Submitted(now)
      /\ \A u \in Tasks : u # t => tasks'[u] = tasks[u] /\ attempts'[u] = attempts[u]
  BY SubmitEffect
<1>2. /\ tasks[t].state = "Absent" /\ tasks'[t].state = "Queued"
      /\ tasks'[t].attempt_count = tasks[t].attempt_count
      /\ CancelRequested(tasks'[t]) = CancelRequested(tasks[t])
      /\ Verdict(t)' = Verdict(t)
  BY <1>1 DEF Submitted, AbsentTask, CancelRequested, Verdict
<1>3. \A u \in Tasks : u # t => tasks'[u] = tasks[u] /\ Verdict(u)' = Verdict(u)
  BY <1>1, FrameVerdict
<1>4. Contract!Accept(t) BY <1>2, <1>3, MappedExcept DEF Contract!Accept
<1> QED BY <1>4 DEF Contract!Next

(* A claim begins an attempt.                                              *)
LEMMA AcquireStep ==
    ASSUME Structure, NEW slot \in Slot, NEW t \in Tasks, AcquireTask(slot, t)
    PROVE  Contract!Next
<1> DEFINE g == tasks[t].attempt_count + 1
<1>1. /\ g \in Generation /\ Frame(t, g) /\ tasks[t] \in Task
      /\ tasks'[t] = ClaimedTask(tasks[t])
      /\ attempts'[t][g] = ClaimedAttempt(slot, sessions[SessionOf(slot)], now)
      /\ tasks[t].state = "Queued" /\ tasks[t].attempt_count < MaxAttempts
  BY AcquireEffect
<1>2. /\ tasks'[t].state = "Active" /\ tasks'[t].current = g /\ tasks'[t].attempt_count = g
      /\ tasks'[t].cancel_requested_at = tasks[t].cancel_requested_at
      /\ attempts'[t][g].settlement = NoReport
  BY <1>1 DEF ClaimedTask, ClaimedAttempt, Task
<1>3. Verdict(t)' = NoReport /\ Verdict(t) = NoReport BY <1>1, <1>2 DEF Verdict
<1>4. \A u \in Tasks : u # t => tasks'[u] = tasks[u] /\ Verdict(u)' = Verdict(u)
  BY <1>1, FrameVerdict DEF Frame
<1>5. CancelRequested(tasks'[t]) = CancelRequested(tasks[t]) BY <1>2 DEF CancelRequested
<1> HIDE DEF g
<1>6. Contract!Begin(t)
  <2>1. /\ [u \in Tasks |-> tasks'[u].state]
             = [[u \in Tasks |-> tasks[u].state] EXCEPT ![t] = "Active"]
        /\ [u \in Tasks |-> tasks'[u].attempt_count]
             = [[u \in Tasks |-> tasks[u].attempt_count] EXCEPT ![t] = g]
    BY <1>2, <1>4, MappedExcept
  <2>2. \A u \in Tasks : CancelRequested(tasks'[u]) = CancelRequested(tasks[u])
                          /\ Verdict(u)' = Verdict(u)
    BY <1>3, <1>4, <1>5
  <2> QED BY <1>1, <2>1, <2>2 DEF Contract!Begin, g
<1> QED BY <1>6 DEF Contract!Next

(* An attempt that ends, whatever ended it, concludes as promised.         *)
LEMMA EndStep ==
    ASSUME NEW t \in Tasks, NEW g \in Generation, Current(t, g), Frame(t, g),
           NEW c \in Task, NEW b \in Attempt(Slot \cup {None}),
           c.attempt_count = tasks[t].attempt_count,
           CancelRequested(tasks[t]) => CancelRequested(c),
           attempts[t][g].settlement # NoReport => b.settlement = attempts[t][g].settlement,
           tasks'[t] = FinishedTask(c, b, now)
    PROVE  Contract!Next
<1> DEFINE stop == CancelRequested(c)
<1>1. /\ tasks'[t].state = FinishedTaskState(c, b)
      /\ tasks'[t].attempt_count = tasks[t].attempt_count
      /\ tasks'[t].cancel_requested_at = c.cancel_requested_at
      /\ tasks'[t].current = NoAttempt
  BY FinishFields
<1>2. tasks'[t].state = Contract!After(stop, b.settlement, tasks[t].attempt_count)
  BY <1>1, FinishAfter
<1>3. tasks[t].state = "Active" /\ Verdict(t) = attempts[t][g].settlement
  BY DEF Current, Verdict, Generation, NoAttempt
<1>4. Verdict(t)' = NoReport BY <1>1 DEF Verdict
<1>5. \A u \in Tasks : u # t => tasks'[u] = tasks[u] /\ Verdict(u)' = Verdict(u)
  BY FrameVerdict DEF Frame
<1>6. CancelRequested(tasks'[t]) = stop /\ stop \in BOOLEAN BY <1>1 DEF CancelRequested
<1>7. b.settlement \in Contract!Verdicts \cup {"None"}
  BY DEF Attempt, Outcome, NoReport, Contract!Verdicts
<1> HIDE DEF stop
<1>8. Contract!Conclude(t, b.settlement, stop)
  <2>1. CancelRequested(tasks[t]) => stop BY DEF stop
  <2> QED BY <1>1, <1>2, <1>3, <1>4, <1>5, <1>6, <2>1, MappedExcept
          DEF Contract!Conclude, NoReport
<1> QED BY <1>6, <1>7, <1>8 DEF Contract!Next

(* A change of the current attempt that keeps its report is not visible.   *)
LEMMA HiddenStep ==
    ASSUME NEW t \in Tasks, NEW g \in Generation, Current(t, g), Frame(t, g),
           tasks'[t] = tasks[t], attempts'[t][g].settlement = attempts[t][g].settlement
    PROVE  UNCHANGED Contract!vars
<1>1. Verdict(t)' = Verdict(t) BY DEF Current, Verdict, Generation, NoAttempt
<1>2. \A u \in Tasks : u # t => tasks'[u] = tasks[u] /\ Verdict(u)' = Verdict(u)
  BY FrameVerdict DEF Frame
<1>3. \A u \in Tasks : tasks'[u] = tasks[u] /\ Verdict(u)' = Verdict(u) BY <1>1, <1>2
<1> QED BY <1>3 DEF Contract!vars

(* A report is accepted, with or without the end of its attempt.           *)
LEMMA SettleStep ==
    ASSUME Structure, NEW t \in Tasks, NEW g \in Generation, NEW outcome \in Outcome,
           NEW started \in BOOLEAN, NEW q \in Quiescence, Settle(t, g, outcome, started, q)
    PROVE  Contract!Next
<1> DEFINE b == SettledAttempt(attempts[t][g], outcome, started, q)
<1>1. /\ Current(t, g) /\ Frame(t, g) /\ attempts[t][g].settlement = NoReport
      /\ \/ tasks'[t] = FinishedTask(tasks[t], b, now)
         \/ tasks'[t] = tasks[t] /\ attempts'[t][g] = b
  BY SettleEffect
<1>2. /\ tasks[t] \in Task /\ attempts[t][g] \in Attempt(Slot \cup {None})
      /\ tasks[t].state = "Active" /\ tasks[t].current = g
  BY <1>1 DEF Current
<1>3. b \in Attempt(Slot \cup {None}) /\ b.settlement = outcome
  BY <1>2, SettleType, SettleFields
<1> HIDE DEF b
<1>4. CASE tasks'[t] = FinishedTask(tasks[t], b, now)
  BY <1>1, <1>2, <1>3, <1>4, EndStep
<1>5. CASE tasks'[t] = tasks[t] /\ attempts'[t][g] = b
  <2>1. \A u \in Tasks : u # t => tasks'[u] = tasks[u] /\ Verdict(u)' = Verdict(u)
    BY <1>1, FrameVerdict DEF Frame
  <2>2. Verdict(t) = NoReport /\ Verdict(t)' = outcome
    BY <1>1, <1>2, <1>3, <1>5 DEF Verdict, Generation, NoAttempt
  <2>3. Contract!Report(t, outcome)
    BY <1>2, <1>5, <2>1, <2>2, MappedExcept DEF Contract!Report, NoReport
  <2> QED BY <2>3 DEF Contract!Next, Contract!Verdicts, Outcome
<1> QED BY <1>1, <1>4, <1>5

(* A cancellation ends a queued task, concludes an attempt past its lease, *)
(* or is only noted.                                                       *)
LEMMA CancelStep ==
    ASSUME Structure, ClockSet, NEW t \in Tasks, Cancel(t)
    PROVE  Contract!Next
<1> DEFINE g == tasks[t].current
           c == [tasks[t] EXCEPT !.cancel_requested_at = now]
<1>0. tasks[t] \in Task /\ now \in Nat BY DEF Structure, TypeOK
<1>1. /\ c \in Task /\ c.state = tasks[t].state /\ c.current = g
      /\ c.attempt_count = tasks[t].attempt_count /\ c.cancel_requested_at = now
      /\ [c EXCEPT !.state = "Cancelled"].state = "Cancelled"
      /\ [c EXCEPT !.state = "Cancelled"].attempt_count = tasks[t].attempt_count
      /\ [c EXCEPT !.state = "Cancelled"].cancel_requested_at = now
  BY <1>0, CancelledTaskFields
<1>2. CancelRequested(c) BY <1>1 DEF CancelRequested, NoTime, ClockSet
<1>3. /\ ~CancelRequested(tasks[t])
      /\ \/ /\ tasks[t].state = "Queued" /\ UNCHANGED attempts
            /\ tasks'[t] = [c EXCEPT !.state = "Cancelled"]
            /\ \A u \in Tasks : u # t => tasks'[u] = tasks[u]
         \/ /\ g \in Generation /\ Current(t, g) /\ Frame(t, g)
            /\ tasks'[t] = FinishedTask(c, attempts[t][g], now)
         \/ /\ g \in Generation /\ Current(t, g) /\ Frame(t, g)
            /\ tasks'[t] = c /\ attempts'[t][g] = CancelledAttempt(attempts[t][g], now)
  BY CancelEffect
<1> HIDE DEF c, g
<1>4. CASE /\ tasks[t].state = "Queued" /\ UNCHANGED attempts
           /\ tasks'[t] = [c EXCEPT !.state = "Cancelled"]
           /\ \A u \in Tasks : u # t => tasks'[u] = tasks[u]
  <2>1. \A u \in Tasks : u # t => tasks'[u] = tasks[u] /\ Verdict(u)' = Verdict(u)
    BY <1>4, FrameVerdict
  <2>2. /\ tasks'[t].state = "Cancelled" /\ CancelRequested(tasks'[t])
        /\ tasks'[t].attempt_count = tasks[t].attempt_count
    BY <1>1, <1>4 DEF CancelRequested, NoTime, ClockSet
  <2>3. Verdict(t)' = Verdict(t) BY <1>4, <2>2 DEF Verdict
  <2>4. Contract!Cancel(t)
    BY ZenonT(60), <1>3, <1>4, <2>1, <2>2, <2>3, MappedExcept DEF Contract!Cancel
  <2> QED BY <2>4 DEF Contract!Next
<1>5. CASE /\ g \in Generation /\ Current(t, g) /\ Frame(t, g)
           /\ tasks'[t] = FinishedTask(c, attempts[t][g], now)
  <2>1. attempts[t][g] \in Attempt(Slot \cup {None}) BY <1>5 DEF Current
  <2> QED BY <1>1, <1>2, <1>5, <2>1, EndStep
<1>6. CASE /\ g \in Generation /\ Current(t, g) /\ Frame(t, g)
           /\ tasks'[t] = c /\ attempts'[t][g] = CancelledAttempt(attempts[t][g], now)
  <2>1. \A u \in Tasks : u # t => tasks'[u] = tasks[u] /\ Verdict(u)' = Verdict(u)
    BY <1>6, FrameVerdict DEF Frame
  <2>2. attempts[t][g] \in Attempt(Slot \cup {None}) /\ tasks[t].state = "Active"
        /\ tasks[t].current = g
    BY <1>6 DEF Current
  <2>3. attempts'[t][g].settlement = attempts[t][g].settlement
    BY <1>0, <1>6, <2>2, CancelFields
  <2>4. Verdict(t)' = Verdict(t)
    BY <1>1, <1>6, <2>2, <2>3 DEF Verdict
  <2>5. Contract!Cancel(t)
    BY <1>1, <1>2, <1>3, <1>6, <2>1, <2>2, <2>4, MappedExcept DEF Contract!Cancel
  <2> QED BY <2>5 DEF Contract!Next
<1> QED BY <1>3, <1>4, <1>5, <1>6

-----------------------------------------------------------------------------
(* The empty store is the contract's initial state.                        *)
LEMMA InitContract == Init => Contract!Init
<1> SUFFICES ASSUME Init PROVE Contract!Init
  OBVIOUS
<1>1. \A t \in Tasks : /\ tasks[t].state = "Absent" /\ tasks[t].attempt_count = 0
                       /\ tasks[t].cancel_requested_at = NoTime
  BY DEF Init, AbsentTask
<1>2. \A t \in Tasks : CancelRequested(tasks[t]) = FALSE /\ Verdict(t) = "None"
  BY <1>1 DEF CancelRequested, Verdict, NoReport
<1> QED BY <1>1, <1>2 DEF Contract!Init

(* Every transaction is a step of the contract or invisible.               *)
LEMMA NextContract ==
    ASSUME Structure, ClockSet, [Next]_vars
    PROVE  [Contract!Next]_(Contract!vars)
<1>1. CASE tasks' = tasks /\ attempts' = attempts
  BY <1>1 DEF Contract!vars, Verdict
<1>2. CASE Tick \/ UNCHANGED vars BY <1>1, <1>2 DEF Tick, vars
<1>3. ASSUME NEW s \in Sessions, OpenSession(s) \/ ExtendSession(s)
      PROVE  [Contract!Next]_(Contract!vars)
  BY <1>1, <1>3 DEF OpenSession, ExtendSession
<1>4. ASSUME NEW slot \in Slot, AcquireEmpty(slot)
      PROVE  [Contract!Next]_(Contract!vars)
  BY <1>1, <1>4 DEF AcquireEmpty
<1>5. ASSUME NEW t \in Tasks, Expire(t) PROVE Contract!Next
  <2> DEFINE g == tasks[t].current
  <2>1. /\ g \in Generation /\ Current(t, g) /\ Frame(t, g)
        /\ tasks'[t] = FinishedTask(tasks[t], attempts[t][g], now)
    BY <1>5, ExpireEffect
  <2>2. tasks[t] \in Task /\ attempts[t][g] \in Attempt(Slot \cup {None}) BY <2>1 DEF Current
  <2> HIDE DEF g
  <2> QED BY <2>1, <2>2, EndStep
<1>6. ASSUME NEW t \in Tasks, NEW g \in Generation, ConfirmQuiescence(t, g)
      PROVE  Contract!Next
  <2> DEFINE b == [attempts[t][g] EXCEPT !.quiescence = "Confirmed"]
  <2>1. /\ Current(t, g) /\ Frame(t, g) /\ tasks'[t] = FinishedTask(tasks[t], b, now)
    BY <1>6, ConfirmEffect
  <2>2. tasks[t] \in Task /\ attempts[t][g] \in Attempt(Slot \cup {None}) BY <2>1 DEF Current
  <2>3. b \in Attempt(Slot \cup {None}) /\ b.settlement = attempts[t][g].settlement
    BY <2>2, ConfirmFields
  <2> HIDE DEF b
  <2> QED BY <2>1, <2>2, <2>3, EndStep
<1>7. ASSUME NEW t \in Tasks, NEW g \in Generation,
             NEW intent \in {"Dispatch", "KeepAlive"}, Renew(t, g, intent)
      PROVE  UNCHANGED Contract!vars
  <2>1. /\ Current(t, g) /\ Frame(t, g) /\ tasks'[t] = tasks[t]
        /\ attempts'[t][g] = RenewedAttempt(tasks[t], attempts[t][g], intent,
                                            sessions[SessionOf(attempts[t][g].owner)], now)
    BY <1>7, RenewEffect
  <2>2. attempts[t][g] \in Attempt(Slot \cup {None}) BY <2>1 DEF Current
  <2>3. attempts'[t][g].settlement = attempts[t][g].settlement
    BY <2>1, <2>2 DEF RenewedAttempt, Attempt
  <2> QED BY <2>1, <2>3, HiddenStep
<1> QED BY <1>2, <1>3, <1>4, <1>5, <1>6, <1>7, SubmitStep, AcquireStep, SettleStep, CancelStep
        DEF Next

(* The store of ledgence-adapter-postgres, with every late, repeated and   *)
(* reordered command it answers, implements what a submitter is promised.  *)
THEOREM ContractImplemented == Spec => ImplementsContract
<1>1. Init => ClockSet BY DEF Init, ClockSet
<1>2. Structure => TypeOK BY DEF Structure
<1>3. Structure /\ ClockSet /\ [Next]_vars => ClockSet' BY <1>2, NextClock
<1>4. Structure /\ ClockSet /\ [Next]_vars => [Contract!Next]_(Contract!vars)
  BY NextContract
<1> QED BY <1>1, <1>3, <1>4, InitContract, StructureInvariant, PTL
        DEF Spec, ImplementsContract, Contract!Spec

-----------------------------------------------------------------------------
(* The workers over the store.                                             *)

(* A lease is never longer than its duration from now.                     *)
LeaseShort ==
    \A t \in Tasks, g \in Generation :
        attempts[t][g].state = "Active" => attempts[t][g].expires_at =< now + LeaseDuration

StoreInv == Safety /\ LeaseShort /\ now > 0

(* Until then the task has no later attempt, and unless it was cancelled   *)
(* this one holds its lease.                                               *)
Covered(t, g, until) ==
    now < until =>
        /\ tasks[t].attempt_count = g
        /\ \/ CancelRequested(tasks[t])
           \/ attempts[t][g].state = "Active" /\ until =< attempts[t][g].expires_at

(* What no step takes from a claimed attempt, and a step other than its    *)
(* own report.                                                             *)
Lasts(t, g) ==
    LET a == attempts[t][g]  b == attempts'[t][g] IN
    /\ b.state # "None" /\ b.owner = a.owner
    /\ a.started => b.started
    /\ \/ tasks'[t].cancel_requested_at = tasks[t].cancel_requested_at
       \/ ~CancelRequested(tasks[t]) /\ tasks'[t].cancel_requested_at = now

Undisturbed(t, g) ==
    /\ Lasts(t, g)
    /\ attempts'[t][g].settlement = attempts[t][g].settlement
    /\ \A until \in Nat : Covered(t, g, until) => Covered(t, g, until)'

-----------------------------------------------------------------------------
(* The types of a row.                                                     *)
LEMMA RowTypes ==
    ASSUME Safety, NEW t \in Tasks, NEW g \in Generation
    PROVE  /\ tasks[t] \in Task /\ attempts[t][g] \in Attempt(Slot \cup {None})
           /\ attempts[t][g].expires_at \in Nat /\ attempts[t][g].authority_deadline \in Nat
           /\ attempts[t][g].started \in BOOLEAN
           /\ now \in Nat /\ LeaseDuration \in Nat
BY TimingAssumption DEF Safety, Structure, TypeOK, Attempt

(* A row that the step does not touch.                                     *)
LEMMA OtherRow ==
    ASSUME NEW t \in Tasks, NEW g \in Generation, attempts[t][g].state # "None",
           tasks'[t] = tasks[t], attempts'[t][g] = attempts[t][g],
           now \in Nat, now' \in Nat, now =< now'
    PROVE  Undisturbed(t, g)
BY DEF Undisturbed, Lasts, Covered

(* Every row but the one a step on a current attempt is about.             *)
LEMMA FrameUndisturbs ==
    ASSUME StoreInv, NEW t \in Tasks, NEW h \in Generation, Current(t, h), Frame(t, h),
           UNCHANGED now,
           \/ tasks'[t].cancel_requested_at = tasks[t].cancel_requested_at
           \/ ~CancelRequested(tasks[t]) /\ tasks'[t].cancel_requested_at = now,
           NEW u \in Tasks, NEW g \in Generation, attempts[u][g].state # "None",
           u # t \/ g # h
    PROVE  Undisturbed(u, g)
<1>1. now \in Nat
  BY RowTypes DEF StoreInv
<1>2. CASE u # t
  BY <1>1, <1>2, OtherRow DEF Frame
<1>3. CASE u = t
  <2>1. g # h /\ attempts'[t][g] = attempts[t][g] /\ tasks[t].attempt_count = h
    BY <1>3 DEF Frame, Current
  <2>2. \A until \in Nat : Covered(u, g, until) => ~(now < until)
    BY <1>3, <2>1 DEF Covered
  <2>. QED BY <1>3, <2>1, <2>2 DEF Undisturbed, Lasts, Covered
<1>. QED BY <1>2, <1>3

(* renew: the lease only grows.                                            *)
LEMMA RenewUndisturbs ==
    ASSUME StoreInv, NEW t \in Tasks, NEW h \in Generation,
           NEW intent \in {"Dispatch", "KeepAlive"}, Renew(t, h, intent),
           NEW u \in Tasks, NEW g \in Generation, attempts[u][g].state # "None"
    PROVE  Undisturbed(u, g)
<1>. DEFINE a == attempts[t][h]
            e == sessions[SessionOf(a.owner)]
            b == RenewedAttempt(tasks[t], a, intent, e, now)
<1>1. /\ Structure /\ Current(t, h) /\ Frame(t, h) /\ tasks'[t] = tasks[t]
      /\ attempts'[t][h] = b /\ UNCHANGED now
  BY RenewEffect DEF StoreInv, Safety
<1>2. /\ a \in Attempt(Slot \cup {None}) /\ a.state = "Active" /\ tasks[t].attempt_count = h
      /\ e \in Nat /\ a.expires_at \in Nat /\ a.authority_deadline \in Nat
  BY <1>1, RowTypes DEF StoreInv, Current
<1>3. /\ a.expires_at =< now + LeaseDuration /\ a.expires_at =< a.authority_deadline
      /\ a.expires_at =< e /\ now \in Nat /\ LeaseDuration \in Nat
  BY <1>2, RowTypes DEF StoreInv, LeaseShort, Safety, LeaseBounded
<1>. HIDE DEF a, e
<1>4. /\ b.state = a.state /\ b.owner = a.owner /\ b.settlement = a.settlement
      /\ b.expires_at = LeaseUntil(now, a.authority_deadline, e) /\ (a.started => b.started)
  BY <1>2 DEF RenewedAttempt, Attempt
<1>. HIDE DEF b
<1>5. a.expires_at =< b.expires_at /\ b.expires_at \in Nat
  BY <1>2, <1>3, <1>4 DEF LeaseUntil, Earlier
<1>6. CASE u = t /\ g = h
  <2>1. /\ attempts[t][h].state = "Active" /\ attempts'[t][h].state = "Active"
        /\ attempts[t][h].expires_at \in Nat /\ attempts'[t][h].expires_at \in Nat
        /\ attempts[t][h].expires_at =< attempts'[t][h].expires_at
        /\ attempts'[t][h].owner = attempts[t][h].owner
        /\ attempts'[t][h].settlement = attempts[t][h].settlement
        /\ attempts[t][h].started => attempts'[t][h].started
    BY <1>1, <1>2, <1>4, <1>5 DEF a
  <2>2. \A until \in Nat : Covered(t, h, until) => Covered(t, h, until)'
    BY <1>1, <2>1 DEF Covered
  <2>. QED BY <1>1, <1>6, <2>1, <2>2 DEF Undisturbed, Lasts
<1>7. CASE u # t \/ g # h
  BY <1>1, <1>7, FrameUndisturbs
<1>. QED BY <1>6, <1>7

(* The rows that core::finish leaves, whoever calls it.                    *)
LEMMA FinishOwner ==
    ASSUME NEW t, NEW Owner, NEW a \in Attempt(Owner)
    PROVE  FinishedAttempt(t, a).owner = a.owner
BY DEF FinishedAttempt, Attempt

(* expire_one: what it ends was not covered any more.                      *)
LEMMA ExpireUndisturbs ==
    ASSUME StoreInv, NEW t \in Tasks, Expire(t),
           NEW u \in Tasks, NEW g \in Generation, attempts[u][g].state # "None"
    PROVE  Undisturbed(u, g)
<1>0. PICK h : h = tasks[t].current
  OBVIOUS
<1>. DEFINE a == attempts[t][h]
            b == FinishedAttempt(tasks[t], a)
            v == FinishedTask(tasks[t], a, now)
<1>1. /\ h \in Generation /\ Current(t, h) /\ Frame(t, h) /\ UNCHANGED now
      /\ tasks'[t] = v /\ attempts'[t][h] = b
  BY <1>0, ExpireEffect DEF StoreInv, Safety
<1>2. /\ a \in Attempt(Slot \cup {None}) /\ tasks[t] \in Task /\ tasks[t].attempt_count = h
      /\ a.expires_at \in Nat /\ a.authority_deadline \in Nat /\ now \in Nat /\ a.state = "Active"
  BY <1>1, RowTypes DEF StoreInv, Current
<1>3. /\ b.state # "None" /\ b.owner = a.owner /\ b.settlement = a.settlement
      /\ b.started = a.started /\ v.attempt_count = tasks[t].attempt_count
      /\ v.cancel_requested_at = tasks[t].cancel_requested_at
  BY <1>2, FinishFields, FinishOwner
<1>4. a.expires_at =< now
  <2>1. Earlier(a.expires_at, a.authority_deadline) =< now
    BY <1>0 DEF Expire, NextExpiry
  <2>2. a.expires_at =< a.authority_deadline
    BY <1>1, <1>2 DEF StoreInv, Safety, LeaseBounded
  <2>. QED BY <1>2, <2>1, <2>2 DEF Earlier
<1>. HIDE DEF a, b, v
<1>5. CASE u = t /\ g = h
  <2>1. \A until \in Nat : Covered(t, h, until) => Covered(t, h, until)'
    BY <1>1, <1>2, <1>3, <1>4 DEF Covered, CancelRequested, a
  <2>. QED BY <1>1, <1>2, <1>3, <1>5, <2>1 DEF Undisturbed, Lasts, a
<1>6. CASE u # t \/ g # h
  BY <1>1, <1>3, <1>6, FrameUndisturbs
<1>. QED BY <1>5, <1>6

(* cancel: a cancelled task has no later attempt.                          *)
LEMMA CancelUndisturbs ==
    ASSUME StoreInv, NEW t \in Tasks, Cancel(t),
           NEW u \in Tasks, NEW g \in Generation, attempts[u][g].state # "None"
    PROVE  Undisturbed(u, g)
<1>0. PICK h : h = tasks[t].current
  OBVIOUS
<1>. DEFINE a == attempts[t][h]
            c == [tasks[t] EXCEPT !.cancel_requested_at = now]
<1>1. /\ tasks[t] \in Task /\ now \in Nat /\ now # NoTime /\ Structure
  BY RowTypes DEF StoreInv, NoTime, Safety
<1>2. /\ c \in Task /\ c.attempt_count = tasks[t].attempt_count /\ c.cancel_requested_at = now
      /\ [c EXCEPT !.state = "Cancelled"].attempt_count = tasks[t].attempt_count
      /\ [c EXCEPT !.state = "Cancelled"].cancel_requested_at = now
  BY <1>1, CancelledTaskFields
<1>3. /\ ~CancelRequested(tasks[t]) /\ UNCHANGED now
      /\ \/ /\ UNCHANGED attempts /\ tasks'[t] = [c EXCEPT !.state = "Cancelled"]
            /\ \A x \in Tasks : x # t => tasks'[x] = tasks[x]
         \/ /\ h \in Generation /\ Current(t, h) /\ Frame(t, h)
            /\ \/ /\ tasks'[t] = FinishedTask(c, a, now)
                  /\ attempts'[t][h] = FinishedAttempt(c, a)
               \/ /\ tasks'[t] = c
                  /\ attempts'[t][h] = CancelledAttempt(a, now)
  BY <1>0, <1>1, CancelEffect
<1>. HIDE DEF c, a
<1>4. CASE /\ UNCHANGED attempts /\ tasks'[t] = [c EXCEPT !.state = "Cancelled"]
           /\ \A x \in Tasks : x # t => tasks'[x] = tasks[x]
  <2>1. CASE u # t
    BY <1>1, <1>3, <1>4, <2>1, OtherRow
  <2>2. CASE u = t
    <3>1. \A until \in Nat : Covered(t, g, until) => Covered(t, g, until)'
      BY <1>1, <1>2, <1>3, <1>4 DEF Covered, CancelRequested
    <3>. QED BY <1>2, <1>3, <1>4, <2>2, <3>1 DEF Undisturbed, Lasts
  <2>. QED BY <2>1, <2>2
<1>5. ASSUME NEW v, NEW b, h \in Generation, Current(t, h), Frame(t, h),
             tasks'[t] = v, attempts'[t][h] = b,
             v.attempt_count = tasks[t].attempt_count, v.cancel_requested_at = now,
             b.state # "None", b.owner = a.owner, b.settlement = a.settlement,
             b.started = a.started
      PROVE  Undisturbed(u, g)
  <2>1. CASE u = t /\ g = h
    <3>1. \A until \in Nat : Covered(t, h, until) => Covered(t, h, until)'
      BY <1>1, <1>3, <1>5 DEF Covered, CancelRequested
    <3>. QED BY <1>3, <1>5, <2>1, <3>1 DEF Undisturbed, Lasts, a
  <2>2. CASE u # t \/ g # h
    BY <1>3, <1>5, <2>2, FrameUndisturbs
  <2>. QED BY <2>1, <2>2
<1>6. CASE /\ h \in Generation /\ Current(t, h) /\ Frame(t, h)
           /\ tasks'[t] = FinishedTask(c, a, now) /\ attempts'[t][h] = FinishedAttempt(c, a)
  <2>1. a \in Attempt(Slot \cup {None})
    BY <1>6 DEF Current, a
  <2>2. LET v == FinishedTask(c, a, now)  b == FinishedAttempt(c, a) IN
        /\ v.attempt_count = tasks[t].attempt_count /\ v.cancel_requested_at = now
        /\ b.state # "None" /\ b.owner = a.owner /\ b.settlement = a.settlement
        /\ b.started = a.started
    BY <1>2, <2>1, FinishFields, FinishOwner
  <2>. QED BY <1>5, <1>6, <2>2
<1>7. CASE /\ h \in Generation /\ Current(t, h) /\ Frame(t, h)
           /\ tasks'[t] = c /\ attempts'[t][h] = CancelledAttempt(a, now)
  <2>1. a \in Attempt(Slot \cup {None}) /\ a.state = "Active"
    BY <1>7 DEF Current, a
  <2>2. LET b == CancelledAttempt(a, now) IN
        /\ b.state = "Active" /\ b.owner = a.owner /\ b.settlement = a.settlement
        /\ b.started = a.started
    BY <1>1, <2>1, CancelFields
  <2>. QED BY <1>2, <1>5, <1>7, <2>2
<1>. QED BY <1>3, <1>4, <1>6, <1>7

(* acquire: a claimed task has no covered attempt.                         *)
LEMMA AcquireUndisturbs ==
    ASSUME StoreInv, NEW slot \in Slot, NEW t \in Tasks, AcquireTask(slot, t),
           NEW u \in Tasks, NEW g \in Generation, attempts[u][g].state # "None"
    PROVE  Undisturbed(u, g)
<1>0. PICK h : h = tasks[t].attempt_count + 1
  OBVIOUS
<1>1. /\ h \in Generation /\ Frame(t, h) /\ UNCHANGED now /\ now \in Nat
      /\ tasks'[t] = ClaimedTask(tasks[t]) /\ tasks[t] \in Task
      /\ attempts[t][h] = AbsentAttempt
      /\ \A x \in Generation : attempts[t][x].state # "Active"
  BY <1>0, AcquireEffect DEF StoreInv, Safety
<1>2. /\ tasks'[t].cancel_requested_at = tasks[t].cancel_requested_at
      /\ ~CancelRequested(tasks[t])
  <2>1. tasks'[t].cancel_requested_at = tasks[t].cancel_requested_at
    BY <1>1 DEF ClaimedTask, Task
  <2>2. ~CancelRequested(tasks[t])
    BY DEF AcquireTask, Claimable
  <2>. QED BY <2>1, <2>2
<1>3. CASE u # t
  BY <1>1, <1>3, OtherRow DEF Frame
<1>4. CASE u = t
  <2>1. g # h
    BY <1>1, <1>4 DEF AbsentAttempt
  <2>2. attempts'[t][g] = attempts[t][g]
    BY <1>1, <2>1 DEF Frame
  <2>3. \A until \in Nat : Covered(t, g, until) => ~(now < until)
    BY <1>1, <1>2 DEF Covered
  <2>. QED BY <1>1, <1>2, <1>4, <2>2, <2>3 DEF Undisturbed, Lasts, Covered
<1>. QED BY <1>3, <1>4

(* Every other step that is no report.                                     *)
LEMMA QuietUndisturbs ==
    ASSUME StoreInv,
           \/ Tick \/ UNCHANGED vars
           \/ \E s \in Sessions : OpenSession(s) \/ ExtendSession(s)
           \/ \E slot \in Slot : AcquireEmpty(slot)
           \/ \E t \in Tasks : Submit(t),
           NEW u \in Tasks, NEW g \in Generation, attempts[u][g].state # "None"
    PROVE  Undisturbed(u, g)
<1>1. now \in Nat /\ Structure
  BY RowTypes DEF StoreInv, Safety
<1>2. ASSUME NEW t \in Tasks, Submit(t) PROVE Undisturbed(u, g)
  <2>1. u # t
    BY <1>1, <1>2, SubmitEffect DEF AbsentAttempt
  <2>. QED BY <1>1, <1>2, <2>1, SubmitEffect, OtherRow
<1>3. CASE UNCHANGED <<tasks, attempts>> /\ (now' = now \/ now' = now + 1)
  BY <1>1, <1>3, OtherRow
<1>. QED BY <1>2, <1>3 DEF Tick, vars, OpenSession, ExtendSession, AcquireEmpty

(* What a report or a confirmed cleanup leaves of its own row.             *)
LEMMA SettleLasts ==
    ASSUME StoreInv, NEW t \in Tasks, NEW g \in Generation, NEW outcome \in Outcome,
           NEW started \in BOOLEAN, NEW q \in Quiescence, Settle(t, g, outcome, started, q)
    PROVE  /\ Lasts(t, g) /\ attempts'[t][g].settlement = outcome
           /\ attempts[t][g].settlement = NoReport /\ UNCHANGED now
           /\ \A u \in Tasks, h \in Generation :
                 attempts[u][h].state # "None" /\ (u # t \/ h # g) => Undisturbed(u, h)
<1>. DEFINE a == attempts[t][g]
            b == SettledAttempt(a, outcome, started, q)
<1>1. /\ Current(t, g) /\ Frame(t, g) /\ a.settlement = NoReport
      /\ \/ tasks'[t] = FinishedTask(tasks[t], b, now) /\ attempts'[t][g] = FinishedAttempt(tasks[t], b)
         \/ tasks'[t] = tasks[t] /\ attempts'[t][g] = b
      /\ UNCHANGED now
  BY SettleEffect DEF StoreInv, Safety
<1>2. /\ a \in Attempt(Slot \cup {None}) /\ tasks[t] \in Task /\ a.state = "Active"
  BY <1>1 DEF Current
<1>. HIDE DEF a
<1>3. /\ b.state = a.state /\ b.owner = a.owner /\ b.settlement = outcome
      /\ a.started => b.started
      /\ b \in Attempt(Slot \cup {None})
  BY <1>2, SettleFields, SettleType
<1>. HIDE DEF b
<1>4. LET v == FinishedTask(tasks[t], b, now)  c == FinishedAttempt(tasks[t], b) IN
      /\ v.cancel_requested_at = tasks[t].cancel_requested_at
      /\ c.state # "None" /\ c.owner = b.owner /\ c.settlement = b.settlement
      /\ c.started = b.started
  BY <1>2, <1>3, FinishFields, FinishOwner
<1>5. /\ Lasts(t, g) /\ attempts'[t][g].settlement = outcome
      /\ tasks'[t].cancel_requested_at = tasks[t].cancel_requested_at
  BY <1>1, <1>2, <1>3, <1>4 DEF Lasts, a
<1>6. \A u \in Tasks, h \in Generation :
          attempts[u][h].state # "None" /\ (u # t \/ h # g) => Undisturbed(u, h)
  BY <1>1, <1>5, FrameUndisturbs
<1>. QED BY <1>1, <1>5, <1>6 DEF a

(* What a confirmed cleanup leaves of its own row.                         *)
LEMMA ConfirmLasts ==
    ASSUME StoreInv, NEW t \in Tasks, NEW g \in Generation, ConfirmQuiescence(t, g)
    PROVE  /\ Lasts(t, g) /\ attempts'[t][g].settlement = attempts[t][g].settlement
           /\ UNCHANGED now
           /\ \A u \in Tasks, h \in Generation :
                 attempts[u][h].state # "None" /\ (u # t \/ h # g) => Undisturbed(u, h)
<1>. DEFINE a == attempts[t][g]
            b == [a EXCEPT !.quiescence = "Confirmed"]
<1>1. /\ Current(t, g) /\ Frame(t, g) /\ tasks'[t] = FinishedTask(tasks[t], b, now)
      /\ attempts'[t][g] = FinishedAttempt(tasks[t], b) /\ UNCHANGED now
  BY ConfirmEffect DEF StoreInv, Safety
<1>2. /\ a \in Attempt(Slot \cup {None}) /\ tasks[t] \in Task /\ a.state = "Active"
  BY <1>1 DEF Current
<1>3. /\ b.owner = a.owner /\ b.settlement = a.settlement /\ b.started = a.started
      /\ b \in Attempt(Slot \cup {None})
  BY <1>2 DEF Attempt, Quiescence
<1>. HIDE DEF a, b
<1>4. LET v == FinishedTask(tasks[t], b, now)  c == FinishedAttempt(tasks[t], b) IN
      /\ v.cancel_requested_at = tasks[t].cancel_requested_at
      /\ c.state # "None" /\ c.owner = b.owner /\ c.settlement = b.settlement
      /\ c.started = b.started
  BY <1>2, <1>3, FinishFields, FinishOwner
<1>5. /\ Lasts(t, g) /\ attempts'[t][g].settlement = attempts[t][g].settlement
      /\ tasks'[t].cancel_requested_at = tasks[t].cancel_requested_at
  BY <1>1, <1>2, <1>3, <1>4 DEF Lasts, a
<1>6. \A u \in Tasks, h \in Generation :
          attempts[u][h].state # "None" /\ (u # t \/ h # g) => Undisturbed(u, h)
  BY <1>1, <1>5, FrameUndisturbs
<1>. QED BY <1>1, <1>5, <1>6

(* Every step keeps leases short and the clock set.                        *)
LEMMA NextStoreInv ==
    ASSUME StoreInv, [Next]_vars
    PROVE  StoreInv' /\ now' \in Nat /\ now =< now'
<1>0. Structure /\ now \in Nat /\ LeaseDuration \in Nat /\ now > 0
  BY TimingAssumption DEF StoreInv, Safety, Structure, TypeOK
<1>1. Safety'
  BY NextSafety DEF StoreInv
<1>2. now' = now \/ (Tick /\ now' = now + 1)
  BY NextClockAndSessions DEF Tick, OpenSession, ExtendSession
<1>3. \A t \in Tasks, g \in Generation : attempts[t][g].expires_at \in Nat
  BY RowTypes DEF StoreInv
<1>. DEFINE Ok(t, g) == attempts'[t][g].state = "Active" =>
                          attempts'[t][g].expires_at =< now + LeaseDuration
<1>4. ASSUME NEW t \in Tasks, NEW h \in Generation, Frame(t, h), Ok(t, h)
      PROVE  \A u \in Tasks, g \in Generation : Ok(u, g)
  <2>1. ASSUME NEW u \in Tasks, NEW g \in Generation PROVE Ok(u, g)
    <3>1. CASE u = t /\ g = h
      BY <1>4, <3>1
    <3>2. CASE u # t \/ g # h
      <4>1. attempts'[u][g] = attempts[u][g]
        BY <1>4, <3>2 DEF Frame
      <4>. QED BY <4>1 DEF StoreInv, LeaseShort
    <3>. QED BY <3>1, <3>2
  <2>. QED BY <2>1
<1>5. ASSUME UNCHANGED attempts PROVE \A u \in Tasks, g \in Generation : Ok(u, g)
  BY <1>5 DEF StoreInv, LeaseShort
<1>6. ASSUME NEW slot \in Slot, NEW t \in Tasks, AcquireTask(slot, t)
      PROVE  \A u \in Tasks, g \in Generation : Ok(u, g)
  <2>0. PICK h : h = tasks[t].attempt_count + 1
    OBVIOUS
  <2>1. /\ h \in Generation /\ Frame(t, h) /\ sessions[SessionOf(slot)] \in Nat
        /\ attempts'[t][h] = ClaimedAttempt(slot, sessions[SessionOf(slot)], now)
    BY <1>0, <1>6, <2>0, AcquireEffect
  <2>2. attempts'[t][h].expires_at
          = LeaseUntil(now, now + AttemptTimeout + CleanupGrace, sessions[SessionOf(slot)])
    BY <2>1 DEF ClaimedAttempt
  <2>3. Ok(t, h)
    BY <1>0, <2>1, <2>2, TimingAssumption DEF LeaseUntil, Earlier
  <2>. QED BY <1>4, <2>1, <2>3
<1>7. ASSUME NEW t \in Tasks, NEW g \in Generation, InPlace(t, g) \/ Ended(t, g),
             attempts'[t][g].state = "Active" => attempts'[t][g].expires_at =< now + LeaseDuration
      PROVE  \A u \in Tasks, h \in Generation : Ok(u, h)
  BY <1>4, <1>7 DEF InPlace, Ended, Touched
<1>8. ASSUME NEW t \in Tasks, NEW g \in Generation, NEW intent \in {"Dispatch", "KeepAlive"},
             Renew(t, g, intent)
      PROVE  \A u \in Tasks, h \in Generation : Ok(u, h)
  <2>. DEFINE a == attempts[t][g]
              e == sessions[SessionOf(a.owner)]
  <2>1. /\ Current(t, g) /\ Frame(t, g)
        /\ attempts'[t][g] = RenewedAttempt(tasks[t], a, intent, e, now)
    BY <1>0, <1>8, RenewEffect
  <2>2. a \in Attempt(Slot \cup {None}) /\ e \in Nat /\ a.authority_deadline \in Nat
    BY <2>1, RowTypes DEF Current, StoreInv
  <2>. HIDE DEF a, e
  <2>3. attempts'[t][g].expires_at = LeaseUntil(now, a.authority_deadline, e)
    BY <2>1, <2>2 DEF RenewedAttempt, Attempt
  <2>4. Ok(t, g)
    BY <1>0, <2>2, <2>3 DEF LeaseUntil, Earlier
  <2>. QED BY <1>4, <2>1, <2>4
<1>9. ASSUME NEW t \in Tasks, NEW g \in Generation, NEW outcome \in Outcome,
             NEW started \in BOOLEAN, NEW q \in Quiescence, Settle(t, g, outcome, started, q)
      PROVE  \A u \in Tasks, h \in Generation : Ok(u, h)
  <2>. DEFINE a == attempts[t][g]
              b == SettledAttempt(a, outcome, started, q)
  <2>1. /\ Current(t, g) /\ Frame(t, g)
        /\ attempts'[t][g] = FinishedAttempt(tasks[t], b) \/ attempts'[t][g] = b
    BY <1>0, <1>9, SettleEffect
  <2>2. a \in Attempt(Slot \cup {None}) /\ tasks[t] \in Task /\ a.state = "Active"
    BY <2>1 DEF Current
  <2>3. a.expires_at =< now + LeaseDuration
    BY <2>2 DEF StoreInv, LeaseShort
  <2>. HIDE DEF a
  <2>4. b \in Attempt(Slot \cup {None}) /\ b.expires_at = a.expires_at
    BY <2>2, SettleFields, SettleType
  <2>. HIDE DEF b
  <2>5. FinishedAttempt(tasks[t], b).state # "Active"
    BY <2>2, <2>4, FinishFields
  <2>. QED BY <1>4, <2>1, <2>3, <2>4, <2>5
<1>10. ASSUME NEW t \in Tasks, NEW g \in Generation, Ended(t, g)
       PROVE  \A u \in Tasks, h \in Generation : Ok(u, h)
  BY <1>7, <1>10 DEF Ended
<1>11. ASSUME NEW t \in Tasks, Cancel(t)
       PROVE  \A u \in Tasks, h \in Generation : Ok(u, h)
  <2>0. PICK g : g = tasks[t].current
    OBVIOUS
  <2>. DEFINE c == [tasks[t] EXCEPT !.cancel_requested_at = now]
  <2>1. \/ UNCHANGED attempts
        \/ /\ g \in Generation /\ Current(t, g) /\ Frame(t, g)
           /\ \/ attempts'[t][g] = FinishedAttempt(c, attempts[t][g])
              \/ attempts'[t][g] = CancelledAttempt(attempts[t][g], now)
    BY <1>0, <1>11, <2>0, CancelEffect
  <2>2. CASE UNCHANGED attempts
    BY <1>5, <2>2
  <2>3. CASE /\ g \in Generation /\ Current(t, g) /\ Frame(t, g)
             /\ \/ attempts'[t][g] = FinishedAttempt(c, attempts[t][g])
                \/ attempts'[t][g] = CancelledAttempt(attempts[t][g], now)
    <3>1. /\ c \in Task /\ attempts[t][g] \in Attempt(Slot \cup {None})
          /\ attempts[t][g].state = "Active"
      BY <1>0, <2>3, CancelledTaskFields DEF Current
    <3>2. attempts[t][g].expires_at =< now + LeaseDuration /\ attempts[t][g].expires_at \in Nat
      BY <1>3, <2>3, <3>1 DEF StoreInv, LeaseShort
    <3>3. FinishedAttempt(c, attempts[t][g]).state # "Active"
      <4>. HIDE DEF c
      <4>. QED BY <3>1, FinishFields
    <3>4. /\ CancelledAttempt(attempts[t][g], now).expires_at \in Nat
          /\ CancelledAttempt(attempts[t][g], now).expires_at =< attempts[t][g].expires_at
      BY <1>0, <3>1, CancelFields
    <3>5. Ok(t, g)
      <4>. HIDE DEF c
      <4>. QED BY <1>0, <2>3, <3>2, <3>3, <3>4
    <3>. QED BY <1>4, <2>3, <3>5
  <2>. QED BY <2>1, <2>2, <2>3
<1>12. \A u \in Tasks, h \in Generation : Ok(u, h)
  <2>1. ASSUME NEW t \in Tasks, Expire(t) PROVE \A u \in Tasks, h \in Generation : Ok(u, h)
    BY <1>0, <1>10, <2>1, ExpireEnds
  <2>2. ASSUME NEW t \in Tasks, NEW g \in Generation, ConfirmQuiescence(t, g)
        PROVE  \A u \in Tasks, h \in Generation : Ok(u, h)
    BY <1>0, <1>10, <2>2, ConfirmEnds
  <2>3. CASE \/ Tick \/ UNCHANGED vars
             \/ \E s \in Sessions : OpenSession(s) \/ ExtendSession(s)
             \/ \E slot \in Slot : AcquireEmpty(slot)
             \/ \E t \in Tasks : Submit(t)
    BY <1>5, <2>3 DEF Tick, vars, OpenSession, ExtendSession, AcquireEmpty, Submit
  <2>. HIDE DEF Ok
  <2>. QED BY <1>6, <1>8, <1>9, <1>11, <2>1, <2>2, <2>3 DEF Next
<1>13. LeaseShort'
  <2>1. \A t \in Tasks, g \in Generation : attempts'[t][g].expires_at \in Nat
    BY <1>1 DEF Safety, Structure, TypeOK, Attempt
  <2>. QED BY <1>0, <1>2, <1>12, <2>1 DEF LeaseShort
<1>. QED BY <1>0, <1>1, <1>2, <1>13 DEF StoreInv

-----------------------------------------------------------------------------
(* The records a worker keeps.                                             *)
AuthorityRec ==
    [remaining : Nat, execution_remaining : Nat, renew_sequence : Nat,
     cancel_requested : BOOLEAN, dispatch_allowed : BOOLEAN]

GrantReply == [kind : {"Authority"}, authority : AuthorityRec]
Reply      == {NoReply, Refused, Expired} \cup GrantReply
Command    == [sequence : Nat, intent : RenewIntent, sent : BOOLEAN]
Exchange   == [started : Nat, reply : Reply]
Settlement == [outcome : Outcome \cup {NoReport}, may_have_started : BOOLEAN,
               quiescence : Quiescence]

Worker ==
    [stage : Stage, attempt : (Tasks \X Generation) \cup {None},
     phase : {"Awaiting", "Confirmed", "Stopped"}, confirm_by : Nat, control_deadline : Nat,
     tracker : Tracker, ready : BOOLEAN, consumed : BOOLEAN, monitoring : BOOLEAN,
     command : Command, exchange : Exchange, settle : Settlement, quiescent : BOOLEAN]

Working == {"Waiting", "Prepared", "Running"}

(* What a worker's own record obeys.                                       *)
Local(w) ==
    /\ w.stage # "Idle" => w.attempt \in Tasks \X Generation
    /\ w.stage \in {"Idle", "Claimed"} =>
           /\ w.tracker = NewTracker /\ w.exchange = NoExchange /\ ~w.monitoring
           /\ ~w.consumed /\ ~w.ready /\ w.control_deadline = NoTime
    /\ w.monitoring => w.command.intent # "None"
    /\ w.phase = "Awaiting" =>
           /\ w.stage = "Waiting" /\ w.tracker = NewTracker /\ w.control_deadline = NoTime
           /\ w.command.intent = "Dispatch"
    /\ w.monitoring /\ w.command.intent # "Dispatch" => w.consumed \/ w.phase = "Stopped"
    /\ w.ready => w.phase = "Confirmed"
    /\ w.ready /\ ~w.consumed /\ w.tracker.state = "Active" => w.tracker.dispatch_allowed
    /\ w.stage = "Waiting" => ~w.consumed
    /\ w.tracker.state = "Unconfirmed" => w.tracker.deadline = 0 /\ w.tracker.sequence = -1
    /\ w.tracker.state = "Active" => w.tracker.deadline > 0
    /\ w.stage \in {"Prepared", "Running"} => w.tracker.deadline > 0
    /\ MayStillRun(w) =>
           now =< w.tracker.deadline + MaxLag /\ now =< w.control_deadline + MaxLag
    /\ w.exchange.started =< now
    /\ w.stage \in {"Reporting", "Accepted"} => w.settle.outcome \in Outcome

(* The store holds the lease until then, and a cancellation ends it within *)
(* a lease's duration.                                                     *)
Promised(t, g, until) ==
    /\ Covered(t, g, until)
    /\ until =< now + LeaseDuration
    /\ CancelRequested(tasks[t]) => until =< tasks[t].cancel_requested_at + LeaseDuration

(* What the store holds for a claimed attempt of the slot.                 *)
Backed(slot, t, g, w) ==
    /\ attempts[t][g].state # "None" /\ attempts[t][g].owner = slot
    /\ w.stage \in Working \cup {"Claimed", "Lost"} => attempts[t][g].settlement = NoReport
    /\ w.stage = "Reporting" => attempts[t][g].settlement \in {NoReport, w.settle.outcome}
    /\ w.stage = "Accepted" => attempts[t][g].settlement = w.settle.outcome
    /\ w.tracker.dispatch_allowed => attempts[t][g].started
    /\ w.stage \in {"Prepared", "Running"} => attempts[t][g].started
    /\ w.exchange.reply.kind = "Authority" /\ w.exchange.reply.authority.dispatch_allowed =>
           attempts[t][g].started
    /\ w.stage \in Working =>
           /\ w.tracker.deadline = 0 \/ Promised(t, g, w.tracker.deadline + SafetyMargin)
           /\ /\ w.exchange.reply.kind = "Authority"
              /\ ~w.exchange.reply.authority.cancel_requested
              /\ w.exchange.reply.authority.remaining > 0
              => Promised(t, g, w.exchange.started + w.exchange.reply.authority.remaining)

Good(slot, w) ==
    /\ w \in Worker
    /\ Local(w)
    /\ w.stage # "Idle" => Backed(slot, w.attempt[1], w.attempt[2], w)

WInv ==
    /\ StoreInv
    /\ workers \in [Slot -> Worker]
    /\ stopping \subseteq Sessions
    /\ \A slot \in Slot : Good(slot, workers[slot])

-----------------------------------------------------------------------------
(* A promise outlives every step that does not disturb its attempt.        *)
LEMMA PromiseStands ==
    ASSUME StoreInv, StoreInv', NEW t \in Tasks, NEW g \in Generation, Undisturbed(t, g),
           now =< now', NEW until \in Nat, Promised(t, g, until)
    PROVE  Promised(t, g, until)'
<1>1. /\ now \in Nat /\ now' \in Nat /\ LeaseDuration \in Nat /\ tasks[t] \in Task
      /\ tasks'[t] \in Task
  BY TimingAssumption DEF StoreInv, Safety, Structure, TypeOK
<1>2. tasks[t].cancel_requested_at \in Nat /\ tasks'[t].cancel_requested_at \in Nat
  BY <1>1 DEF Task
<1>3. Covered(t, g, until)'
  BY DEF Promised, Undisturbed
<1>4. until =< now + LeaseDuration /\ until =< now' + LeaseDuration
  <2>1. until =< now + LeaseDuration
    BY DEF Promised
  <2>2. \A x, y, d \in Nat : x =< y /\ until =< x + d => until =< y + d
    OBVIOUS
  <2>. QED BY <1>1, <2>1, <2>2
<1>5. CASE tasks'[t].cancel_requested_at = tasks[t].cancel_requested_at
  BY <1>1, <1>2, <1>3, <1>4, <1>5 DEF Promised, CancelRequested
<1>6. CASE tasks'[t].cancel_requested_at = now
  <2>1. until =< tasks'[t].cancel_requested_at + LeaseDuration
    BY <1>4, <1>6
  <2>. QED BY <1>3, <1>4, <2>1 DEF Promised
<1>. QED BY <1>5, <1>6 DEF Undisturbed, Lasts

(* An earlier time is promised too.                                        *)
LEMMA PromiseEarlier ==
    ASSUME StoreInv, NEW t \in Tasks, NEW g \in Generation,
           NEW until \in Nat, Promised(t, g, until), NEW sooner \in Nat, sooner =< until
    PROVE  Promised(t, g, sooner)
<1>1. /\ now \in Nat /\ LeaseDuration \in Nat /\ tasks[t].cancel_requested_at \in Nat
      /\ attempts[t][g].expires_at \in Nat
  BY RowTypes DEF StoreInv, Task
<1>2. Covered(t, g, sooner)
  BY <1>1 DEF Promised, Covered
<1>. QED BY <1>1, <1>2 DEF Promised

(* The worker of a slot keeps its record, its attempt is not disturbed and *)
(* time does not pass beyond what user code may take.                      *)
LEMMA GoodStands ==
    ASSUME StoreInv, StoreInv', now =< now', NEW slot \in Slot, NEW w, Good(slot, w),
           w.stage # "Idle" => Undisturbed(w.attempt[1], w.attempt[2]),
           MayStillRun(w) => now' =< w.tracker.deadline + MaxLag /\ now' =< w.control_deadline + MaxLag
    PROVE  Good(slot, w)'
<1>1. w \in Worker /\ now \in Nat /\ now' \in Nat
  BY DEF Good, StoreInv, Safety, Structure, TypeOK
<1>2. w.exchange.started \in Nat
  BY <1>1 DEF Worker, Exchange
<1>3. Local(w)'
  BY <1>1, <1>2 DEF Good, Local, MayStillRun
<1>4. ASSUME w.stage # "Idle" PROVE Backed(slot, w.attempt[1], w.attempt[2], w)'
  <2>0. PICK t, g : t = w.attempt[1] /\ g = w.attempt[2]
    OBVIOUS
  <2>1. t \in Tasks /\ g \in Generation /\ Backed(slot, t, g, w) /\ Undisturbed(t, g)
    BY <1>4, <2>0 DEF Good, Local
  <2>2. \A until \in Nat : Promised(t, g, until) => Promised(t, g, until)'
    BY <2>1, PromiseStands
  <2>3. w.tracker.deadline + SafetyMargin \in Nat
    BY <1>1, MarginAssumption DEF Worker, Tracker
  <2>4. w.exchange.reply.kind = "Authority" =>
            w.exchange.started + w.exchange.reply.authority.remaining \in Nat
    BY <1>1 DEF Worker, Exchange, Reply, GrantReply, AuthorityRec, NoReply, Refused, Expired
  <2>5. Backed(slot, t, g, w)'
    BY <2>1, <2>2, <2>3, <2>4 DEF Backed, Undisturbed, Lasts
  <2>. QED BY <2>0, <2>5
<1>. QED BY <1>1, <1>3, <1>4 DEF Good

(* A step of one worker alone.                                             *)
LEMMA WorkerStep ==
    ASSUME WInv, NEW slot \in Slot, NEW w, Good(slot, w), Update(slot, w), ServerUnchanged,
           stopping' \subseteq Sessions
    PROVE  WInv'
<1>1. StoreInv'
  BY NextStoreInv DEF WInv, ServerUnchanged, vars
<1>2. workers' = [workers EXCEPT ![slot] = w] /\ w \in Worker
  BY DEF Update, Good
<1>3. workers' \in [Slot -> Worker]
  BY <1>2 DEF WInv
<1>4. /\ now' = now /\ tasks' = tasks /\ attempts' = attempts
  BY DEF ServerUnchanged, vars
<1>5. ASSUME NEW s \in Slot, NEW v, Good(s, v) PROVE Good(s, v)'
  <2>1. Local(v)'
    BY <1>4, <1>5 DEF Good, Local, MayStillRun
  <2>2. v.stage # "Idle" => Backed(s, v.attempt[1], v.attempt[2], v)'
    BY <1>4, <1>5 DEF Good, Backed, Promised, Covered
  <2>. QED BY <1>5, <2>1, <2>2 DEF Good
<1>6. ASSUME NEW s \in Slot PROVE Good(s, workers[s])'
  <2>1. Good(s, workers'[s])
    BY <1>2 DEF WInv
  <2>2. PICK v : v = workers'[s]
    OBVIOUS
  <2>3. Good(s, v)'
    BY <1>5, <2>1, <2>2
  <2>. QED BY <2>2, <2>3
<1>. QED BY <1>1, <1>3, <1>6 DEF WInv

(* A step of the store that disturbs no claimed attempt.                   *)
LEMMA StoreStep ==
    ASSUME WInv, [Next]_vars, UNCHANGED <<workers, stopping>>,
           \A u \in Tasks, g \in Generation : attempts[u][g].state # "None" => Undisturbed(u, g),
           \A slot \in Slot : MayStillRun(workers[slot]) =>
               /\ now' =< workers[slot].tracker.deadline + MaxLag
               /\ now' =< workers[slot].control_deadline + MaxLag
    PROVE  WInv'
<1>1. StoreInv /\ StoreInv' /\ now =< now'
  BY NextStoreInv DEF WInv
<1>2. ASSUME NEW s \in Slot PROVE Good(s, workers[s])'
  <2>0. PICK v : v = workers[s]
    OBVIOUS
  <2>1. Good(s, v)
    BY <2>0 DEF WInv
  <2>2. v.stage # "Idle" => Undisturbed(v.attempt[1], v.attempt[2])
    BY <2>1 DEF Good, Local, Backed
  <2>3. Good(s, v)'
    BY <1>1, <2>0, <2>1, <2>2, GoodStands
  <2>. QED BY <2>0, <2>3
<1>. QED BY <1>1, <1>2 DEF WInv

-----------------------------------------------------------------------------
(* What an answer computed now says is so.                                 *)
AnswerSound(t, g) ==
    LET authority == Authority(tasks[t], attempts[t][g], g, now) IN
    /\ authority \in AuthorityRec
    /\ authority.dispatch_allowed => attempts[t][g].started
    /\ ~authority.cancel_requested /\ authority.remaining > 0 =>
           \A started \in Nat : started =< now => Promised(t, g, started + authority.remaining)

AnswersSound == \A t \in Tasks, g \in Generation : AnswerSound(t, g)

(* The fields of an answer.                                                *)
LEMMA AuthorityFields ==
    ASSUME NEW task \in Task, NEW Owner, NEW a \in Attempt(Owner), NEW g, NEW at \in Nat
    PROVE  LET authority == Authority(task, a, g, at) IN
           /\ authority \in AuthorityRec
           /\ authority.dispatch_allowed =>
                 /\ Live(task, a, g, at) /\ ~CancelRequested(task) /\ at < a.deadline
                 /\ a.settlement = NoReport /\ a.renew_intent = "Dispatch"
           /\ ~authority.cancel_requested => ~CancelRequested(task)
           /\ authority.remaining > 0 =>
                 Live(task, a, g, at) /\ at + authority.remaining = a.expires_at
<1>. DEFINE authority == Authority(task, a, g, at)
<1>1. a.expires_at \in Nat /\ a.deadline \in Nat /\ a.renew_sequence \in Nat
  BY DEF Attempt
<1>2. Live(task, a, g, at) => at < a.expires_at
  BY DEF Live
<1>3. authority.remaining \in Nat /\ authority.execution_remaining \in Nat
  <2>1. authority.remaining = IF Live(task, a, g, at) THEN a.expires_at - at ELSE 0
    BY DEF Authority
  <2>2. authority.execution_remaining =
          IF Live(task, a, g, at) /\ ~(CancelRequested(task) \/ at >= a.deadline)
          THEN a.deadline - at ELSE 0
    BY DEF Authority
  <2>. QED BY <1>1, <1>2, <2>1, <2>2
<1>4. /\ authority.remaining > 0 =>
             Live(task, a, g, at) /\ at + authority.remaining = a.expires_at
      /\ ~authority.cancel_requested => ~CancelRequested(task)
      /\ authority.dispatch_allowed =>
             /\ Live(task, a, g, at) /\ ~CancelRequested(task) /\ at < a.deadline
             /\ a.settlement = NoReport /\ a.renew_intent = "Dispatch"
  <2>1. authority.remaining = IF Live(task, a, g, at) THEN a.expires_at - at ELSE 0
    BY DEF Authority
  <2>2. authority.cancel_requested <=> CancelRequested(task) \/ at >= a.deadline
    BY DEF Authority
  <2>3. authority.dispatch_allowed <=>
            /\ Live(task, a, g, at) /\ ~(CancelRequested(task) \/ at >= a.deadline)
            /\ a.settlement = NoReport /\ a.renew_intent = "Dispatch"
    BY DEF Authority
  <2>. HIDE DEF authority
  <2>4. authority.remaining > 0 =>
             Live(task, a, g, at) /\ at + authority.remaining = a.expires_at
    BY <1>1, <1>2, <2>1
  <2>5. ~(at >= a.deadline) => at < a.deadline
    BY <1>1
  <2>. QED BY <2>2, <2>3, <2>4, <2>5
<1>5. authority.cancel_requested \in BOOLEAN /\ authority.dispatch_allowed \in BOOLEAN
  BY DEF Authority
<1>6. authority \in AuthorityRec
  BY <1>1, <1>3, <1>5 DEF Authority, AuthorityRec
<1>. QED BY <1>4, <1>6

(* Every answer of the store is sound.                                     *)
LEMMA AnswersAreSound == StoreInv => AnswersSound
<1>. SUFFICES ASSUME StoreInv, NEW t \in Tasks, NEW g \in Generation PROVE AnswerSound(t, g)
  BY DEF AnswersSound
<1>1. PICK a : a = Authority(tasks[t], attempts[t][g], g, now)
  OBVIOUS
<1>2. /\ tasks[t] \in Task /\ attempts[t][g] \in Attempt(Slot \cup {None}) /\ now \in Nat
      /\ attempts[t][g].expires_at \in Nat /\ LeaseDuration \in Nat
  BY RowTypes DEF StoreInv
<1>3. /\ a \in AuthorityRec
      /\ a.dispatch_allowed =>
            /\ LiveAttempt(t, g) /\ ~CancelRequested(tasks[t]) /\ now < attempts[t][g].deadline
            /\ attempts[t][g].settlement = NoReport /\ attempts[t][g].renew_intent = "Dispatch"
      /\ ~a.cancel_requested => ~CancelRequested(tasks[t])
      /\ a.remaining > 0 => LiveAttempt(t, g) /\ now + a.remaining = attempts[t][g].expires_at
  BY <1>1, <1>2, AuthorityFields DEF LiveAttempt
<1>4. LiveAttempt(t, g) => attempts[t][g].state = "Active" /\ tasks[t].attempt_count = g
  BY CurrentFacts DEF StoreInv, Safety, LiveAttempt, Live, Current
<1>5. a.dispatch_allowed => attempts[t][g].started
  BY <1>3, <1>4 DEF StoreInv, Safety, DispatchStarted
<1>6. ASSUME ~a.cancel_requested, a.remaining > 0, NEW started \in Nat, started =< now
      PROVE  Promised(t, g, started + a.remaining)
  <2>1. a.remaining \in Nat
    BY <1>3 DEF AuthorityRec
  <2>2. attempts[t][g].expires_at =< now + LeaseDuration
    BY <1>3, <1>4, <1>6 DEF StoreInv, LeaseShort
  <2>3. started + a.remaining =< attempts[t][g].expires_at
    BY <1>2, <1>3, <1>6, <2>1
  <2>4. started + a.remaining =< now + LeaseDuration
    BY <1>2, <2>1, <2>2, <2>3
  <2>. QED BY <1>3, <1>4, <1>6, <2>3, <2>4 DEF Promised, Covered
<1>. QED BY <1>1, <1>3, <1>5, <1>6 DEF AnswerSound

-----------------------------------------------------------------------------
(* A tracker that only noticed or was told that it must stop.              *)
Eased(x, y) ==
    /\ y \in Tracker
    /\ y.deadline = x.deadline
    /\ \/ y = x
       \/ x.state \notin StoppedLease /\ y.state \in StoppedLease /\ ~y.dispatch_allowed

(* A tracker that took an answer.                                          *)
Granted(y, authority, started) ==
    /\ y \in Tracker
    /\ y.state = "Active" /\ now < y.deadline
    /\ y.deadline + SafetyMargin =< started + authority.remaining
    /\ ~authority.cancel_requested /\ authority.remaining > 0
    /\ y.dispatch_allowed => authority.dispatch_allowed

(* Stopping a lease.                                                       *)
LEMMA StopEases ==
    ASSUME NEW x \in Tracker, x.state \notin StoppedLease, NEW state \in StoppedLease
    PROVE  Eased(x, StopLease(x, state))
BY DEF Eased, StopLease, Tracker

(* Observing the time.                                                     *)
LEMMA ObserveEases ==
    ASSUME NEW x \in Tracker, NEW at \in Nat
    PROVE  /\ Eased(x, ObserveLease(x, at))
           /\ ObserveLease(x, at).state = "Active" => at < x.deadline
           /\ ObserveLease(x, at).state \notin StoppedLease => ObserveLease(x, at) = x
<1>1. x.deadline \in Nat
  BY DEF Tracker
<1>2. CASE x.state = "Active" /\ at >= x.deadline
  <2>1. ObserveLease(x, at) = StopLease(x, "Expired")
    BY <1>2 DEF ObserveLease
  <2>2. StopLease(x, "Expired").state = "Expired"
    BY DEF StopLease, Tracker
  <2>. QED BY <1>2, <2>1, <2>2, StopEases DEF StoppedLease
<1>3. CASE ~(x.state = "Active" /\ at >= x.deadline)
  BY <1>1, <1>3 DEF ObserveLease, Eased
<1>. QED BY <1>2, <1>3

(* Easing composes.                                                        *)
LEMMA EasedTwice ==
    ASSUME NEW x, NEW y, NEW z, Eased(x, y), Eased(y, z)
    PROVE  Eased(x, z)
BY DEF Eased

(* saturating_sub takes the margin from what is left or leaves nothing.    *)
LEMMA ConservativeBound ==
    ASSUME NEW r \in Nat
    PROVE  Conservative(r) \in Nat /\ (Conservative(r) = 0 \/ Conservative(r) + SafetyMargin = r)
BY MarginAssumption DEF Conservative

(* apply: stop, ignore, or take what the answer still leaves.              *)
LEMMA ApplySound ==
    ASSUME NEW x \in Tracker, NEW authority \in AuthorityRec, NEW started \in Nat,
           now \in Nat, started =< now,
           x.state = "Unconfirmed" => x.sequence = -1
    PROVE  LET y == ApplyAuthority(x, authority, started, now) IN
           \/ Eased(x, y) /\ (x.state \in StoppedLease => y = x)
           \/ x.state \notin StoppedLease /\ Granted(y, authority, started)
<1>. DEFINE y         == ApplyAuthority(x, authority, started, now)
            seen      == ObserveLease(x, now)
            bound     == started + Conservative(authority.execution_remaining)
            execution == IF seen.execution_deadline = NoTime THEN bound
                         ELSE Earlier(seen.execution_deadline, bound)
            left      == started + Conservative(authority.remaining)
            candidate == Earlier(left, execution)
<1>. SUFFICES \/ Eased(x, y) /\ (x.state \in StoppedLease => y = x)
              \/ x.state \notin StoppedLease /\ Granted(y, authority, started)
  OBVIOUS
<1>1. /\ authority.remaining \in Nat /\ authority.execution_remaining \in Nat
      /\ authority.renew_sequence \in Nat /\ authority.dispatch_allowed \in BOOLEAN
      /\ authority.cancel_requested \in BOOLEAN
  BY DEF AuthorityRec
<1>2. Eased(x, seen) /\ (seen.state = "Active" => now < x.deadline)
      /\ (seen.state \notin StoppedLease => seen = x)
  BY ObserveEases
<1>3. seen \in Tracker /\ (x.state \in StoppedLease => seen = x)
  BY <1>2 DEF Eased
<1>4. bound \in Nat /\ left \in Nat /\ seen.execution_deadline \in Nat
  BY <1>1, <1>3, ConservativeBound DEF Tracker
<1>5. execution \in Nat
  BY <1>4, EarlierType
<1>6. candidate \in Nat /\ candidate =< left
  BY <1>4, <1>5 DEF Earlier
<1>7. now < candidate => candidate + SafetyMargin =< started + authority.remaining
  <2>1. PICK c : c = Conservative(authority.remaining)
    OBVIOUS
  <2>2. c \in Nat /\ (c = 0 \/ c + SafetyMargin = authority.remaining)
    BY <1>1, <2>1, ConservativeBound
  <2>3. candidate =< started + c
    BY <1>6, <2>1
  <2>. HIDE DEF candidate
  <2>. QED BY <1>1, <1>6, <2>2, <2>3, MarginAssumption
<1>8. y = IF seen.state \in StoppedLease THEN seen
          ELSE IF authority.cancel_requested THEN StopLease(seen, "Cancelled")
          ELSE IF authority.remaining = 0 THEN StopLease(seen, "OwnershipLost")
          ELSE IF authority.renew_sequence < seen.sequence THEN seen
          ELSE IF now >= candidate THEN StopLease(seen, "Expired")
          ELSE IF authority.renew_sequence = seen.sequence
          THEN [seen EXCEPT !.execution_deadline = execution,
                            !.deadline = Earlier(@, candidate),
                            !.dispatch_allowed = @ /\ authority.dispatch_allowed]
          ELSE [state |-> "Active", deadline |-> candidate,
                execution_deadline |-> execution,
                sequence |-> authority.renew_sequence,
                dispatch_allowed |-> authority.dispatch_allowed]
  BY DEF ApplyAuthority
<1>. HIDE DEF y, seen, candidate, execution, left, bound
<1>9. CASE seen.state \in StoppedLease
  BY <1>2, <1>3, <1>8, <1>9
<1>10. ASSUME seen.state \notin StoppedLease, NEW state \in StoppedLease, y = StopLease(seen, state)
       PROVE  Eased(x, y) /\ (x.state \in StoppedLease => y = x)
  <2>1. Eased(seen, y)
    BY <1>3, <1>10, StopEases
  <2>. QED BY <1>2, <1>3, <1>10, <2>1, EasedTwice
<1>11. CASE seen.state \notin StoppedLease /\ authority.cancel_requested
  BY <1>8, <1>10, <1>11 DEF StoppedLease
<1>12. CASE seen.state \notin StoppedLease /\ ~authority.cancel_requested /\ authority.remaining = 0
  BY <1>8, <1>10, <1>12 DEF StoppedLease
<1>13. CASE /\ seen.state \notin StoppedLease /\ ~authority.cancel_requested
            /\ authority.remaining # 0 /\ authority.renew_sequence < seen.sequence
  BY <1>2, <1>3, <1>8, <1>13
<1>14. CASE /\ seen.state \notin StoppedLease /\ ~authority.cancel_requested
            /\ authority.remaining # 0 /\ ~(authority.renew_sequence < seen.sequence)
            /\ now >= candidate
  BY <1>8, <1>10, <1>14 DEF StoppedLease
<1>15. CASE /\ seen.state \notin StoppedLease /\ ~authority.cancel_requested
            /\ authority.remaining # 0 /\ ~(authority.renew_sequence < seen.sequence)
            /\ ~(now >= candidate)
  <2>1. /\ x.state \notin StoppedLease /\ now < candidate /\ authority.remaining > 0
        /\ candidate + SafetyMargin =< started + authority.remaining /\ seen = x
    BY <1>1, <1>2, <1>3, <1>6, <1>7, <1>15
  <2>2. CASE authority.renew_sequence = seen.sequence
    <3>1. y = [seen EXCEPT !.execution_deadline = execution,
                           !.deadline = Earlier(seen.deadline, candidate),
                           !.dispatch_allowed = seen.dispatch_allowed /\ authority.dispatch_allowed]
      BY <1>8, <1>15, <2>2
    <3>2. x.state = "Active" /\ now < x.deadline /\ x.deadline \in Nat
      BY <1>1, <1>2, <2>1, <2>2 DEF Tracker
    <3>3. PICK d : d = Earlier(seen.deadline, candidate)
      OBVIOUS
    <3>4. d \in Nat /\ now < d /\ d =< candidate
      BY <1>6, <2>1, <3>2, <3>3 DEF Earlier
    <3>5. /\ y \in Tracker /\ y.state = "Active" /\ y.deadline = d
          /\ y.dispatch_allowed => authority.dispatch_allowed
      BY <1>1, <1>3, <1>5, <2>1, <3>1, <3>2, <3>3, <3>4 DEF Tracker
    <3>6. d + SafetyMargin =< started + authority.remaining
      BY <1>1, <1>6, <2>1, <3>4, MarginAssumption
    <3>. QED BY <1>15, <2>1, <3>4, <3>5, <3>6 DEF Granted
  <2>3. CASE authority.renew_sequence # seen.sequence
    <3>1. y = [state |-> "Active", deadline |-> candidate, execution_deadline |-> execution,
               sequence |-> authority.renew_sequence,
               dispatch_allowed |-> authority.dispatch_allowed]
      BY <1>8, <1>15, <2>3
    <3>2. /\ y \in Tracker /\ y.state = "Active" /\ y.deadline = candidate
          /\ y.dispatch_allowed = authority.dispatch_allowed
      BY <1>1, <1>5, <1>6, <3>1 DEF Tracker
    <3>. QED BY <1>15, <2>1, <3>2 DEF Granted
  <2>. QED BY <2>2, <2>3
<1>. QED BY <1>9, <1>11, <1>12, <1>13, <1>14, <1>15

-----------------------------------------------------------------------------
(* What the monitor's checks and answers leave alone.                      *)
Carries(w, v) ==
    /\ v \in Worker
    /\ v.stage = w.stage /\ v.attempt = w.attempt /\ v.consumed = w.consumed
    /\ v.monitoring = w.monitoring /\ v.command = w.command
    /\ v.exchange = w.exchange /\ v.settle = w.settle

(* A permission that was checked or stopped.                               *)
Eases(w, v) ==
    /\ Carries(w, v)
    /\ v.control_deadline = w.control_deadline
    /\ Eased(w.tracker, v.tracker)
    /\ \/ v.phase = w.phase /\ v.ready = w.ready /\ (v.phase = "Awaiting" => v.tracker = w.tracker)
       \/ v.phase = "Stopped" /\ ~v.ready

(* The kinds of reply.                                                     *)
LEMMA ReplyKinds ==
    ASSUME NEW r \in Reply
    PROVE  /\ r.kind = "Authority" => r.authority \in AuthorityRec
           /\ r = NoReply \/ r = Refused \/ r = Expired => r.kind # "Authority"
           /\ r \notin {NoReply, Refused, Expired} => r.kind = "Authority"
BY DEF Reply, GrantReply, NoReply, Refused, Expired

(* The types inside a worker's record.                                     *)
LEMMA WorkerTypes ==
    ASSUME NEW w \in Worker
    PROVE  /\ w.tracker \in Tracker /\ w.tracker.deadline \in Nat /\ w.control_deadline \in Nat
           /\ w.exchange.started \in Nat /\ w.exchange.reply \in Reply
           /\ w.command \in Command /\ w.command.sequence \in Nat /\ w.exchange \in Exchange
BY DEF Worker, Tracker, Exchange, Command

(* Easing composes for workers too.                                        *)
LEMMA EasesTwice ==
    ASSUME NEW w, NEW v, NEW u, Eases(w, v), Eases(v, u)
    PROVE  Eases(w, u)
<1>1. Eased(w.tracker, u.tracker)
  BY EasedTwice DEF Eases
<1>. QED BY <1>1 DEF Eases, Carries

(* Permission::stop.                                                       *)
LEMMA StopPermissionEases ==
    ASSUME NEW w \in Worker
    PROVE  Eases(w, StopPermission(w)) /\ StopPermission(w).phase = "Stopped"
<1>1. w.tracker \in Tracker
  BY WorkerTypes
<1>2. /\ StopPermission(w) \in Worker
      /\ StopPermission(w).phase = "Stopped" /\ StopPermission(w).ready = FALSE
      /\ StopPermission(w).tracker = w.tracker
      /\ StopPermission(w).control_deadline = w.control_deadline
      /\ Carries(w, StopPermission(w))
  BY DEF StopPermission, Worker, Carries
<1>. QED BY <1>1, <1>2 DEF Eases, Eased

(* Observing the tracker under a confirmed or stopped permission.          *)
LEMMA ObserveWorker ==
    ASSUME NEW w \in Worker, now \in Nat, w.phase # "Awaiting"
    PROVE  Eases(w, [w EXCEPT !.tracker = ObserveLease(@, now)])
<1>. DEFINE y == ObserveLease(w.tracker, now)
            v == [w EXCEPT !.tracker = y]
<1>1. Eased(w.tracker, y)
  BY WorkerTypes, ObserveEases
<1>2. y \in Tracker
  BY <1>1 DEF Eased
<1>. HIDE DEF y
<1>3. /\ v \in Worker /\ v.tracker = y /\ v.phase = w.phase /\ v.ready = w.ready
      /\ v.control_deadline = w.control_deadline /\ Carries(w, v)
  BY <1>2 DEF Worker, Carries
<1>. QED BY <1>1, <1>3 DEF Eases, y

(* Permission::check: what is still confirmed has time left.               *)
LEMMA CheckEases ==
    ASSUME NEW w \in Worker, NEW halt, now \in Nat
    PROVE  LET v == CheckPermission(w, halt) IN
           /\ Eases(w, v)
           /\ v.phase = "Confirmed" =>
                 /\ v.tracker.state = "Active" /\ now < v.tracker.deadline
                 /\ now < v.control_deadline
<1>. DEFINE seen    == [w EXCEPT !.tracker =
                           IF w.phase = "Confirmed" THEN ObserveLease(w.tracker, now) ELSE w.tracker]
            expired == \/ w.phase = "Awaiting" /\ now >= w.confirm_by
                       \/ w.phase = "Confirmed" /\ (seen.tracker.state # "Active" \/ ~ControlOK(w))
            v       == CheckPermission(w, halt)
<1>. SUFFICES /\ Eases(w, v)
              /\ v.phase = "Confirmed" =>
                    /\ v.tracker.state = "Active" /\ now < v.tracker.deadline
                    /\ now < v.control_deadline
  OBVIOUS
<1>1. w.tracker \in Tracker /\ w.tracker.deadline \in Nat
  BY WorkerTypes
<1>2. v = IF halt \/ expired THEN StopPermission(seen) ELSE seen
  BY DEF CheckPermission
<1>3. Eases(w, seen) /\ seen \in Worker /\ seen.phase = w.phase
      /\ seen.control_deadline = w.control_deadline
  <2>1. CASE w.phase = "Confirmed"
    <3>1. seen = [w EXCEPT !.tracker = ObserveLease(@, now)]
      BY <2>1
    <3>2. Eases(w, seen)
      BY <2>1, <3>1, ObserveWorker
    <3>. QED BY <3>2 DEF Eases, Carries, Worker
  <2>2. CASE w.phase # "Confirmed"
    <3>1. seen = w
      BY <2>2 DEF Worker
    <3>. QED BY <1>1, <3>1 DEF Eases, Carries, Eased
  <2>. QED BY <2>1, <2>2
<1>4. ASSUME w.phase = "Confirmed", seen.tracker.state = "Active"
      PROVE  now < seen.tracker.deadline
  <2>1. PICK y : y = ObserveLease(w.tracker, now)
    OBVIOUS
  <2>2. seen.tracker = y
    BY <1>4, <2>1 DEF Worker
  <2>3. y.state = "Active" => y = w.tracker /\ now < w.tracker.deadline
    BY <1>1, <2>1, ObserveEases DEF StoppedLease
  <2>. QED BY <1>4, <2>2, <2>3
<1>. HIDE DEF seen
<1>5. CASE halt \/ expired
  <2>1. v = StopPermission(seen)
    BY <1>2, <1>5
  <2>2. Eases(seen, v) /\ v.phase = "Stopped"
    BY <1>3, <2>1, StopPermissionEases
  <2>. HIDE DEF v
  <2>. QED BY <1>3, <2>2, EasesTwice
<1>6. CASE ~(halt \/ expired)
  <2>1. v = seen
    BY <1>2, <1>6
  <2>2. w.phase = "Confirmed" => seen.tracker.state = "Active" /\ now < w.control_deadline
    BY <1>6 DEF ControlOK
  <2>. HIDE DEF v
  <2>. QED BY <1>3, <1>4, <2>1, <2>2
<1>. QED BY <1>5, <1>6

(* A checked or stopped worker is as good as before.                       *)
LEMMA EasesGood ==
    ASSUME StoreInv, NEW slot \in Slot, NEW w, NEW v, Good(slot, w),
           w.stage \notin {"Idle", "Claimed"}, Eases(w, v)
    PROVE  Good(slot, v)
<1>1. /\ w \in Worker /\ v \in Worker /\ v.stage = w.stage /\ v.attempt = w.attempt
      /\ v.consumed = w.consumed /\ v.monitoring = w.monitoring /\ v.command = w.command
      /\ v.exchange = w.exchange /\ v.settle = w.settle
      /\ v.control_deadline = w.control_deadline /\ v.tracker.deadline = w.tracker.deadline
  BY DEF Good, Eases, Carries, Eased
<1>2. \/ v.phase = w.phase /\ v.ready = w.ready /\ (v.phase = "Awaiting" => v.tracker = w.tracker)
      \/ v.phase = "Stopped" /\ ~v.ready
  BY DEF Eases
<1>3. \/ v.tracker = w.tracker
      \/ v.tracker.state \in StoppedLease /\ ~v.tracker.dispatch_allowed
  BY DEF Eases, Eased
<1>4. Local(w)
  BY DEF Good
<1>5. /\ v.phase = "Awaiting" => w.phase = "Awaiting" /\ v.tracker = w.tracker
      /\ v.phase = "Confirmed" => w.phase = "Confirmed"
      /\ w.phase = "Stopped" => v.phase = "Stopped"
      /\ v.ready => w.ready /\ w.phase = v.phase
      /\ v.tracker.state \in {"Active", "Unconfirmed"} => v.tracker = w.tracker
      /\ v.tracker.dispatch_allowed => v.tracker = w.tracker
  BY <1>2, <1>3, <1>4 DEF StoppedLease, Local
<1>6. Local(v)
  BY <1>1, <1>4, <1>5 DEF Local, MayStillRun
<1>7. Backed(slot, w.attempt[1], w.attempt[2], v)
  <2>1. Backed(slot, w.attempt[1], w.attempt[2], w)
    BY DEF Good
  <2>. QED BY <1>1, <1>5, <2>1 DEF Backed
<1>. QED BY <1>1, <1>6, <1>7 DEF Good

(* Permission::accept: the tracker stops, stays or takes the answer; a     *)
(* stopped permission stays stopped and a fixed control deadline stands.   *)
LEMMA AcceptSound ==
    ASSUME NEW w \in Worker, Local(w), w.monitoring, now \in Nat,
           NEW authority \in AuthorityRec, NEW started \in Nat, started =< now
    PROVE  LET v == AcceptAuthority(w, authority, started) IN
           /\ Carries(w, v)
           /\ \/ Eased(w.tracker, v.tracker) /\ (w.tracker.state \in StoppedLease => v.tracker = w.tracker)
              \/ w.tracker.state \notin StoppedLease /\ Granted(v.tracker, authority, started)
           /\ v.phase \in {"Confirmed", "Stopped"}
           /\ w.phase = "Stopped" => v.phase = "Stopped"
           /\ v.ready => v.phase = "Confirmed"
           /\ v.ready /\ ~v.consumed => v.tracker.dispatch_allowed
           /\ w.phase # "Awaiting" => v.control_deadline = w.control_deadline
<1>. DEFINE checked == CheckPermission(w, FALSE)
            x       == checked.tracker
            y       == ApplyAuthority(x, authority, started, now)
            applied == [checked EXCEPT !.tracker = y]
            v       == AcceptAuthority(w, authority, started)
            Step(z) == \/ Eased(w.tracker, z) /\ (w.tracker.state \in StoppedLease => z = w.tracker)
                       \/ w.tracker.state \notin StoppedLease /\ Granted(z, authority, started)
<1>. SUFFICES /\ Carries(w, v) /\ Step(v.tracker) /\ v.phase \in {"Confirmed", "Stopped"}
              /\ w.phase = "Stopped" => v.phase = "Stopped"
              /\ v.ready => v.phase = "Confirmed"
              /\ v.ready /\ ~v.consumed => v.tracker.dispatch_allowed
              /\ w.phase # "Awaiting" => v.control_deadline = w.control_deadline
  OBVIOUS
<1>1. /\ Eases(w, checked)
      /\ checked.phase = "Confirmed" =>
            /\ checked.tracker.state = "Active" /\ now < checked.tracker.deadline
            /\ now < checked.control_deadline
  BY CheckEases
<1>2. v = IF checked.phase = "Stopped" THEN checked
          ELSE IF applied.tracker.state \in StoppedLease THEN StopPermission(applied)
          ELSE IF w.command.intent # "Dispatch" THEN applied
          ELSE IF ~MayDispatch(applied.tracker) THEN StopPermission(applied)
          ELSE [applied EXCEPT !.ready = TRUE, !.phase = "Confirmed",
                               !.control_deadline =
                                   IF checked.phase = "Awaiting"
                                   THEN applied.tracker.execution_deadline ELSE applied.control_deadline]
  BY DEF AcceptAuthority
<1>3. /\ checked \in Worker /\ x \in Tracker /\ Eased(w.tracker, x)
      /\ w.tracker.state \in StoppedLease => x = w.tracker
      /\ checked.control_deadline = w.control_deadline /\ Carries(w, checked)
      /\ w.phase = "Stopped" => checked.phase = "Stopped"
      /\ checked.phase = "Awaiting" => w.phase = "Awaiting" /\ x = w.tracker
      /\ checked.ready => w.ready /\ checked.phase = w.phase
  BY <1>1 DEF Eases, Carries, Eased, Local
<1>4. x.state = "Unconfirmed" => x.sequence = -1
  BY <1>3 DEF Eased, StoppedLease, Local
<1>. HIDE DEF checked
<1>5. \/ Eased(x, y) /\ (x.state \in StoppedLease => y = x)
      \/ x.state \notin StoppedLease /\ Granted(y, authority, started)
  BY <1>3, <1>4, ApplySound
<1>6. y \in Tracker
  BY <1>5 DEF Eased, Granted
<1>7. Step(y) /\ Step(x)
  <2>. HIDE DEF x, y
  <2>1. Step(x)
    BY <1>3
  <2>2. CASE Eased(x, y) /\ (x.state \in StoppedLease => y = x)
    BY <1>3, <2>2, EasedTwice
  <2>3. CASE x.state \notin StoppedLease /\ Granted(y, authority, started)
    BY <1>3, <2>3
  <2>. QED BY <1>5, <2>1, <2>2, <2>3
<1>. HIDE DEF Step, y
<1>8. /\ applied \in Worker /\ applied.tracker = y /\ applied.phase = checked.phase
      /\ applied.ready = checked.ready /\ applied.control_deadline = checked.control_deadline
      /\ Carries(checked, applied) /\ applied.command = w.command
  BY <1>3, <1>6 DEF Worker, Carries
<1>9. Carries(w, applied)
  BY <1>3, <1>8 DEF Carries
<1>. HIDE DEF applied
<1>10. /\ StopPermission(applied).phase = "Stopped" /\ StopPermission(applied).ready = FALSE
       /\ StopPermission(applied).tracker = y
       /\ StopPermission(applied).control_deadline = checked.control_deadline
       /\ Carries(w, StopPermission(applied))
  BY <1>8, <1>9 DEF StopPermission, Worker, Carries
<1>11. CASE checked.phase = "Stopped"
  <2>1. v = checked
    BY <1>2, <1>6, <1>11
  <2>2. ~checked.ready
    BY <1>3, <1>11 DEF Local
  <2>. HIDE DEF v
  <2>. QED BY <1>3, <1>7, <1>11, <2>1, <2>2
<1>12. CASE v = StopPermission(applied)
  <2>. HIDE DEF v
  <2>. QED BY <1>3, <1>7, <1>10, <1>12
<1>13. CASE checked.phase # "Stopped" /\ w.command.intent # "Dispatch" /\ v = applied
  <2>1. w.phase # "Stopped" /\ w.phase # "Awaiting" /\ w.consumed /\ checked.phase = "Confirmed"
    BY <1>3, <1>13 DEF Local, Worker
  <2>2. v.consumed
    BY <1>9, <1>13, <2>1 DEF Carries
  <2>. HIDE DEF v
  <2>. QED BY <1>3, <1>7, <1>8, <1>9, <1>13, <2>1, <2>2
<1>14. CASE /\ checked.phase # "Stopped" /\ y.state \notin StoppedLease /\ MayDispatch(y)
            /\ v = [applied EXCEPT !.ready = TRUE, !.phase = "Confirmed",
                                   !.control_deadline =
                                       IF checked.phase = "Awaiting" THEN y.execution_deadline
                                       ELSE checked.control_deadline]
  <2>1. PICK d : d = IF checked.phase = "Awaiting" THEN y.execution_deadline
                     ELSE checked.control_deadline
    OBVIOUS
  <2>2. d \in Nat
    BY <1>3, <1>6, <2>1 DEF Tracker, Worker
  <2>3. v = [applied EXCEPT !.ready = TRUE, !.phase = "Confirmed", !.control_deadline = d]
    BY <1>14, <2>1
  <2>4. /\ v \in Worker /\ v.ready /\ v.phase = "Confirmed" /\ v.control_deadline = d
        /\ v.tracker = y /\ Carries(applied, v)
    <3>. HIDE DEF v
    <3>. QED BY <1>8, <2>2, <2>3 DEF Worker, Carries
  <2>. HIDE DEF v
  <2>5. Carries(w, v)
    BY <1>9, <2>4 DEF Carries
  <2>6. w.phase # "Stopped" /\ y.dispatch_allowed
    BY <1>3, <1>14 DEF MayDispatch
  <2>7. w.phase # "Awaiting" => d = w.control_deadline
    BY <1>3, <2>1
  <2>. QED BY <1>7, <2>4, <2>5, <2>6, <2>7
<1>. HIDE DEF v
<1>15. \/ checked.phase = "Stopped" \/ v = StopPermission(applied)
       \/ checked.phase # "Stopped" /\ w.command.intent # "Dispatch" /\ v = applied
       \/ /\ checked.phase # "Stopped" /\ y.state \notin StoppedLease /\ MayDispatch(y)
          /\ v = [applied EXCEPT !.ready = TRUE, !.phase = "Confirmed",
                                 !.control_deadline =
                                     IF checked.phase = "Awaiting" THEN y.execution_deadline
                                     ELSE checked.control_deadline]
  BY <1>2, <1>6, <1>8
<1>. QED BY <1>11, <1>12, <1>13, <1>14, <1>15

(* The worker after an answer was accepted and the next command chosen.    *)
LEMMA AcceptGood ==
    ASSUME StoreInv, NEW slot \in Slot, NEW w, Good(slot, w), w.monitoring,
           w.exchange.reply.kind = "Authority",
           NEW v, v = AcceptAuthority(w, w.exchange.reply.authority, w.exchange.started),
           NEW u, u = [v EXCEPT !.exchange = NoExchange, !.command = NextCommand(v)]
    PROVE  Good(slot, u)
<1>0. PICK authority, started : authority = w.exchange.reply.authority /\ started = w.exchange.started
  OBVIOUS
<1>1. w \in Worker /\ Local(w) /\ now \in Nat /\ w.stage \notin {"Idle", "Claimed"}
  BY DEF Good, Local, StoreInv, Safety, Structure, TypeOK
<1>2. authority \in AuthorityRec /\ started \in Nat /\ started =< now
  BY <1>0, <1>1, WorkerTypes, ReplyKinds DEF Local
<1>3. /\ Carries(w, v)
      /\ \/ Eased(w.tracker, v.tracker) /\ (w.tracker.state \in StoppedLease => v.tracker = w.tracker)
         \/ w.tracker.state \notin StoppedLease /\ Granted(v.tracker, authority, started)
      /\ v.phase \in {"Confirmed", "Stopped"}
      /\ w.phase = "Stopped" => v.phase = "Stopped"
      /\ v.ready => v.phase = "Confirmed"
      /\ v.ready /\ ~v.consumed => v.tracker.dispatch_allowed
      /\ w.phase # "Awaiting" => v.control_deadline = w.control_deadline
  BY <1>0, <1>1, <1>2, AcceptSound
<1>4. /\ v \in Worker /\ v.stage = w.stage /\ v.attempt = w.attempt /\ v.consumed = w.consumed
      /\ v.monitoring = w.monitoring /\ v.settle = w.settle /\ v.command = w.command
      /\ v.tracker \in Tracker /\ v.tracker.deadline \in Nat
  BY <1>3, WorkerTypes DEF Carries
<1>5. /\ NextCommand(v) \in Command
      /\ NextCommand(v).intent # "None"
      /\ NextCommand(v).intent # "Dispatch" => v.consumed \/ v.phase = "Stopped"
  BY <1>4, WorkerTypes DEF NextCommand, Command, RenewIntent
<1>6. PICK c : c = NextCommand(v)
  OBVIOUS
<1>7. NoExchange \in Exchange /\ NoExchange.reply = NoReply /\ NoExchange.started = 0
  BY DEF NoExchange, Exchange, Reply, NoTime
<1>8. /\ u \in Worker /\ u.stage = w.stage /\ u.attempt = w.attempt /\ u.consumed = w.consumed
      /\ u.monitoring = w.monitoring /\ u.settle = w.settle /\ u.command = c
      /\ u.exchange = NoExchange /\ u.tracker = v.tracker /\ u.phase = v.phase
      /\ u.ready = v.ready /\ u.control_deadline = v.control_deadline
  <2>1. u = [v EXCEPT !.exchange = NoExchange, !.command = c] /\ c \in Command
    BY <1>5, <1>6
  <2>. QED BY ZenonT(60), <1>4, <1>7, <2>1 DEF Worker
<1>9. u.tracker.deadline = w.tracker.deadline \/ now < u.tracker.deadline
  BY <1>3, <1>8 DEF Eased, Granted
<1>10. /\ u.tracker.state = "Unconfirmed" => u.tracker = w.tracker
       /\ u.tracker.state = "Active" => u.tracker = w.tracker \/ now < u.tracker.deadline
  BY <1>3, <1>8 DEF Eased, Granted, StoppedLease
<1>11. Local(u)
  <2>1. /\ u.stage # "Idle" => u.attempt \in Tasks \X Generation
        /\ u.stage \notin {"Idle", "Claimed"}
        /\ u.monitoring => u.command.intent # "None"
        /\ u.phase # "Awaiting"
        /\ u.monitoring /\ u.command.intent # "Dispatch" => u.consumed \/ u.phase = "Stopped"
        /\ u.ready => u.phase = "Confirmed"
        /\ u.ready /\ ~u.consumed /\ u.tracker.state = "Active" => u.tracker.dispatch_allowed
        /\ u.stage = "Waiting" => ~u.consumed
        /\ u.stage \in {"Reporting", "Accepted"} => u.settle.outcome \in Outcome
    <3>1. /\ w.stage # "Idle" => w.attempt \in Tasks \X Generation
          /\ w.stage = "Waiting" => ~w.consumed
          /\ w.stage \in {"Reporting", "Accepted"} => w.settle.outcome \in Outcome
      BY <1>1 DEF Local
    <3>2. /\ u.stage # "Idle" => u.attempt \in Tasks \X Generation
          /\ u.stage \notin {"Idle", "Claimed"}
          /\ u.stage = "Waiting" => ~u.consumed
          /\ u.stage \in {"Reporting", "Accepted"} => u.settle.outcome \in Outcome
      BY <1>1, <1>8, <3>1
    <3>3. /\ u.command.intent # "None"
          /\ u.command.intent # "Dispatch" => u.consumed \/ u.phase = "Stopped"
      BY <1>4, <1>5, <1>6, <1>8
    <3>4. /\ u.phase # "Awaiting" /\ (u.ready => u.phase = "Confirmed")
          /\ u.ready /\ ~u.consumed => u.tracker.dispatch_allowed
      BY <1>3, <1>4, <1>8
    <3>. QED BY <3>2, <3>3, <3>4
  <2>2. /\ u.tracker.state = "Unconfirmed" => u.tracker.deadline = 0 /\ u.tracker.sequence = -1
        /\ u.tracker.state = "Active" => u.tracker.deadline > 0
        /\ u.stage \in {"Prepared", "Running"} => u.tracker.deadline > 0
    BY <1>1, <1>4, <1>8, <1>9, <1>10 DEF Local
  <2>3. ASSUME MayStillRun(u)
        PROVE  now =< u.tracker.deadline + MaxLag /\ now =< u.control_deadline + MaxLag
    <3>1. MayStillRun(w) /\ w.phase # "Awaiting"
      BY <1>1, <1>3, <1>8, <2>3 DEF MayStillRun, Local, Worker
    <3>2. now =< w.tracker.deadline + MaxLag /\ now =< w.control_deadline + MaxLag
      BY <1>1, <3>1 DEF Local
    <3>3. u.control_deadline = w.control_deadline
      BY <1>3, <1>8, <3>1
    <3>4. now < u.tracker.deadline => now =< u.tracker.deadline + MaxLag
      BY <1>1, <1>4, <1>8, LagAssumption
    <3>. QED BY <1>9, <3>2, <3>3, <3>4
  <2>4. u.exchange.started =< now
    BY <1>1, <1>7, <1>8
  <2>. QED BY <2>1, <2>2, <2>3, <2>4 DEF Local
<1>12. Backed(slot, u.attempt[1], u.attempt[2], u)
  <2>0. PICK t, g : t = w.attempt[1] /\ g = w.attempt[2]
    OBVIOUS
  <2>1. Backed(slot, t, g, w) /\ t \in Tasks /\ g \in Generation
    BY <1>1, <2>0 DEF Good, Local
  <2>2. u.tracker.dispatch_allowed => attempts[t][g].started
    BY <1>0, <1>3, <1>8, <2>1 DEF Backed, Eased, Granted
  <2>3. ASSUME u.stage \in Working
        PROVE  u.tracker.deadline = 0 \/ Promised(t, g, u.tracker.deadline + SafetyMargin)
    <3>1. CASE Eased(w.tracker, v.tracker)
      BY <1>8, <2>1, <2>3, <3>1 DEF Backed, Eased
    <3>2. CASE Granted(v.tracker, authority, started)
      <4>1. Promised(t, g, started + authority.remaining)
        BY <1>0, <1>8, <2>1, <2>3, <3>2 DEF Backed, Granted
      <4>2. /\ started + authority.remaining \in Nat
            /\ u.tracker.deadline + SafetyMargin \in Nat
            /\ u.tracker.deadline + SafetyMargin =< started + authority.remaining
        BY <1>2, <1>4, <1>8, <3>2, MarginAssumption DEF Granted, AuthorityRec
      <4>. QED BY <2>1, <4>1, <4>2, PromiseEarlier
    <3>. QED BY <1>3, <3>1, <3>2
  <2>4. u.exchange.reply.kind # "Authority"
    BY <1>7, <1>8 DEF NoReply
  <2>5. Backed(slot, t, g, u)
    BY <1>8, <2>1, <2>2, <2>3, <2>4 DEF Backed
  <2>. QED BY <1>8, <2>0, <2>5
<1>. QED BY <1>8, <1>11, <1>12 DEF Good

-----------------------------------------------------------------------------
(* What NoRevival says of one worker.                                      *)
Stays(w, v) ==
    w.stage \notin {"Idle", "Claimed"} /\ v.stage # "Idle" =>
        /\ w.phase = "Stopped" => v.phase = "Stopped"
        /\ w.tracker.state \in StoppedLease => v.tracker.state = w.tracker.state
        /\ w.control_deadline # NoTime => v.control_deadline = w.control_deadline
        /\ v.stage = "Prepared" /\ w.stage # "Prepared" => ~w.consumed

(* What every step is shown to do.                                         *)
SoundStep ==
    /\ WInv'
    /\ [Next]_vars
    /\ \A slot \in Slot : Stays(workers[slot], workers'[slot])

(* Nothing is revived by a check.                                          *)
LEMMA EasesStays ==
    ASSUME NEW w, NEW v, Eases(w, v)
    PROVE  Stays(w, v)
BY DEF Eases, Carries, Eased, Stays

(* The other workers stay as they are.                                     *)
LEMMA UpdateStays ==
    ASSUME WInv, NEW slot \in Slot, NEW v, Update(slot, v), Stays(workers[slot], v)
    PROVE  \A s \in Slot : Stays(workers[s], workers'[s])
<1>1. workers' = [workers EXCEPT ![slot] = v] /\ workers \in [Slot -> Worker]
  BY DEF WInv, Update
<1>2. ASSUME NEW s \in Slot PROVE Stays(workers[s], workers'[s])
  <2>1. CASE s = slot
    BY <1>1, <2>1
  <2>2. CASE s # slot
    <3>1. workers'[s] = workers[s]
      BY <1>1, <2>2
    <3>. QED BY <3>1 DEF Stays
  <2>. QED BY <2>1, <2>2
<1>. QED BY <1>2

(* A step of the worker of one slot.                                       *)
LEMMA OwnStep ==
    ASSUME WInv, NEW slot \in Slot, NEW v, Good(slot, v), Stays(workers[slot], v),
           Update(slot, v), ServerUnchanged, stopping' \subseteq Sessions
    PROVE  SoundStep
<1>1. WInv'
  BY WorkerStep
<1>2. [Next]_vars
  BY DEF ServerUnchanged
<1>. QED BY <1>1, <1>2, UpdateStays DEF SoundStep

(* A step of the store and of the worker of one slot together.             *)
LEMMA JointStep ==
    ASSUME WInv, [Next]_vars, now' = now, NEW slot \in Slot, NEW v, Update(slot, v),
           Good(slot, v)', Stays(workers[slot], v), UNCHANGED stopping,
           NEW t \in Tasks, NEW g \in Generation,
           attempts[t][g].state # "None" => attempts[t][g].owner = slot,
           \A u \in Tasks, h \in Generation :
               attempts[u][h].state # "None" /\ (u # t \/ h # g) => Undisturbed(u, h)
    PROVE  SoundStep
<1>1. StoreInv /\ StoreInv' /\ now =< now' /\ workers \in [Slot -> Worker]
  BY NextStoreInv DEF WInv
<1>2. workers' = [workers EXCEPT ![slot] = v] /\ v \in Worker
  BY DEF Update, Good
<1>3. workers' \in [Slot -> Worker]
  BY <1>1, <1>2
<1>4. ASSUME NEW s \in Slot, s # slot PROVE Good(s, workers[s])'
  <2>0. PICK w : w = workers[s]
    OBVIOUS
  <2>1. Good(s, w)
    BY <2>0 DEF WInv
  <2>2. w.stage # "Idle" => Undisturbed(w.attempt[1], w.attempt[2])
    <3>. SUFFICES ASSUME w.stage # "Idle" PROVE Undisturbed(w.attempt[1], w.attempt[2])
      OBVIOUS
    <3>0. PICK u, h : u = w.attempt[1] /\ h = w.attempt[2]
      OBVIOUS
    <3>1. /\ u \in Tasks /\ h \in Generation /\ attempts[u][h].state # "None"
          /\ attempts[u][h].owner = s
      BY <2>1, <3>0 DEF Good, Local, Backed
    <3>2. u # t \/ h # g
      BY <1>4, <3>1
    <3>. QED BY <3>0, <3>1, <3>2
  <2>3. MayStillRun(w) => now' =< w.tracker.deadline + MaxLag /\ now' =< w.control_deadline + MaxLag
    BY <2>1 DEF Good, Local
  <2>4. Good(s, w)'
    BY <1>1, <2>1, <2>2, <2>3, GoodStands
  <2>5. workers'[s] = w
    BY <1>1, <1>2, <1>4, <2>0
  <2>. QED BY <2>4, <2>5
<1>5. Good(slot, workers[slot])'
  <2>1. workers'[slot] = v
    BY <1>1, <1>2
  <2>. QED BY <2>1
<1>6. WInv'
  BY <1>1, <1>3, <1>4, <1>5 DEF WInv
<1>. QED BY <1>6, UpdateStays DEF SoundStep

(* A step of the store alone, other than a report or its confirmation.     *)
LEMMA QuietStep ==
    ASSUME WInv, [Next]_vars, UNCHANGED <<workers, stopping>>,
           \A u \in Tasks, g \in Generation : attempts[u][g].state # "None" => Undisturbed(u, g),
           \A slot \in Slot : MayStillRun(workers[slot]) =>
               /\ now' =< workers[slot].tracker.deadline + MaxLag
               /\ now' =< workers[slot].control_deadline + MaxLag
    PROVE  SoundStep
BY StoreStep DEF SoundStep, Stays

-----------------------------------------------------------------------------
(* An idle worker is good.                                                 *)
LEMMA IdleGood == ASSUME StoreInv, NEW slot PROVE Good(slot, IdleWorker) /\ IdleWorker \in Worker
<1>1. now \in Nat
  BY DEF StoreInv, Safety, Structure, TypeOK
<1>2. /\ NoExchange \in Exchange /\ NoCommand \in Command /\ NoSettle \in Settlement
      /\ NewTracker \in Tracker
  BY DEF NoExchange, Exchange, Reply, NoTime, NoCommand, Command, RenewIntent, NoSettle, Settlement,
         NoReport, Quiescence, NewTracker, Tracker
<1>3. IdleWorker \in Worker
  BY <1>2 DEF IdleWorker, Worker, Stage, NoTime
<1>4. Local(IdleWorker)
  BY <1>1 DEF IdleWorker, Local, NewTracker, NoExchange, NoTime, MayStillRun
<1>5. IdleWorker.stage = "Idle"
  BY DEF IdleWorker
<1>. QED BY <1>3, <1>4, <1>5 DEF Good

(* A reservation is given back.                                            *)
LEMMA ReleaseSound ==
    ASSUME WInv, NEW slot \in Slot, Release(slot) \/ DeliverLost(slot)
    PROVE  SoundStep
<1>1. Good(slot, IdleWorker) /\ Stays(workers[slot], IdleWorker) /\ stopping' \subseteq Sessions
  BY IdleGood DEF WInv, Stays, IdleWorker, Release, DeliverLost
<1>. QED BY <1>1, OwnStep DEF Release, DeliverLost

(* An assignment arrives: Monitor::new.                                    *)
LEMMA DeliverSound ==
    ASSUME WInv, NEW slot \in Slot, Deliver(slot)
    PROVE  SoundStep
<1>1. PICK phase \in {"Awaiting", "Stopped"} :
        Update(slot, [workers[slot] EXCEPT
                 !.stage = "Waiting", !.phase = phase,
                 !.confirm_by = now + ConfirmTimeout, !.monitoring = TRUE,
                 !.command = [sequence |-> 1, intent |-> "Dispatch", sent |-> FALSE]])
  BY DEF Deliver
<1>2. PICK w : w = workers[slot]
  OBVIOUS
<1>3. /\ w \in Worker /\ Local(w) /\ w.stage = "Claimed" /\ now \in Nat
      /\ Backed(slot, w.attempt[1], w.attempt[2], w) /\ now + ConfirmTimeout \in Nat
  BY <1>2, LagAssumption DEF WInv, Good, Deliver, StoreInv, Safety, Structure, TypeOK
<1>4. PICK c, d : c = [sequence |-> 1, intent |-> "Dispatch", sent |-> FALSE] /\ d = now + ConfirmTimeout
  OBVIOUS
<1>5. c \in Command /\ c.intent = "Dispatch"
  BY <1>4 DEF Command, RenewIntent
<1>. DEFINE v == [w EXCEPT !.stage = "Waiting", !.phase = phase, !.confirm_by = d,
                           !.monitoring = TRUE, !.command = c]
<1>6. /\ v \in Worker /\ v.stage = "Waiting" /\ v.phase = phase /\ v.monitoring /\ v.command = c
      /\ v.attempt = w.attempt /\ v.tracker = w.tracker /\ v.exchange = w.exchange
      /\ v.consumed = w.consumed /\ v.ready = w.ready /\ v.control_deadline = w.control_deadline
  BY <1>3, <1>4, <1>5 DEF Worker, Stage
<1>7. Update(slot, v)
  BY <1>1, <1>2, <1>4
<1>. HIDE DEF v
<1>8. /\ w.tracker = NewTracker /\ w.exchange = NoExchange /\ ~w.consumed /\ ~w.ready
      /\ w.control_deadline = NoTime /\ w.attempt \in Tasks \X Generation
  BY <1>3 DEF Local
<1>9. Local(v)
  BY <1>3, <1>5, <1>6, <1>8 DEF Local, NewTracker, NoTime, NoExchange, MayStillRun
<1>10. Backed(slot, v.attempt[1], v.attempt[2], v)
  BY <1>3, <1>6, <1>8 DEF Backed, Working, NewTracker, NoExchange, NoReply, NoTime
<1>11. Good(slot, v) /\ Stays(workers[slot], v)
  BY <1>2, <1>3, <1>6, <1>9, <1>10 DEF Good, Stays
<1>. QED BY <1>7, <1>11, OwnStep DEF Deliver, WInv

(* The worker of a slot after a check.                                     *)
LEMMA Checked ==
    ASSUME WInv, NEW slot \in Slot, workers[slot].stage \notin {"Idle", "Claimed"}, NEW halt,
           NEW v, v = CheckPermission(workers[slot], halt)
    PROVE  /\ now \in Nat /\ workers[slot] \in Worker /\ Local(workers[slot])
           /\ Good(slot, v) /\ Eases(workers[slot], v)
           /\ v.phase = "Confirmed" =>
                 /\ v.tracker.state = "Active" /\ now < v.tracker.deadline
                 /\ now < v.control_deadline
<1>1. now \in Nat /\ Good(slot, workers[slot]) /\ workers[slot] \in Worker /\ Local(workers[slot])
  BY DEF WInv, StoreInv, Safety, Structure, TypeOK, Good
<1>2. /\ Eases(workers[slot], v)
      /\ v.phase = "Confirmed" =>
            /\ v.tracker.state = "Active" /\ now < v.tracker.deadline
            /\ now < v.control_deadline
  BY <1>1, CheckEases
<1>. QED BY <1>1, <1>2, EasesGood DEF WInv

(* A monitor runs beside a delivered attempt only.                         *)
LEMMA MonitoredStage ==
    ASSUME WInv, NEW slot \in Slot, Monitoring(slot)
    PROVE  workers[slot].stage \notin {"Idle", "Claimed"} /\ workers[slot].monitoring
BY DEF WInv, Good, Local, Monitoring

(* The periodic check.                                                     *)
LEMMA CheckSound ==
    ASSUME WInv, NEW slot \in Slot, Check(slot)
    PROVE  SoundStep
<1>1. PICK v : v = CheckPermission(workers[slot], Stopping(slot))
  OBVIOUS
<1>2. Good(slot, v) /\ Stays(workers[slot], v)
  BY <1>1, MonitoredStage, Checked, EasesStays DEF Check
<1>. QED BY <1>1, <1>2, OwnStep DEF Check, WInv

(* A new or a forgotten exchange, and perhaps a command made KeepAlive.    *)
LEMMA ExchangeGood ==
    ASSUME NEW slot, NEW w, Good(slot, w), w.stage \notin {"Idle", "Claimed"},
           NEW e \in Exchange, e.reply = NoReply, e.started =< now,
           NEW c \in Command, c.intent # "None",
           c.intent # w.command.intent => c.intent = "KeepAlive" /\ w.phase = "Stopped",
           NEW v, v = [w EXCEPT !.command = c, !.exchange = e]
    PROVE  Good(slot, v)
<1>1. w \in Worker /\ Local(w) /\ Backed(slot, w.attempt[1], w.attempt[2], w)
  BY DEF Good
<1>2. /\ v \in Worker /\ v.stage = w.stage /\ v.attempt = w.attempt /\ v.consumed = w.consumed
      /\ v.monitoring = w.monitoring /\ v.command = c /\ v.exchange = e /\ v.settle = w.settle
      /\ v.tracker = w.tracker /\ v.phase = w.phase /\ v.ready = w.ready
      /\ v.control_deadline = w.control_deadline
  BY <1>1 DEF Worker
<1>3. Local(v)
  BY <1>1, <1>2 DEF Local, MayStillRun
<1>4. e.reply.kind # "Authority"
  BY DEF NoReply
<1>5. Backed(slot, w.attempt[1], w.attempt[2], v)
  BY <1>1, <1>2, <1>4 DEF Backed
<1>. QED BY <1>2, <1>3, <1>5 DEF Good

(* A renewal is sent.                                                      *)
LEMMA SendSound ==
    ASSUME WInv, NEW slot \in Slot, SendRenew(slot)
    PROVE  SoundStep
<1>1. PICK w : w = CheckPermission(workers[slot], Stopping(slot))
  OBVIOUS
<1>2. /\ Good(slot, w) /\ Eases(workers[slot], w) /\ now \in Nat /\ Monitoring(slot)
      /\ w.stage \notin {"Idle", "Claimed"} /\ w.monitoring /\ w \in Worker /\ Local(w)
  BY <1>1, MonitoredStage, Checked DEF SendRenew, Eases, Carries, Good
<1>3. PICK e : e = [started |-> now, reply |-> NoReply]
  OBVIOUS
<1>4. e \in Exchange /\ e.reply = NoReply /\ e.started =< now
  BY <1>2, <1>3 DEF Exchange, Reply
<1>5. PICK i : i = IF ~w.command.sent /\ w.phase = "Stopped" THEN "KeepAlive" ELSE w.command.intent
  OBVIOUS
<1>6. PICK c : c = [w.command EXCEPT !.intent = i, !.sent = TRUE]
  OBVIOUS
<1>7. w.command \in Command /\ w.command.intent # "None"
  BY <1>2, WorkerTypes DEF Local
<1>8. c \in Command /\ c.intent = i /\ i # "None"
      /\ (i # w.command.intent => i = "KeepAlive" /\ w.phase = "Stopped")
  BY <1>5, <1>6, <1>7 DEF Command, RenewIntent
<1>9. PICK v : v = [w EXCEPT !.command = c, !.exchange = e]
  OBVIOUS
<1>10. Update(slot, v) /\ ServerUnchanged /\ UNCHANGED stopping
  <2>1. Update(slot, [w EXCEPT
            !.command.intent = IF ~w.command.sent /\ w.phase = "Stopped" THEN "KeepAlive" ELSE @,
            !.command.sent = TRUE,
            !.exchange = [started |-> now, reply |-> NoReply]])
    BY <1>1 DEF SendRenew
  <2>2. [w EXCEPT
            !.command.intent = IF ~w.command.sent /\ w.phase = "Stopped" THEN "KeepAlive" ELSE @,
            !.command.sent = TRUE,
            !.exchange = [started |-> now, reply |-> NoReply]] = v
    BY <1>2, <1>3, <1>5, <1>6, <1>7, <1>9 DEF Worker, Command
  <2>. QED BY <2>1, <2>2 DEF SendRenew
<1>11. Good(slot, v)
  BY <1>2, <1>4, <1>8, <1>9, ExchangeGood
<1>12. Stays(workers[slot], v)
  <2>1. /\ v.phase = w.phase /\ v.tracker = w.tracker /\ v.stage = w.stage
        /\ v.control_deadline = w.control_deadline
    BY <1>2, <1>9 DEF Worker
  <2>2. Stays(workers[slot], w)
    BY <1>2, EasesStays
  <2>. QED BY <2>1, <2>2 DEF Stays
<1>. QED BY <1>10, <1>11, <1>12, OwnStep DEF WInv

(* An exchange is given up.                                                *)
LEMMA AbandonSound ==
    ASSUME WInv, NEW slot \in Slot, AbandonExchange(slot)
    PROVE  SoundStep
<1>1. PICK w : w = CheckPermission(workers[slot], Stopping(slot))
  OBVIOUS
<1>2. /\ Good(slot, w) /\ Eases(workers[slot], w) /\ now \in Nat
      /\ w.stage \notin {"Idle", "Claimed"} /\ w.monitoring /\ w \in Worker /\ Local(w)
  BY <1>1, MonitoredStage, Checked DEF AbandonExchange, Eases, Carries, Good
<1>3. NoExchange \in Exchange /\ NoExchange.reply = NoReply /\ NoExchange.started =< now
  BY <1>2 DEF NoExchange, Exchange, Reply, NoTime
<1>4. w.command \in Command /\ w.command.intent # "None"
  BY <1>2, WorkerTypes DEF Local
<1>5. PICK v : v = [w EXCEPT !.exchange = NoExchange]
  OBVIOUS
<1>6. v = [w EXCEPT !.command = w.command, !.exchange = NoExchange]
  BY <1>2, <1>5 DEF Worker
<1>7. Good(slot, v)
  BY <1>2, <1>3, <1>4, <1>6, ExchangeGood
<1>8. Stays(workers[slot], v)
  <2>1. /\ v.phase = w.phase /\ v.tracker = w.tracker /\ v.stage = w.stage
        /\ v.control_deadline = w.control_deadline
    BY <1>2, <1>5 DEF Worker
  <2>2. Stays(workers[slot], w)
    BY <1>2, EasesStays
  <2>. QED BY <2>1, <2>2 DEF Stays
<1>. QED BY <1>1, <1>5, <1>7, <1>8, OwnStep DEF AbandonExchange, WInv

(* Monitor::run on an answer.                                              *)
LEMMA ReceiveRenewSound ==
    ASSUME WInv, NEW slot \in Slot, ReceiveRenew(slot)
    PROVE  SoundStep
<1>1. PICK w : w = CheckPermission(workers[slot], Stopping(slot))
  OBVIOUS
<1>2. /\ Good(slot, w) /\ Eases(workers[slot], w) /\ now \in Nat /\ StoreInv
      /\ w.stage \notin {"Idle", "Claimed"} /\ w.monitoring /\ w \in Worker /\ Local(w)
      /\ w.exchange = workers[slot].exchange /\ Local(workers[slot])
      /\ w.stage = workers[slot].stage
  BY <1>1, MonitoredStage, Checked DEF ReceiveRenew, Eases, Carries, Good, WInv
<1>3. Stays(workers[slot], w)
  BY <1>2, EasesStays
<1>4. ASSUME workers[slot].exchange.reply.kind = "Authority", NEW v, NEW u,
             v = AcceptAuthority(w, w.exchange.reply.authority, w.exchange.started),
             u = [v EXCEPT !.exchange = NoExchange, !.command = NextCommand(v)]
      PROVE  Good(slot, u) /\ Stays(workers[slot], u)
  <2>1. Good(slot, u)
    BY <1>2, <1>4, AcceptGood
  <2>2. w.exchange.reply.authority \in AuthorityRec /\ w.exchange.started \in Nat
        /\ w.exchange.started =< now
    BY <1>2, <1>4, WorkerTypes, ReplyKinds DEF Local
  <2>3. /\ Carries(w, v)
        /\ \/ Eased(w.tracker, v.tracker) /\ (w.tracker.state \in StoppedLease => v.tracker = w.tracker)
           \/ w.tracker.state \notin StoppedLease /\ Granted(v.tracker, w.exchange.reply.authority, w.exchange.started)
        /\ w.phase = "Stopped" => v.phase = "Stopped"
        /\ w.phase # "Awaiting" => v.control_deadline = w.control_deadline
    BY <1>2, <1>4, <2>2, AcceptSound
  <2>4. /\ u.stage = v.stage /\ u.phase = v.phase /\ u.tracker = v.tracker
        /\ u.control_deadline = v.control_deadline
    BY <1>4, <2>3 DEF Carries, Worker
  <2>5. workers[slot].control_deadline # NoTime => w.phase # "Awaiting"
    BY <1>2 DEF Local, Eases
  <2>6. u.stage = w.stage
    BY <2>3, <2>4 DEF Carries
  <2>. QED BY <1>2, <1>3, <2>1, <2>3, <2>4, <2>5, <2>6 DEF Stays
<1>5. ASSUME NEW v, v = [StopPermission(w) EXCEPT !.exchange = NoExchange, !.monitoring = FALSE]
      PROVE  Good(slot, v) /\ Stays(workers[slot], v)
  <2>1. PICK s : s = StopPermission(w)
    OBVIOUS
  <2>2. Eases(w, s) /\ s.phase = "Stopped"
    BY <1>2, <2>1, StopPermissionEases
  <2>3. Good(slot, s) /\ s \in Worker /\ s.stage = w.stage /\ Stays(workers[slot], s)
    <3>1. Good(slot, s) /\ s \in Worker /\ s.stage = w.stage
      BY <1>2, <2>2, EasesGood DEF Good, Eases, Carries
    <3>2. Stays(workers[slot], s)
      BY <1>2, <2>2, EasesTwice, EasesStays
    <3>. QED BY <3>1, <3>2
  <2>4. NoExchange \in Exchange /\ NoExchange.reply = NoReply /\ NoExchange.started = 0
    BY DEF NoExchange, Exchange, Reply, NoTime
  <2>5. /\ v \in Worker /\ v.stage = s.stage /\ v.attempt = s.attempt /\ v.consumed = s.consumed
        /\ ~v.monitoring /\ v.command = s.command /\ v.exchange = NoExchange
        /\ v.settle = s.settle /\ v.tracker = s.tracker /\ v.phase = s.phase
        /\ v.ready = s.ready /\ v.control_deadline = s.control_deadline
    BY <1>5, <2>1, <2>3, <2>4 DEF Worker
  <2>6. Local(v)
    BY <1>2, <2>2, <2>3, <2>4, <2>5 DEF Good, Local, MayStillRun
  <2>7. NoReply.kind # "Authority"
    BY DEF NoReply
  <2>8. Backed(slot, v.attempt[1], v.attempt[2], v)
    BY ZenonT(60), <1>2, <2>3, <2>4, <2>5, <2>7 DEF Good, Backed
  <2>9. Stays(workers[slot], v)
    BY <2>3, <2>5 DEF Stays
  <2>. QED BY <2>5, <2>6, <2>8, <2>9 DEF Good
<1>6. SessionOf(slot) \in Sessions /\ stopping \subseteq Sessions
  BY DEF Slot, SessionOf, WInv
<1>7. CASE /\ workers[slot].exchange.reply.kind = "Authority"
           /\ LET applied == AcceptAuthority(w, w.exchange.reply.authority, w.exchange.started) IN
              Update(slot, [applied EXCEPT !.exchange = NoExchange, !.command = NextCommand(applied)])
           /\ UNCHANGED stopping
  <2>1. PICK v : v = AcceptAuthority(w, w.exchange.reply.authority, w.exchange.started)
    OBVIOUS
  <2>2. PICK u : u = [v EXCEPT !.exchange = NoExchange, !.command = NextCommand(v)]
    OBVIOUS
  <2>. QED BY <1>4, <1>6, <1>7, <2>1, <2>2, OwnStep DEF ReceiveRenew
<1>8. CASE /\ Update(slot, [StopPermission(w) EXCEPT !.exchange = NoExchange, !.monitoring = FALSE])
           /\ stopping' \subseteq Sessions
  BY <1>5, <1>8, OwnStep DEF ReceiveRenew
<1>. QED BY <1>1, <1>2, <1>6, <1>7, <1>8 DEF ReceiveRenew

-----------------------------------------------------------------------------
(* The worker whose open exchange gets an answer.                          *)
Answered(w, r) ==
    [w EXCEPT !.exchange.reply = IF w.exchange # NoExchange /\ @ = NoReply THEN r ELSE @]

(* An answer that is true of the store leaves the worker good.             *)
AnswerKeeps ==
    \A slot \in Slot, w \in Worker, r \in Reply :
        /\ Good(slot, w) /\ w.monitoring
        /\ r.kind = "Authority" =>
              /\ r.authority.dispatch_allowed => attempts[w.attempt[1]][w.attempt[2]].started
              /\ ~r.authority.cancel_requested /\ r.authority.remaining > 0 =>
                    Promised(w.attempt[1], w.attempt[2], w.exchange.started + r.authority.remaining)
        => Good(slot, Answered(w, r))

(* What an answer leaves alone.                                            *)
LEMMA AnsweredFields ==
    ASSUME NEW w \in Worker, NEW r \in Reply
    PROVE  LET v == Answered(w, r) IN
           /\ v \in Worker /\ v.stage = w.stage /\ v.attempt = w.attempt
           /\ v.consumed = w.consumed /\ v.monitoring = w.monitoring /\ v.command = w.command
           /\ v.settle = w.settle /\ v.tracker = w.tracker /\ v.phase = w.phase
           /\ v.ready = w.ready /\ v.control_deadline = w.control_deadline
           /\ v.exchange.started = w.exchange.started
           /\ v.exchange.reply = w.exchange.reply \/ v.exchange.reply = r
<1>1. PICK q : q = IF w.exchange # NoExchange /\ w.exchange.reply = NoReply THEN r
                   ELSE w.exchange.reply
  OBVIOUS
<1>2. w.exchange \in Exchange /\ w.exchange.reply \in Reply
  BY WorkerTypes
<1>3. q \in Reply /\ (q = w.exchange.reply \/ q = r)
  BY <1>1, <1>2
<1>4. PICK e : e = [w.exchange EXCEPT !.reply = q]
  OBVIOUS
<1>5. e \in Exchange /\ e.started = w.exchange.started /\ e.reply = q
  BY <1>2, <1>3, <1>4 DEF Exchange
<1>6. Answered(w, r) = [w EXCEPT !.exchange = e]
  BY <1>1, <1>4 DEF Answered, Worker
<1>. QED BY <1>3, <1>5, <1>6 DEF Worker

(* Such an answer is kept.                                                 *)
LEMMA AnswerIsKept == AnswerKeeps
<1>. SUFFICES ASSUME NEW slot \in Slot, NEW w \in Worker, NEW r \in Reply,
                     Good(slot, w), w.monitoring,
                     r.kind = "Authority" =>
                        /\ r.authority.dispatch_allowed => attempts[w.attempt[1]][w.attempt[2]].started
                        /\ ~r.authority.cancel_requested /\ r.authority.remaining > 0 =>
                              Promised(w.attempt[1], w.attempt[2],
                                       w.exchange.started + r.authority.remaining)
              PROVE  Good(slot, Answered(w, r))
  BY DEF AnswerKeeps
<1>1. w \in Worker /\ Local(w) /\ w.stage \notin {"Idle", "Claimed"}
  BY DEF Good, Local
<1>2. PICK v : v = Answered(w, r)
  OBVIOUS
<1>3. /\ v \in Worker /\ v.stage = w.stage /\ v.attempt = w.attempt
      /\ v.consumed = w.consumed /\ v.monitoring = w.monitoring /\ v.command = w.command
      /\ v.settle = w.settle /\ v.tracker = w.tracker /\ v.phase = w.phase
      /\ v.ready = w.ready /\ v.control_deadline = w.control_deadline
      /\ v.exchange.started = w.exchange.started
      /\ v.exchange.reply = w.exchange.reply \/ v.exchange.reply = r
  BY <1>1, <1>2, AnsweredFields
<1>4. Local(v)
  BY <1>1, <1>3 DEF Local, MayStillRun
<1>5. Backed(slot, w.attempt[1], w.attempt[2], w)
  BY <1>1 DEF Good
<1>6. Backed(slot, w.attempt[1], w.attempt[2], v)
  <2>1. CASE v.exchange.reply = w.exchange.reply
    BY <1>3, <1>5, <2>1 DEF Backed
  <2>2. CASE v.exchange.reply = r
    BY <1>3, <1>5, <2>2 DEF Backed
  <2>. QED BY <1>3, <2>1, <2>2
<1>. QED BY <1>2, <1>3, <1>4, <1>6 DEF Good

(* An answer that waits revives nothing.                                   *)
LEMMA AnsweredStays ==
    ASSUME NEW w \in Worker, NEW r \in Reply PROVE Stays(w, Answered(w, r))
BY AnsweredFields DEF Stays

(* A renewal is served again, or refused.                                  *)
LEMMA ReplaySound ==
    ASSUME WInv, NEW slot \in Slot, ServeRenewReplay(slot)
    PROVE  SoundStep
<1>0. PICK w, t, g : w = workers[slot] /\ t = TaskOf(slot) /\ g = GenOf(slot)
  OBVIOUS
<1>1. /\ Good(slot, w) /\ w.monitoring /\ w \in Worker /\ now \in Nat /\ StoreInv
      /\ t = w.attempt[1] /\ g = w.attempt[2] /\ t \in Tasks /\ g \in Generation
      /\ w.exchange.started \in Nat /\ w.exchange.started =< now
  BY <1>0, MonitoredStage, WorkerTypes DEF ServeRenewReplay, WInv, Good, Local, TaskOf, GenOf,
     StoreInv, Safety, Structure, TypeOK
<1>2. ASSUME NEW r, Answer(slot, r), r \in Reply, Good(slot, Answered(w, r)) PROVE SoundStep
  <2>1. Update(slot, Answered(w, r))
    BY <1>0, <1>2 DEF Answer, Answered
  <2>. QED BY <1>0, <1>1, <1>2, <2>1, AnsweredStays, OwnStep DEF ServeRenewReplay, WInv
<1>3. ASSUME NEW r, Answer(slot, r), r \in {Refused, Expired} PROVE SoundStep
  <2>1. r \in Reply /\ r.kind # "Authority"
    BY <1>3 DEF Reply, Refused, Expired
  <2>2. Good(slot, Answered(w, r))
    BY <1>1, <2>1, AnswerIsKept DEF AnswerKeeps
  <2>. QED BY <1>2, <1>3, <2>1, <2>2
<1>4. ASSUME Answer(slot, [kind |-> "Authority",
                           authority |-> Authority(tasks[t], attempts[t][g], g, now)])
      PROVE  SoundStep
  <2>1. PICK a, r : a = Authority(tasks[t], attempts[t][g], g, now)
                    /\ r = [kind |-> "Authority", authority |-> a]
    OBVIOUS
  <2>2. /\ a \in AuthorityRec
        /\ a.dispatch_allowed => attempts[t][g].started
        /\ ~a.cancel_requested /\ a.remaining > 0 =>
              Promised(t, g, w.exchange.started + a.remaining)
    BY <1>1, <2>1, AnswersAreSound DEF AnswersSound, AnswerSound
  <2>3. r \in Reply /\ r.authority = a
    BY <2>1, <2>2 DEF Reply, GrantReply
  <2>4. Good(slot, Answered(w, r))
    BY <1>1, <2>2, <2>3, AnswerIsKept DEF AnswerKeeps
  <2>. QED BY <1>2, <1>4, <2>1, <2>3, <2>4
<1>. QED BY <1>0, <1>3, <1>4 DEF ServeRenewReplay, AttemptOf

(* A renewal is served: the lease grows and the answer says how far.       *)
LEMMA ServeRenewSound ==
    ASSUME WInv, NEW slot \in Slot, ServeRenew(slot)
    PROVE  SoundStep
<1>0. PICK w, t, g : w = workers[slot] /\ t = TaskOf(slot) /\ g = GenOf(slot)
  OBVIOUS
<1>1. /\ Good(slot, w) /\ w.monitoring /\ w \in Worker /\ now \in Nat /\ StoreInv
      /\ t = w.attempt[1] /\ g = w.attempt[2] /\ t \in Tasks /\ g \in Generation
      /\ w.exchange.started \in Nat /\ w.exchange.started =< now
      /\ Local(w) /\ w.stage # "Idle" /\ Backed(slot, t, g, w)
  BY <1>0, MonitoredStage, WorkerTypes DEF ServeRenew, WInv, Good, Local, TaskOf, GenOf,
     StoreInv, Safety, Structure, TypeOK
<1>2. w.command.intent \in {"Dispatch", "KeepAlive"}
  BY <1>1 DEF Local, Worker, Command, RenewIntent
<1>3. Renew(t, g, w.command.intent)
  BY <1>0 DEF ServeRenew
<1>4. [Next]_vars /\ now' = now
  <2>1. Next BY <1>1, <1>2, <1>3 DEF Next
  <2>2. now' = now BY <1>3 DEF Renew
  <2>. QED BY <2>1, <2>2
<1>5. \A u \in Tasks, h \in Generation : attempts[u][h].state # "None" => Undisturbed(u, h)
  BY <1>1, <1>2, <1>3, RenewUndisturbs
<1>6. StoreInv' /\ now =< now'
  BY <1>1, <1>4, NextStoreInv
<1>7. Good(slot, w)'
  <2>1. Undisturbed(t, g)
    BY <1>1, <1>5 DEF Backed
  <2>2. MayStillRun(w) => now' =< w.tracker.deadline + MaxLag /\ now' =< w.control_deadline + MaxLag
    BY <1>1, <1>4 DEF Local
  <2>. QED BY <1>1, <1>6, <2>1, <2>2, GoodStands
<1>8. PICK a, r : a = Authority(tasks'[t], attempts'[t][g], g, now)
                  /\ r = [kind |-> "Authority", authority |-> a]
  OBVIOUS
<1>9. AnswersSound'
  BY <1>6, AnswersAreSound, PTL
<1>10. /\ a \in AuthorityRec
       /\ a.dispatch_allowed => attempts'[t][g].started
       /\ ~a.cancel_requested /\ a.remaining > 0 =>
             Promised(t, g, w.exchange.started + a.remaining)'
  <2>1. AnswerSound(t, g)'
    BY <1>1, <1>9 DEF AnswersSound
  <2>2. a = Authority(tasks'[t], attempts'[t][g], g, now')
    BY <1>4, <1>8
  <2>. QED BY <1>1, <1>4, <2>1, <2>2 DEF AnswerSound
<1>11. r \in Reply /\ r.authority = a /\ r.kind = "Authority"
  BY <1>8, <1>10 DEF Reply, GrantReply
<1>12. AnswerKeeps'
  BY AnswerIsKept, PTL
<1>13. PICK v : v = Answered(w, r)
  OBVIOUS
<1>14. Good(slot, v)'
  BY <1>1, <1>7, <1>10, <1>11, <1>12, <1>13 DEF AnswerKeeps
<1>15. Update(slot, v)
  BY <1>0, <1>8, <1>13 DEF ServeRenew, Answer, Answered
<1>16. Stays(workers[slot], v)
  BY <1>0, <1>1, <1>11, <1>13, AnsweredStays
<1>17. attempts[t][g].owner = slot
  BY <1>1 DEF Backed
<1>. QED BY <1>1, <1>4, <1>5, <1>14, <1>15, <1>16, <1>17, JointStep DEF ServeRenew

-----------------------------------------------------------------------------
(* A report freezes what the worker will repeat.                           *)
LEMMA ReportGood ==
    ASSUME NEW slot, NEW w, Good(slot, w), w.stage \in Working, w.phase # "Awaiting",
           NEW outcome \in Outcome, NEW started \in BOOLEAN, NEW q \in Quiescence,
           NEW v, v = Report(w, outcome, started, q)
    PROVE  Good(slot, v) /\ Stays(w, v)
<1>1. /\ w \in Worker /\ Local(w) /\ Backed(slot, w.attempt[1], w.attempt[2], w)
      /\ w.stage \notin {"Idle", "Claimed"}
  BY DEF Good, Working
<1>2. PICK s : s = [outcome |-> outcome, may_have_started |-> started, quiescence |-> q]
  OBVIOUS
<1>3. s \in Settlement /\ s.outcome = outcome
  BY <1>2 DEF Settlement
<1>4. v = [w EXCEPT !.stage = "Reporting", !.quiescent = (q = "Confirmed"), !.settle = s]
  BY <1>2 DEF Report
<1>5. /\ v \in Worker /\ v.stage = "Reporting" /\ v.attempt = w.attempt
      /\ v.consumed = w.consumed /\ v.monitoring = w.monitoring /\ v.command = w.command
      /\ v.settle = s /\ v.tracker = w.tracker /\ v.phase = w.phase
      /\ v.ready = w.ready /\ v.control_deadline = w.control_deadline /\ v.exchange = w.exchange
  BY <1>1, <1>3, <1>4 DEF Worker, Stage
<1>6. Local(v)
  BY <1>1, <1>3, <1>5 DEF Local, MayStillRun
<1>7. Backed(slot, w.attempt[1], w.attempt[2], v)
  BY <1>1, <1>3, <1>5 DEF Backed, Working
<1>. QED BY <1>5, <1>6, <1>7 DEF Good, Stays

(* Monitor::dispatch.                                                      *)
LEMMA DispatchSound ==
    ASSUME WInv, NEW slot \in Slot, Dispatch(slot)
    PROVE  SoundStep
<1>1. PICK w : w = CheckPermission(workers[slot], Stopping(slot))
  OBVIOUS
<1>2. /\ Good(slot, w) /\ Eases(workers[slot], w) /\ now \in Nat /\ StoreInv
      /\ w.stage = "Waiting" /\ workers[slot].stage = "Waiting" /\ w \in Worker /\ Local(w)
      /\ workers[slot].consumed = w.consumed
  BY <1>1, Checked DEF Dispatch, Eases, Carries, Good, WInv
<1>3. PICK seen : seen = [w EXCEPT !.tracker = ObserveLease(@, now)]
  OBVIOUS
<1>4. /\ w.phase # "Stopped" => w.ready
      /\ \/ /\ w.phase # "Stopped" /\ w.ready /\ MayDispatch(seen.tracker) /\ ControlOK(w)
            /\ Update(slot, [seen EXCEPT !.consumed = TRUE, !.stage = "Prepared"])
         \/ Update(slot, Report(StopPermission(seen), "Retryable", FALSE, "Confirmed"))
  BY <1>1, <1>3 DEF Dispatch
<1>5. w.phase # "Awaiting"
  BY <1>2, <1>4 DEF Local
<1>6. /\ Eases(w, seen) /\ Good(slot, seen) /\ seen \in Worker /\ seen.stage = "Waiting"
      /\ Eases(workers[slot], seen)
  <2>1. Eases(w, seen)
    BY <1>2, <1>3, <1>5, ObserveWorker
  <2>2. seen \in Worker /\ seen.stage = "Waiting"
    BY <1>2, <2>1 DEF Eases, Carries
  <2>. QED BY <1>2, <2>1, <2>2, EasesGood, EasesTwice
<1>7. ASSUME w.phase # "Stopped", w.ready, MayDispatch(seen.tracker), ControlOK(w),
             NEW v, v = [seen EXCEPT !.consumed = TRUE, !.stage = "Prepared"]
      PROVE  Good(slot, v) /\ Stays(workers[slot], v)
  <2>1. /\ seen.tracker.state = "Active" /\ seen.tracker.dispatch_allowed
        /\ seen.tracker.deadline \in Nat /\ Local(seen)
        /\ Backed(slot, seen.attempt[1], seen.attempt[2], seen)
    BY <1>6, <1>7, WorkerTypes DEF MayDispatch, Good
  <2>2. /\ v \in Worker /\ v.stage = "Prepared" /\ v.attempt = seen.attempt
        /\ v.consumed /\ v.monitoring = seen.monitoring /\ v.command = seen.command
        /\ v.settle = seen.settle /\ v.tracker = seen.tracker /\ v.phase = seen.phase
        /\ v.ready = seen.ready /\ v.control_deadline = seen.control_deadline
        /\ v.exchange = seen.exchange
    BY <1>6, <1>7 DEF Worker, Stage
  <2>3. now < seen.tracker.deadline
    <3>1. PICK y : y = ObserveLease(w.tracker, now)
      OBVIOUS
    <3>2. seen.tracker = y
      BY <1>2, <1>3, <3>1 DEF Worker
    <3>3. y.state = "Active" => y = w.tracker /\ now < w.tracker.deadline
      BY <1>2, <3>1, WorkerTypes, ObserveEases DEF StoppedLease
    <3>. QED BY <2>1, <3>2, <3>3
  <2>4. now < seen.control_deadline /\ seen.control_deadline \in Nat
    BY <1>6, <1>7, WorkerTypes DEF ControlOK, Eases
  <2>5. /\ now =< v.tracker.deadline + MaxLag /\ now =< v.control_deadline + MaxLag
        /\ v.tracker.deadline > 0
    BY <1>2, <2>1, <2>2, <2>3, <2>4, LagAssumption
  <2>6. seen.phase = "Confirmed" \/ seen.phase = "Stopped"
    BY <1>2, <1>5, <1>6 DEF Eases, Worker
  <2>7. Local(v)
    BY <1>6, <2>1, <2>2, <2>5, <2>6 DEF Local
  <2>8. Backed(slot, seen.attempt[1], seen.attempt[2], v)
    BY <1>6, <2>1, <2>2 DEF Backed, Working
  <2>9. ~workers[slot].consumed
    BY <1>2 DEF Local
  <2>10. Stays(workers[slot], seen)
    BY <1>6, EasesStays
  <2>. QED BY <1>2, <1>6, <2>2, <2>7, <2>8, <2>9, <2>10 DEF Good, Stays
<1>8. ASSUME NEW v, v = Report(StopPermission(seen), "Retryable", FALSE, "Confirmed")
      PROVE  Good(slot, v) /\ Stays(workers[slot], v)
  <2>1. PICK s : s = StopPermission(seen)
    OBVIOUS
  <2>2. Eases(seen, s) /\ s.phase = "Stopped"
    BY <1>6, <2>1, StopPermissionEases
  <2>3. Good(slot, s) /\ s.stage = "Waiting" /\ Eases(workers[slot], s)
    BY <1>2, <1>6, <2>2, EasesGood, EasesTwice DEF Eases, Carries
  <2>4. Good(slot, v) /\ Stays(s, v)
    BY <1>8, <2>1, <2>2, <2>3, ReportGood DEF Working, Outcome, Quiescence
  <2>5. Stays(workers[slot], s)
    BY <2>3, EasesStays
  <2>6. v.stage = "Reporting"
    <3>1. s \in Worker
      BY <2>3 DEF Good
    <3>. QED BY <1>8, <2>1, <3>1 DEF Report, Worker
  <2>7. \* the permission was stopped before the report
        v.phase = s.phase /\ v.tracker = s.tracker /\ v.control_deadline = s.control_deadline
    <3>1. s \in Worker
      BY <2>3 DEF Good
    <3>. QED BY <1>8, <2>1, <3>1 DEF Report, Worker
  <2>. QED BY <2>3, <2>4, <2>5, <2>6, <2>7 DEF Stays
<1>. QED BY <1>4, <1>7, <1>8, OwnStep DEF Dispatch, WInv

(* Reservation::execute starts user code.                                  *)
LEMMA StartSound ==
    ASSUME WInv, NEW slot \in Slot, StartWork(slot)
    PROVE  SoundStep
<1>0. PICK w, v : w = workers[slot] /\ v = [w EXCEPT !.stage = "Running"]
  OBVIOUS
<1>1. /\ w \in Worker /\ Local(w) /\ Backed(slot, w.attempt[1], w.attempt[2], w)
      /\ w.stage = "Prepared" /\ w.phase = "Confirmed" /\ Update(slot, v)
  BY <1>0 DEF WInv, Good, StartWork, ControlOK
<1>2. /\ v \in Worker /\ v.stage = "Running" /\ v.attempt = w.attempt
      /\ v.consumed = w.consumed /\ v.monitoring = w.monitoring /\ v.command = w.command
      /\ v.settle = w.settle /\ v.tracker = w.tracker /\ v.phase = w.phase
      /\ v.ready = w.ready /\ v.control_deadline = w.control_deadline /\ v.exchange = w.exchange
  BY <1>0, <1>1 DEF Worker, Stage
<1>3. Local(v)
  BY <1>1, <1>2 DEF Local, MayStillRun
<1>4. Backed(slot, w.attempt[1], w.attempt[2], v)
  BY <1>1, <1>2 DEF Backed, Working
<1>5. Good(slot, v) /\ Stays(workers[slot], v)
  BY <1>0, <1>2, <1>3, <1>4 DEF Good, Stays
<1>. QED BY <1>1, <1>5, OwnStep DEF StartWork, WInv

(* User code never starts, or ends.                                        *)
LEMMA EndSound ==
    ASSUME WInv, NEW slot \in Slot, FailStart(slot) \/ EndWork(slot)
    PROVE  SoundStep
<1>1. PICK outcome \in Outcome, started \in BOOLEAN, q \in Quiescence :
        Update(slot, Report(workers[slot], outcome, started, q)) /\ stopping' \subseteq Sessions
  BY DEF FailStart, EndWork, StopIfUnconfirmed, WInv, Slot, SessionOf, Outcome, Quiescence
<1>2. /\ Good(slot, workers[slot]) /\ workers[slot].stage \in Working
      /\ workers[slot].phase # "Awaiting"
  BY DEF WInv, Good, Local, FailStart, EndWork, Working
<1>3. PICK w, v : w = workers[slot] /\ v = Report(w, outcome, started, q)
  OBVIOUS
<1>4. Good(slot, v) /\ Stays(workers[slot], v)
  BY <1>2, <1>3, ReportGood
<1>. QED BY <1>1, <1>3, <1>4, OwnStep DEF FailStart, EndWork

(* The worker learns what became of its report.                            *)
LEMMA ReceiveSettleSound ==
    ASSUME WInv, NEW slot \in Slot, ReceiveSettle(slot)
    PROVE  SoundStep
<1>0. PICK w, t, g : w = workers[slot] /\ t = w.attempt[1] /\ g = w.attempt[2]
  OBVIOUS
<1>1. /\ w \in Worker /\ Local(w) /\ Backed(slot, t, g, w) /\ w.stage = "Reporting"
      /\ AttemptOf(slot) = attempts[t][g]
  BY <1>0 DEF WInv, Good, ReceiveSettle, AttemptOf, TaskOf, GenOf
<1>2. PICK stage \in {"Accepted", "Lost"} :
        /\ Update(slot, [w EXCEPT !.stage = stage])
        /\ stage = "Accepted" => attempts[t][g].settlement # NoReport
        /\ stage = "Lost" => attempts[t][g].settlement = NoReport
  BY <1>0, <1>1 DEF ReceiveSettle
<1>3. PICK v : v = [w EXCEPT !.stage = stage]
  OBVIOUS
<1>4. /\ v \in Worker /\ v.stage = stage /\ v.attempt = w.attempt
      /\ v.consumed = w.consumed /\ v.monitoring = w.monitoring /\ v.command = w.command
      /\ v.settle = w.settle /\ v.tracker = w.tracker /\ v.phase = w.phase
      /\ v.ready = w.ready /\ v.control_deadline = w.control_deadline /\ v.exchange = w.exchange
  BY <1>1, <1>3 DEF Worker, Stage
<1>5. Local(v)
  BY <1>1, <1>2, <1>4 DEF Local, MayStillRun
<1>6. Backed(slot, t, g, v)
  BY <1>1, <1>2, <1>4 DEF Backed, Working
<1>7. Good(slot, v) /\ Stays(workers[slot], v)
  BY <1>0, <1>2, <1>4, <1>5, <1>6 DEF Good, Stays
<1>. QED BY <1>2, <1>3, <1>7, OwnStep DEF ReceiveSettle, WInv

(* Cleanup finishes.                                                       *)
LEMMA QuiesceSound ==
    ASSUME WInv, NEW slot \in Slot, Quiesce(slot)
    PROVE  SoundStep
<1>0. PICK w, v : w = workers[slot] /\ v = [w EXCEPT !.quiescent = TRUE]
  OBVIOUS
<1>1. /\ w \in Worker /\ Good(slot, w) /\ w.stage \in {"Reporting", "Accepted", "Lost"}
      /\ Update(slot, v)
  BY <1>0 DEF WInv, Good, Quiesce
<1>2. /\ v \in Worker /\ v.stage = w.stage /\ v.attempt = w.attempt
      /\ v.consumed = w.consumed /\ v.monitoring = w.monitoring /\ v.command = w.command
      /\ v.settle = w.settle /\ v.tracker = w.tracker /\ v.phase = w.phase
      /\ v.ready = w.ready /\ v.control_deadline = w.control_deadline /\ v.exchange = w.exchange
  BY <1>0, <1>1 DEF Worker
<1>3. Eases(w, v)
  BY <1>1, <1>2, WorkerTypes DEF Eases, Carries, Eased
<1>4. Good(slot, v) /\ Stays(workers[slot], v)
  BY <1>0, <1>1, <1>3, EasesGood, EasesStays DEF WInv
<1>. QED BY <1>1, <1>4, OwnStep DEF Quiesce, WInv

-----------------------------------------------------------------------------
(* acquire: the claimed attempt is the slot's.                             *)
LEMMA AcquireSound ==
    ASSUME WInv, NEW slot \in Slot, NEW t \in Tasks, Acquire(slot, t)
    PROVE  SoundStep
<1>0. PICK g : g = tasks[t].attempt_count + 1
  OBVIOUS
<1>1. PICK v : v = [IdleWorker EXCEPT !.stage = "Claimed", !.attempt = <<t, g>>]
  OBVIOUS
<1>2. /\ StoreInv /\ AcquireTask(slot, t) /\ Update(slot, v) /\ UNCHANGED stopping
      /\ workers[slot].stage = "Idle" /\ now \in Nat
  BY <1>0, <1>1 DEF Acquire, WInv, StoreInv, Safety, Structure, TypeOK
<1>3. /\ g \in Generation /\ attempts[t][g] = AbsentAttempt /\ now' = now
      /\ attempts'[t][g] = ClaimedAttempt(slot, sessions[SessionOf(slot)], now)
  BY <1>0, <1>2, AcquireEffect DEF StoreInv, Safety
<1>4. [Next]_vars
  BY <1>2 DEF Next
<1>5. \A u \in Tasks, h \in Generation : attempts[u][h].state # "None" => Undisturbed(u, h)
  BY <1>2, AcquireUndisturbs
<1>6. attempts[t][g].state = "None"
  BY <1>3 DEF AbsentAttempt
<1>7. /\ attempts'[t][g].state = "Active" /\ attempts'[t][g].owner = slot
      /\ attempts'[t][g].settlement = NoReport
  BY <1>3 DEF ClaimedAttempt
<1>8. IdleWorker \in Worker /\ Local(IdleWorker) /\ IdleWorker.stage = "Idle"
  BY <1>2, IdleGood DEF Good, IdleWorker
<1>9. PICK i : i = IdleWorker
  OBVIOUS
<1>10. /\ v \in Worker /\ v.stage = "Claimed" /\ v.attempt = <<t, g>>
       /\ v.consumed = i.consumed /\ v.monitoring = i.monitoring /\ v.command = i.command
       /\ v.settle = i.settle /\ v.tracker = i.tracker /\ v.phase = i.phase
       /\ v.ready = i.ready /\ v.control_deadline = i.control_deadline /\ v.exchange = i.exchange
  <2>1. v = [i EXCEPT !.stage = "Claimed", !.attempt = <<t, g>>] /\ i \in Worker
    BY <1>1, <1>8, <1>9
  <2>. QED BY <1>3, <2>1 DEF Worker, Stage
<1>11. i.phase = "Stopped"
  BY <1>9 DEF IdleWorker
<1>12. Local(v)'
  BY <1>2, <1>3, <1>8, <1>9, <1>10, <1>11 DEF Local, MayStillRun
<1>13. /\ i.tracker = NewTracker /\ i.exchange = NoExchange
  BY <1>8, <1>9 DEF Local
<1>14. Backed(slot, t, g, v)'
  BY <1>7, <1>10, <1>13 DEF Backed, Working, NewTracker, NoExchange, NoReply
<1>15. Good(slot, v)'
  BY <1>10, <1>12, <1>14 DEF Good
<1>16. Stays(workers[slot], v)
  BY <1>2 DEF Stays
<1>. QED BY <1>2, <1>3, <1>4, <1>5, <1>6, <1>15, <1>16, JointStep

(* The attempt a worker reports on.                                        *)
LEMMA ReportedRow ==
    ASSUME WInv, NEW slot \in Slot, workers[slot].stage \in {"Reporting", "Accepted"},
           UNCHANGED workers,
           NEW w, w = workers[slot], NEW t, t = TaskOf(slot), NEW g, g = GenOf(slot)
    PROVE  /\ StoreInv /\ w \in Worker /\ Local(w) /\ t \in Tasks /\ g \in Generation
           /\ t = w.attempt[1] /\ g = w.attempt[2] /\ Backed(slot, t, g, w)
           /\ w.settle.outcome \in Outcome /\ w.settle.may_have_started \in BOOLEAN
           /\ w.settle.quiescence \in Quiescence
           /\ attempts[t][g].owner = slot /\ Update(slot, w)
<1>1. /\ StoreInv /\ w \in Worker /\ Local(w) /\ t = w.attempt[1] /\ g = w.attempt[2]
      /\ workers \in [Slot -> Worker]
  BY DEF WInv, Good, TaskOf, GenOf
<1>2. t \in Tasks /\ g \in Generation /\ w.settle.outcome \in Outcome
  BY <1>1 DEF Local
<1>3. Backed(slot, t, g, w)
  BY <1>1 DEF WInv, Good
<1>4. w.settle.may_have_started \in BOOLEAN /\ w.settle.quiescence \in Quiescence
  BY <1>1 DEF Worker, Settlement
<1>5. [workers EXCEPT ![slot] = w] = workers
  BY <1>1
<1>. QED BY <1>1, <1>2, <1>3, <1>4, <1>5 DEF Backed, Update

(* settle and confirm_quiescence, whenever the store serves them.          *)
LEMMA ServeSettleSound ==
    ASSUME WInv, NEW slot \in Slot, ServeSettle(slot) \/ ServeConfirm(slot)
    PROVE  SoundStep
<1>0. PICK w, t, g : w = workers[slot] /\ t = TaskOf(slot) /\ g = GenOf(slot)
  OBVIOUS
<1>1. workers[slot].stage \in {"Reporting", "Accepted"} /\ UNCHANGED <<workers, stopping>>
  BY DEF ServeSettle, ServeConfirm
<1>2. /\ StoreInv /\ w \in Worker /\ Local(w) /\ t \in Tasks /\ g \in Generation
      /\ t = w.attempt[1] /\ g = w.attempt[2] /\ Backed(slot, t, g, w)
      /\ w.settle.outcome \in Outcome /\ w.settle.may_have_started \in BOOLEAN
      /\ w.settle.quiescence \in Quiescence
      /\ attempts[t][g].owner = slot /\ Update(slot, w)
  BY <1>0, <1>1, ReportedRow
<1>3. CASE ServeSettle(slot)
  <2>1. Settle(t, g, w.settle.outcome, w.settle.may_have_started, w.settle.quiescence)
        /\ w.stage = "Reporting"
    BY <1>0, <1>3 DEF ServeSettle
  <2>2. [Next]_vars
    BY <1>2, <2>1 DEF Next
  <2>3. /\ Lasts(t, g) /\ attempts'[t][g].settlement = w.settle.outcome /\ now' = now
        /\ \A u \in Tasks, h \in Generation :
              attempts[u][h].state # "None" /\ (u # t \/ h # g) => Undisturbed(u, h)
    BY <1>2, <2>1, SettleLasts
  <2>4. Local(w)'
    BY <1>2, <2>3 DEF Local, MayStillRun
  <2>5. Backed(slot, t, g, w)'
    BY <1>2, <2>1, <2>3 DEF Backed, Lasts, Working
  <2>6. Good(slot, w)' /\ Stays(workers[slot], w)
    BY <1>0, <1>2, <2>4, <2>5 DEF Good, Stays
  <2>. QED BY <1>1, <1>2, <2>2, <2>3, <2>6, JointStep
<1>4. CASE ServeConfirm(slot)
  <2>1. ConfirmQuiescence(t, g) /\ w.stage = "Accepted"
    BY <1>0, <1>4 DEF ServeConfirm
  <2>2. [Next]_vars
    BY <1>2, <2>1 DEF Next
  <2>3. /\ Lasts(t, g) /\ attempts'[t][g].settlement = attempts[t][g].settlement /\ now' = now
        /\ \A u \in Tasks, h \in Generation :
              attempts[u][h].state # "None" /\ (u # t \/ h # g) => Undisturbed(u, h)
    BY <1>2, <2>1, ConfirmLasts
  <2>4. Local(w)'
    BY <1>2, <2>3 DEF Local, MayStillRun
  <2>5. Backed(slot, t, g, w)'
    BY <1>2, <2>1, <2>3 DEF Backed, Lasts, Working
  <2>6. Good(slot, w)' /\ Stays(workers[slot], w)
    BY <1>0, <1>2, <2>4, <2>5 DEF Good, Stays
  <2>. QED BY <1>1, <1>2, <2>2, <2>3, <2>6, JointStep
<1>. QED BY <1>3, <1>4

(* Every other step of the store, and the passing of time.                 *)
LEMMA ServerSound ==
    ASSUME WInv,
           \/ WTick \/ Server
           \/ \E s \in Sessions : MaintainSession(s)
           \/ \E slot \in Slot : AcquireNothing(slot)
    PROVE  SoundStep
<1>1. StoreInv /\ now \in Nat /\ UNCHANGED <<workers, stopping>>
  BY DEF WInv, StoreInv, Safety, Structure, TypeOK, WTick, Server, MaintainSession, AcquireNothing
<1>2. \/ Tick \/ \E s \in Sessions : OpenSession(s) \/ ExtendSession(s)
      \/ \E slot \in Slot : AcquireEmpty(slot)
      \/ \E t \in Tasks : Submit(t) \/ Cancel(t) \/ Expire(t)
  BY DEF WTick, Server, MaintainSession, AcquireNothing
<1>3. [Next]_vars
  BY <1>2 DEF Next
<1>4. ASSUME NEW u \in Tasks, NEW g \in Generation, attempts[u][g].state # "None"
      PROVE  Undisturbed(u, g)
  <2>1. ASSUME NEW t \in Tasks, Cancel(t) PROVE Undisturbed(u, g)
    BY <1>1, <1>4, <2>1, CancelUndisturbs
  <2>2. ASSUME NEW t \in Tasks, Expire(t) PROVE Undisturbed(u, g)
    BY <1>1, <1>4, <2>2, ExpireUndisturbs
  <2>3. CASE \/ Tick
             \/ \E s \in Sessions : OpenSession(s) \/ ExtendSession(s)
             \/ \E slot \in Slot : AcquireEmpty(slot)
             \/ \E t \in Tasks : Submit(t)
    BY <1>1, <1>4, <2>3, QuietUndisturbs
  <2>. QED BY <1>2, <2>1, <2>2, <2>3
<1>5. ASSUME NEW slot \in Slot, MayStillRun(workers[slot])
      PROVE  /\ now' =< workers[slot].tracker.deadline + MaxLag
             /\ now' =< workers[slot].control_deadline + MaxLag
  <2>1. PICK d, c : d = workers[slot].tracker.deadline /\ c = workers[slot].control_deadline
    OBVIOUS
  <2>2. d \in Nat /\ c \in Nat /\ now =< d + MaxLag /\ now =< c + MaxLag /\ MaxLag \in Nat
    BY <1>5, <2>1, WorkerTypes, LagAssumption DEF WInv, Good, Local
  <2>3. CASE now' = now
    BY <2>1, <2>2, <2>3
  <2>4. CASE WTick
    <3>1. now < Earlier(d, c) + MaxLag /\ now' = now + 1
      BY <1>5, <2>1, <2>4 DEF WTick, Permitted, Tick
    <3>2. now + 1 =< d + MaxLag /\ now + 1 =< c + MaxLag
      BY <1>1, <2>2, <3>1 DEF Earlier
    <3>. QED BY <2>1, <3>1, <3>2
  <2>5. WTick \/ now' = now
    BY DEF Server, MaintainSession, AcquireNothing, OpenSession, ExtendSession, AcquireEmpty,
           Submit, Cancel, Expire
  <2>. QED BY <2>3, <2>4, <2>5
<1>. QED BY <1>1, <1>3, <1>4, <1>5, QuietStep

(* A worker starts to shut down, or nothing happens.                       *)
LEMMA StopSound ==
    ASSUME WInv, (\E s \in Sessions : StopWorker(s)) \/ UNCHANGED wvars
    PROVE  SoundStep
<1>1. /\ UNCHANGED vars /\ UNCHANGED workers /\ stopping' \subseteq Sessions
      /\ tasks' = tasks /\ attempts' = attempts /\ now' = now
  BY DEF StopWorker, ServerUnchanged, wvars, vars, WInv
<1>2. StoreInv' /\ now \in Nat
  BY <1>1, NextStoreInv DEF WInv, StoreInv, Safety, Structure, TypeOK
<1>3. ASSUME NEW s \in Slot PROVE Good(s, workers[s])'
  <2>0. PICK w : w = workers[s]
    OBVIOUS
  <2>1. Good(s, w)
    BY <2>0 DEF WInv
  <2>2. w.stage # "Idle" => Undisturbed(w.attempt[1], w.attempt[2])
    BY <1>1, <1>2, <2>1, OtherRow DEF Good, Local, Backed
  <2>3. Good(s, w)'
    BY <1>1, <1>2, <2>1, <2>2, GoodStands DEF WInv, Good, Local
  <2>. QED BY <1>1, <2>0, <2>3
<1>. QED BY <1>1, <1>2, <1>3 DEF SoundStep, WInv, Stays

-----------------------------------------------------------------------------
(* The invariant holds at first.                                           *)
LEMMA InitWInv == WInit => WInv
<1>. SUFFICES ASSUME WInit PROVE WInv
  OBVIOUS
<1>1. Safety /\ now = 1
  BY InitSafety DEF WInit, Init
<1>2. LeaseShort
  <2>1. \A t \in Tasks, g \in Generation : attempts[t][g].state = "None"
    BY DEF WInit, Init, AbsentAttempt
  <2>. QED BY <2>1 DEF LeaseShort
<1>3. StoreInv
  BY <1>1, <1>2 DEF StoreInv
<1>. QED BY <1>3, IdleGood DEF WInv, WInit

(* Every step keeps the invariant.                                         *)
LEMMA NextWInv == WInv /\ [WNext]_wvars => SoundStep
<1>. SUFFICES ASSUME WInv, [WNext]_wvars PROVE SoundStep
  OBVIOUS
<1>1. ASSUME NEW slot \in Slot, NEW t \in Tasks, Acquire(slot, t) PROVE SoundStep
  BY <1>1, AcquireSound
<1>2. ASSUME NEW slot \in Slot, Release(slot) \/ DeliverLost(slot) PROVE SoundStep
  BY <1>2, ReleaseSound
<1>3. ASSUME NEW slot \in Slot, Deliver(slot) \/ Check(slot) \/ SendRenew(slot) PROVE SoundStep
  BY <1>3, DeliverSound, CheckSound, SendSound
<1>4. ASSUME NEW slot \in Slot,
             ServeRenew(slot) \/ ServeRenewReplay(slot) \/ ReceiveRenew(slot) \/ AbandonExchange(slot)
      PROVE  SoundStep
  BY <1>4, ServeRenewSound, ReplaySound, ReceiveRenewSound, AbandonSound
<1>5. ASSUME NEW slot \in Slot,
             Dispatch(slot) \/ StartWork(slot) \/ FailStart(slot) \/ EndWork(slot)
      PROVE  SoundStep
  BY <1>5, DispatchSound, StartSound, EndSound
<1>6. ASSUME NEW slot \in Slot,
             ServeSettle(slot) \/ ReceiveSettle(slot) \/ Quiesce(slot) \/ ServeConfirm(slot)
      PROVE  SoundStep
  BY <1>6, ServeSettleSound, ReceiveSettleSound, QuiesceSound
<1>7. CASE \/ WTick \/ Server \/ \E s \in Sessions : MaintainSession(s)
           \/ \E slot \in Slot : AcquireNothing(slot)
  BY <1>7, ServerSound
<1>8. CASE (\E s \in Sessions : StopWorker(s)) \/ UNCHANGED wvars
  BY <1>8, StopSound
<1>. QED BY <1>1, <1>2, <1>3, <1>4, <1>5, <1>6, <1>7, <1>8 DEF WNext

(* The inductive invariant of the workers and the store together.          *)
THEOREM WorkerInvariant == WSpec => []WInv
<1>1. WInv /\ [WNext]_wvars => WInv'
  BY NextWInv DEF SoundStep
<1>. QED BY <1>1, InitWInv, PTL DEF WSpec

(* The workers drive the store: each of their steps, with every exchange   *)
(* lost, repeated or late, is a step of TaskLifecycle or leaves it alone,  *)
(* so that every theorem about the store holds under these clients.        *)
THEOREM DrivesTheStore == WSpec => Spec
<1>1. WInit => Init
  BY DEF WInit
<1>2. WInv /\ [WNext]_wvars => [Next]_vars
  BY NextWInv DEF SoundStep
<1>. QED BY <1>1, <1>2, WorkerInvariant, PTL DEF WSpec, Spec

(* WorkIsPermitted: user code runs only as the store's single attempt of   *)
(* its task, under a lease still held unless the task was cancelled, with  *)
(* its start recorded, and stops soon after a cancellation (Monitor and    *)
(* Permission of renewal.rs over core LeaseTracker).                       *)
THEOREM WorkIsPermittedCorrect == WSpec => []WorkIsPermitted
<1>1. WInv => WorkIsPermitted
  <2>. SUFFICES ASSUME WInv PROVE WorkIsPermitted
    OBVIOUS
  <2>1. WTypeOK
    <3>1. ASSUME NEW slot \in Slot, NEW w, w = workers[slot]
          PROVE  /\ w.stage \in Stage
                 /\ w.stage # "Idle" => w.attempt \in Tasks \X Generation
                 /\ w.phase \in {"Awaiting", "Confirmed", "Stopped"}
                 /\ w.tracker \in Tracker
                 /\ w.command.intent \in RenewIntent
                 /\ w.exchange.reply.kind \in {"None", "OwnershipLost", "SessionExpired", "Authority"}
      <4>1. w \in Worker /\ Local(w)
        BY <3>1 DEF WInv, Good
      <4>2. w.exchange.reply.kind \in {"None", "OwnershipLost", "SessionExpired", "Authority"}
        BY <4>1, WorkerTypes DEF Reply, GrantReply, NoReply, Refused, Expired
      <4>. QED BY <4>1, <4>2 DEF Worker, Local, Command
    <3>. QED BY <3>1 DEF WTypeOK, WInv
  <2>2. ASSUME NEW slot \in Slot, workers[slot].stage = "Running"
        PROVE  /\ tasks[TaskOf(slot)].attempt_count = GenOf(slot)
               /\ ~CancelRequested(tasks[TaskOf(slot)]) =>
                      /\ AttemptOf(slot).state = "Active"
                      /\ now < AttemptOf(slot).expires_at
               /\ CancelRequested(tasks[TaskOf(slot)]) =>
                      now =< tasks[TaskOf(slot)].cancel_requested_at
                                 + LeaseDuration - SafetyMargin + MaxLag
    <3>0. PICK w, t, g, d : /\ w = workers[slot] /\ t = w.attempt[1] /\ g = w.attempt[2]
                            /\ d = w.tracker.deadline
      OBVIOUS
    <3>1. /\ w \in Worker /\ Local(w) /\ Backed(slot, t, g, w) /\ w.stage = "Running" /\ StoreInv
          /\ TaskOf(slot) = t /\ GenOf(slot) = g /\ AttemptOf(slot) = attempts[t][g]
      BY <2>2, <3>0 DEF WInv, Good, TaskOf, GenOf, AttemptOf
    <3>2. /\ t \in Tasks /\ g \in Generation /\ d \in Nat /\ d > 0 /\ now =< d + MaxLag
          /\ Promised(t, g, d + SafetyMargin)
      BY <3>0, <3>1, WorkerTypes DEF Local, MayStillRun, Backed, Working
    <3>3. /\ now \in Nat /\ LeaseDuration \in Nat /\ tasks[t].cancel_requested_at \in Nat
          /\ attempts[t][g].expires_at \in Nat
      BY <3>1, <3>2, RowTypes DEF StoreInv, Task
    <3>4. now < d + SafetyMargin
      BY <3>2, <3>3, LagAssumption, MarginAssumption
    <3>5. /\ tasks[t].attempt_count = g
          /\ ~CancelRequested(tasks[t]) =>
                attempts[t][g].state = "Active" /\ d + SafetyMargin =< attempts[t][g].expires_at
      BY <3>2, <3>4 DEF Promised, Covered
    <3>6. d + SafetyMargin =< attempts[t][g].expires_at => now < attempts[t][g].expires_at
      BY <3>2, <3>3, <3>4, MarginAssumption
    <3>7. ASSUME CancelRequested(tasks[t])
          PROVE  now =< tasks[t].cancel_requested_at + LeaseDuration - SafetyMargin + MaxLag
      <4>1. d + SafetyMargin =< tasks[t].cancel_requested_at + LeaseDuration
        BY <3>2, <3>7 DEF Promised
      <4>. QED BY <3>2, <3>3, <4>1, LagAssumption, MarginAssumption
    <3>. QED BY <3>1, <3>5, <3>6, <3>7
  <2>3. ExclusiveWork /\ CancelStopsWork
    BY <2>2 DEF ExclusiveWork, CancelStopsWork
  <2>4. WorkIsRecorded
    BY DEF WInv, Good, Backed, WorkIsRecorded, AttemptOf, TaskOf, GenOf
  <2>5. ReadyMeansAllowed
    BY DEF WInv, Good, Local, ReadyMeansAllowed
  <2>. QED BY <2>1, <2>3, <2>4, <2>5 DEF WorkIsPermitted
<1>. QED BY <1>1, WorkerInvariant, PTL

(* ReportsAgree: the stored report of an attempt is the one its worker     *)
(* froze, however often it is repeated (settle of attempt.rs and           *)
(* settle_once of the store).                                              *)
THEOREM ReportsAgreeCorrect == WSpec => []ReportsAgree
<1>1. WInv => ReportsAgree
  BY DEF WInv, Good, Backed, ReportsAgree, AttemptOf, TaskOf, GenOf, Working
<1>. QED BY <1>1, WorkerInvariant, PTL

(* NoRevival: a stopped permission or tracker of an attempt stays stopped, *)
(* its control deadline is set once and dispatch is taken once.            *)
THEOREM NoRevivalCorrect == WSpec => NoRevival
<1>1. WInv /\ [WNext]_wvars =>
        [\A slot \in Slot :
            LET w == workers[slot]  v == workers'[slot] IN
            w.stage \notin {"Idle", "Claimed"} /\ v.stage # "Idle" =>
                /\ w.phase = "Stopped" => v.phase = "Stopped"
                /\ w.tracker.state \in StoppedLease => v.tracker.state = w.tracker.state
                /\ w.control_deadline # NoTime => v.control_deadline = w.control_deadline
                /\ v.stage = "Prepared" /\ w.stage # "Prepared" => ~w.consumed]_wvars
  BY NextWInv DEF SoundStep, Stays
<1>. QED BY <1>1, WorkerInvariant, PTL DEF WSpec, NoRevival
=============================================================================
