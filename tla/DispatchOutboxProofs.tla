------------------------ MODULE DispatchOutboxProofs ------------------------
(***************************************************************************)
(* Proofs about external dispatch.  The inductive invariant joins to the   *)
(* checked invariants what makes them inductive: what a task and its       *)
(* intent say of each other (Obliged), a bound on the generation of every  *)
(* record that exists anywhere (Bound), and the confirmations that         *)
(* publishers still carry.                                                 *)
(***************************************************************************)
EXTENDS DispatchOutbox, TLAPS

(* A queued task can still be attempted and is not being cancelled; only   *)
(* submission makes a task external.                                       *)
TaskSound(task) ==
    /\ task.state = "Queued" => task.attempt_count < MaxAttempts /\ ~task.cancel
    /\ task.state = "Absent" => ~task.external

(* IntentIsObligation for one task, with the time its intent becomes due.  *)
Obliged(task, intent) ==
    IF task.state = "Queued" /\ task.external
    THEN /\ intent.generation = task.attempt_count + 1
         /\ task.wait > 0 => intent.available = task.wait
         /\ task.wait = 0 => intent.available =< CapacityDelay
    ELSE intent = NoIntent

(* The newest generation that can have been published for a task.          *)
Bound(task) == IF task.state = "Active" THEN task.attempt_count ELSE task.attempt_count + 1

Issued(record) ==
    /\ record \in Record
    /\ tasks[record.task].external
    /\ record.generation =< Bound(tasks[record.task])

TasksSound == \A t \in Tasks : TaskSound(tasks[t]) /\ Obliged(tasks[t], intents[t])

RecordsSound ==
    /\ \A record \in broker \cup wire : Issued(record)
    /\ \A p \in Publishers : \A l \in publishers[p].leases : Issued(RecordOf(l))
    /\ \A c \in Slots : IF slots[c].stage = "Selected" THEN Issued(slots[c].record)
                                                       ELSE slots[c].record = NoRecord

ConfirmationsSound ==
    /\ \A p \in Publishers : \A l \in publishers[p].confirmed : RecordOf(l) \in delivered
    /\ \A completion \in late : \A l \in completion.confirmed : RecordOf(l) \in delivered
    /\ ConfirmedWasStored

Inv == TypeOK /\ TasksSound /\ RecordsSound /\ ConfirmationsSound /\ RouteUniform

-----------------------------------------------------------------------------
(* Constants of the record types.                                          *)
LEMMA Constants ==
    /\ NoTask \in Task /\ TaskSound(NoTask) /\ Obliged(NoTask, NoIntent)
    /\ NoIntent \in Intent /\ NoIntent.generation = 0 /\ ~NoIntent.confirmed
    /\ FreeSlot.stage = "Idle" /\ FreeSlot.record = NoRecord
BY OutboxAssumption DEF NoTask, Task, TaskSound, Obliged, NoIntent, Intent, NoToken, FreeSlot

(* A fresh obligation waits for publication at the given time.             *)
LEMMA FreshSound ==
    ASSUME NEW g \in 0 .. MaxAttempts, NEW w \in Nat
    PROVE  /\ FreshIntent(g, w) \in Intent
           /\ FreshIntent(g, w).generation = g
           /\ FreshIntent(g, w).available = w
           /\ ~FreshIntent(g, w).confirmed
BY DEF FreshIntent, Intent, NoToken

(* The row sync_intent leaves for a task that had no obligation, or has    *)
(* none any more, is the obligation of the task.                           *)
LEMMA SyncSound ==
    ASSUME NEW task \in Task, TaskSound(task), NEW intent \in Intent,
           intent = NoIntent \/ ~(task.state = "Queued" /\ task.external)
    PROVE  /\ SyncIntent(task, intent) \in Intent
           /\ Obliged(task, SyncIntent(task, intent))
           /\ ~SyncIntent(task, intent).confirmed
<1>1. NoIntent \in Intent /\ NoIntent.generation = 0 /\ ~NoIntent.confirmed
  BY Constants
<1>2. CASE task.state = "Queued" /\ task.external
  <2>1. /\ ~task.cancel
        /\ task.attempt_count + 1 \in 0 .. MaxAttempts /\ task.attempt_count + 1 # 0
    BY <1>2, OutboxAssumption DEF TaskSound, Task
  <2>2. intent.generation # task.attempt_count + 1
    BY <1>1, <1>2, <2>1
  <2>5. SyncIntent(task, intent) = FreshIntent(task.attempt_count + 1, task.wait)
    BY <1>2, <2>1, <2>2 DEF SyncIntent
  <2>3. task.wait \in Nat
    BY DEF Task
  <2>4. /\ FreshIntent(task.attempt_count + 1, task.wait) \in Intent
        /\ FreshIntent(task.attempt_count + 1, task.wait).generation = task.attempt_count + 1
        /\ FreshIntent(task.attempt_count + 1, task.wait).available = task.wait
        /\ ~FreshIntent(task.attempt_count + 1, task.wait).confirmed
    BY <2>1, <2>3, FreshSound
  <2>. QED BY <1>2, <2>3, <2>4, <2>5, OutboxAssumption DEF Obliged
<1>3. CASE ~(task.state = "Queued" /\ task.external)
  <2>1. SyncIntent(task, intent) = NoIntent
    BY <1>3 DEF SyncIntent
  <2>. QED BY <1>1, <1>3, <2>1 DEF Obliged
<1>. QED BY <1>2, <1>3

-----------------------------------------------------------------------------
(* Writing one task row with its obligation keeps every row, and every     *)
(* record in flight, sound.                                                *)
LEMMA WriteTaskSound ==
    ASSUME TypeOK, TasksSound,
           NEW t \in Tasks, NEW task \in Task, TaskSound(task), NEW e \in BOOLEAN,
           WriteTask(t, task, e),
           tasks[t].external => task.external /\ Bound(tasks[t]) =< Bound(task),
           IF e /\ task.external
           THEN intents[t] = NoIntent \/ task.state # "Queued"
           ELSE Obliged(task, intents[t])
    PROVE  /\ tasks' \in [Tasks -> Task]
           /\ intents' \in [Tasks -> Intent]
           /\ TasksSound'
           /\ \A record : Issued(record) => Issued(record)'
           /\ \A u \in Tasks : intents'[u].confirmed => intents'[u] = intents[u]
<1>1. /\ tasks \in [Tasks -> Task] /\ intents \in [Tasks -> Intent]
      /\ tasks' = [tasks EXCEPT ![t] = task]
  BY DEF TypeOK, WriteTask
<1>2. /\ tasks' \in [Tasks -> Task] /\ tasks'[t] = task
      /\ \A u \in Tasks : u # t => tasks'[u] = tasks[u]
  BY <1>1
<1>3. /\ intents' \in [Tasks -> Intent]
      /\ \A u \in Tasks : u # t => intents'[u] = intents[u]
      /\ Obliged(task, intents'[t])
      /\ intents'[t].confirmed => intents'[t] = intents[t]
  <2>1. CASE e /\ task.external
    <3>1. intents' = [intents EXCEPT ![t] = SyncIntent(task, intents[t])]
      BY <2>1 DEF WriteTask
    <3>2. intents[t] \in Intent /\ (intents[t] = NoIntent \/ ~(task.state = "Queued" /\ task.external))
      BY <1>1, <2>1
    <3>3. /\ SyncIntent(task, intents[t]) \in Intent
          /\ Obliged(task, SyncIntent(task, intents[t]))
          /\ ~SyncIntent(task, intents[t]).confirmed
      BY <3>2, SyncSound
    <3>. QED BY <1>1, <3>1, <3>3
  <2>2. CASE ~(e /\ task.external)
    <3>1. intents' = intents
      BY <2>2 DEF WriteTask
    <3>. QED BY <1>1, <2>2, <3>1
  <2>. QED BY <2>1, <2>2
<1>4. TasksSound'
  BY <1>2, <1>3 DEF TasksSound
<1>5. ASSUME NEW record, Issued(record) PROVE Issued(record)'
  <2>1. record.task \in Tasks /\ record.generation \in Int
    BY <1>5 DEF Issued, Record, Generation
  <2>2. CASE record.task = t
    <3>1. Bound(tasks[t]) \in Int /\ Bound(task) \in Int
      BY <1>1 DEF Bound, Task
    <3>. QED BY <1>2, <1>5, <2>1, <2>2, <3>1 DEF Issued
  <2>3. CASE record.task # t
    BY <1>2, <1>5, <2>1, <2>3 DEF Issued
  <2>. QED BY <2>2, <2>3
<1>. QED BY <1>2, <1>3, <1>4, <1>5

(* What no task row is written for: publishers, wire, broker and history.  *)
LEMMA ElsewhereSound ==
    ASSUME Inv, UNCHANGED Elsewhere,
           tasks' \in [Tasks -> Task], intents' \in [Tasks -> Intent],
           route' \in BOOLEAN,
           slots' \in [Slots -> [stage : {"Idle", "Selected"}, record : Record \cup {NoRecord},
                                 receipt : Disposition \cup {NoReceipt}]],
           TasksSound', RouteUniform',
           \A record : Issued(record) => Issued(record)',
           \A u \in Tasks : intents'[u].confirmed => intents'[u] = intents[u],
           \A c \in Slots : /\ slots'[c].stage = slots[c].stage
                            /\ slots'[c].record = slots[c].record
    PROVE  Inv'
<1>1. TypeOK'
  BY DEF Inv, TypeOK, Elsewhere
<1>2. RecordsSound'
  <2>1. /\ \A record \in broker' \cup wire' : Issued(record)'
        /\ \A p \in Publishers : \A l \in publishers'[p].leases : Issued(RecordOf(l))'
    BY DEF Inv, RecordsSound, Elsewhere
  <2>2. ASSUME NEW c \in Slots
        PROVE  (IF slots[c].stage = "Selected" THEN Issued(slots[c].record)
                                               ELSE slots[c].record = NoRecord)'
    <3>1. PICK r : r = slots[c].record
      OBVIOUS
    <3>2. slots'[c].stage = "Selected" => Issued(r)'
      BY <3>1 DEF Inv, RecordsSound
    <3>3. slots'[c].record = r /\ slots'[c].stage = slots[c].stage
      BY <3>1
    <3>4. slots'[c].stage = "Selected" => Issued(slots[c].record)'
      BY <3>2, <3>3 DEF Issued
    <3>. QED BY <3>1, <3>3, <3>4 DEF Inv, RecordsSound
  <2>. QED BY <2>1, <2>2 DEF RecordsSound
<1>3. ConfirmationsSound'
  BY DEF Inv, ConfirmationsSound, ConfirmedWasStored, Elsewhere
<1>. QED BY <1>1, <1>2, <1>3 DEF Inv

(* A write of one task row that leaves the slots alone.                    *)
LEMMA TaskStepSound ==
    ASSUME Inv, NEW t \in Tasks, NEW task \in Task, TaskSound(task), NEW e \in BOOLEAN,
           WriteTask(t, task, e), UNCHANGED <<route, slots, Elsewhere>>,
           tasks[t].external => task.external /\ Bound(tasks[t]) =< Bound(task),
           task.state \in {"Queued", "Active"} => task.external = route,
           IF e /\ task.external
           THEN intents[t] = NoIntent \/ task.state # "Queued"
           ELSE Obliged(task, intents[t])
    PROVE  Inv'
<1>1. TypeOK /\ TasksSound
  BY DEF Inv
<1>2. /\ tasks' \in [Tasks -> Task]
      /\ intents' \in [Tasks -> Intent]
      /\ TasksSound'
      /\ \A record : Issued(record) => Issued(record)'
      /\ \A u \in Tasks : intents'[u].confirmed => intents'[u] = intents[u]
  BY <1>1, WriteTaskSound
<1>3. RouteUniform'
  <2>1. tasks \in [Tasks -> Task] /\ tasks' = [tasks EXCEPT ![t] = task] /\ route' = route
    BY <1>1 DEF TypeOK, WriteTask
  <2>. QED BY <2>1 DEF Inv, RouteUniform
<1>4. route' \in BOOLEAN /\ slots' = slots
  BY <1>1 DEF TypeOK
<1>. QED BY <1>1, <1>2, <1>3, <1>4, ElsewhereSound DEF TypeOK

(* Submission creates the task with its obligation.                        *)
LEMMA SubmitSound ==
    ASSUME Inv, NEW t \in Tasks, Submit(t)
    PROVE  Inv'
<1>1. PICK task : task = [state |-> "Queued", attempt_count |-> 0, wait |-> 0,
                          external |-> route, cancel |-> FALSE]
  OBVIOUS
<1>2. task \in Task /\ TaskSound(task) /\ task.external = route
  BY <1>1, OutboxAssumption DEF Task, TaskSound, Inv, TypeOK
<1>3. WriteTask(t, task, TRUE) /\ UNCHANGED <<route, slots, Elsewhere>>
  BY <1>1 DEF Submit
<1>4. ~tasks[t].external /\ intents[t] = NoIntent
  BY DEF Submit, Inv, TasksSound, TaskSound, Obliged
<1>5. ~task.external => Obliged(task, intents[t])
  BY <1>4 DEF Obliged
<1>. QED BY <1>2, <1>3, <1>4, <1>5, TaskStepSound

(* A claimed task, by either delivery.                                     *)
LEMMA ClaimedSound ==
    ASSUME NEW task \in Task, TaskSound(task), task.state = "Queued"
    PROVE  /\ Claimed(task) \in Task /\ TaskSound(Claimed(task))
           /\ Claimed(task).state = "Active" /\ Claimed(task).external = task.external
           /\ Bound(task) = Bound(Claimed(task))
<1>1. task.attempt_count \in 0 .. MaxAttempts /\ task.attempt_count + 1 \in 0 .. MaxAttempts
  BY OutboxAssumption DEF Task, TaskSound
<1>2. /\ Claimed(task) \in Task
      /\ Claimed(task).state = "Active"
      /\ Claimed(task).attempt_count = task.attempt_count + 1
      /\ Claimed(task).external = task.external
  BY <1>1 DEF Claimed, Task
<1>. QED BY <1>1, <1>2 DEF TaskSound, Bound

(* Integrated acquisition.                                                 *)
LEMMA PullClaimSound ==
    ASSUME Inv, NEW t \in Tasks, PullClaim(t)
    PROVE  Inv'
<1>1. /\ tasks[t] \in Task /\ TaskSound(tasks[t]) /\ tasks[t].state = "Queued"
      /\ tasks[t].external = route /\ ~tasks[t].external
  BY DEF Inv, TypeOK, TasksSound, PullClaim, RouteUniform
<1>2. PICK task : task = Claimed(tasks[t])
  OBVIOUS
<1>3. /\ task \in Task /\ TaskSound(task) /\ task.state = "Active"
      /\ task.external = tasks[t].external
  BY <1>1, <1>2, ClaimedSound
<1>4. WriteTask(t, task, TRUE) /\ UNCHANGED <<route, slots, Elsewhere>>
  BY <1>2 DEF PullClaim
<1>5. Obliged(task, intents[t])
  BY <1>1, <1>3 DEF Obliged, Inv, TasksSound
<1>. QED BY <1>1, <1>3, <1>4, <1>5, TaskStepSound

(* The end of an attempt: a retry is obliged anew.                         *)
LEMMA EndAttemptSound ==
    ASSUME Inv, NEW t \in Tasks, EndAttempt(t)
    PROVE  Inv'
<1>1. /\ tasks[t] \in Task /\ TaskSound(tasks[t]) /\ tasks[t].state = "Active"
      /\ tasks[t].external = route /\ intents[t] = NoIntent
      /\ tasks[t].attempt_count \in 0 .. MaxAttempts
      /\ UNCHANGED <<route, slots, Elsewhere>>
  BY DEF Inv, TypeOK, TasksSound, EndAttempt, RouteUniform, Obliged, Task
<1>2. CASE /\ ~tasks[t].cancel /\ tasks[t].attempt_count < MaxAttempts
           /\ WriteTask(t, [tasks[t] EXCEPT !.state = "Queued", !.wait = RetryDelay], TRUE)
  <2>1. PICK task : task = [tasks[t] EXCEPT !.state = "Queued", !.wait = RetryDelay]
    OBVIOUS
  <2>2. /\ task \in Task /\ task.state = "Queued" /\ task.external = tasks[t].external
        /\ task.attempt_count = tasks[t].attempt_count /\ ~task.cancel
    BY <1>1, <1>2, <2>1, OutboxAssumption DEF Task
  <2>3. TaskSound(task) /\ Bound(tasks[t]) =< Bound(task)
    BY <1>1, <1>2, <2>2, OutboxAssumption DEF TaskSound, Bound
  <2>4. WriteTask(t, task, TRUE)
    BY <1>2, <2>1
  <2>5. ~task.external => Obliged(task, intents[t])
    BY <1>1 DEF Obliged
  <2>. QED BY <1>1, <2>2, <2>3, <2>4, <2>5, TaskStepSound
<1>3. CASE WriteTask(t, [tasks[t] EXCEPT !.state = "Done"], FALSE)
  <2>1. PICK task : task = [tasks[t] EXCEPT !.state = "Done"]
    OBVIOUS
  <2>2. /\ task \in Task /\ task.state = "Done" /\ task.external = tasks[t].external
        /\ task.attempt_count = tasks[t].attempt_count
    BY <1>1, <2>1 DEF Task
  <2>3. TaskSound(task) /\ Bound(tasks[t]) =< Bound(task)
    BY <1>1, <2>2, OutboxAssumption DEF TaskSound, Bound
  <2>4. WriteTask(t, task, FALSE)
    BY <1>3, <2>1
  <2>5. Obliged(task, intents[t])
    BY <1>1, <2>2 DEF Obliged
  <2>. QED BY <1>1, <2>2, <2>3, <2>4, <2>5, TaskStepSound
<1>. QED BY <1>2, <1>3 DEF EndAttempt

(* Cancellation of queued work removes its obligation.                     *)
LEMMA CancelSound ==
    ASSUME Inv, NEW t \in Tasks, Cancel(t)
    PROVE  Inv'
<1>1. /\ tasks[t] \in Task /\ TaskSound(tasks[t]) /\ Obliged(tasks[t], intents[t])
      /\ tasks[t].attempt_count \in 0 .. MaxAttempts
      /\ UNCHANGED <<route, slots, Elsewhere>>
  BY DEF Inv, TypeOK, TasksSound, Cancel, Task
<1>2. CASE /\ tasks[t].state = "Queued"
           /\ WriteTask(t, [tasks[t] EXCEPT !.state = "Done", !.cancel = TRUE], TRUE)
  <2>1. PICK task : task = [tasks[t] EXCEPT !.state = "Done", !.cancel = TRUE]
    OBVIOUS
  <2>2. /\ task \in Task /\ task.state = "Done" /\ task.external = tasks[t].external
        /\ task.attempt_count = tasks[t].attempt_count
    BY <1>1, <2>1 DEF Task
  <2>3. TaskSound(task) /\ Bound(tasks[t]) =< Bound(task)
    BY <1>1, <1>2, <2>2, OutboxAssumption DEF TaskSound, Bound
  <2>4. WriteTask(t, task, TRUE)
    BY <1>2, <2>1
  <2>5. ~task.external => Obliged(task, intents[t])
    BY <1>1, <2>2 DEF Obliged
  <2>. QED BY <1>1, <2>2, <2>3, <2>4, <2>5, TaskStepSound
<1>3. CASE /\ tasks[t].state = "Active"
           /\ WriteTask(t, [tasks[t] EXCEPT !.cancel = TRUE], FALSE)
  <2>1. PICK task : task = [tasks[t] EXCEPT !.cancel = TRUE]
    OBVIOUS
  <2>2. /\ task \in Task /\ task.state = "Active" /\ task.external = tasks[t].external
        /\ task.attempt_count = tasks[t].attempt_count /\ tasks[t].external = route
    BY <1>1, <1>3, <2>1 DEF Task, Inv, RouteUniform
  <2>3. TaskSound(task) /\ Bound(tasks[t]) =< Bound(task)
    BY <1>1, <1>3, <2>2, OutboxAssumption DEF TaskSound, Bound
  <2>4. WriteTask(t, task, FALSE)
    BY <1>3, <2>1
  <2>5. Obliged(task, intents[t])
    BY <1>1, <1>3, <2>2 DEF Obliged
  <2>. QED BY <1>1, <2>2, <2>3, <2>4, <2>5, TaskStepSound
<1>. QED BY <1>2, <1>3 DEF Cancel

(* Activation finds no unfinished task.                                    *)
LEMMA ActivateRouteSound ==
    ASSUME Inv, ActivateRoute
    PROVE  Inv'
<1>1. /\ tasks' = tasks /\ intents' = intents /\ slots' = slots /\ route' = TRUE
      /\ UNCHANGED Elsewhere
      /\ \A t \in Tasks : tasks[t].state \notin {"Queued", "Active"}
  BY DEF ActivateRoute
<1>2. TasksSound' /\ RouteUniform' /\ \A record : Issued(record) => Issued(record)'
  BY <1>1 DEF Inv, TasksSound, RouteUniform, Issued
<1>. QED BY <1>1, <1>2, ElsewhereSound DEF Inv, TypeOK

(* A claim that a broker record starts, with its receipt.                  *)
LEMMA ClaimDispatchSound ==
    ASSUME Inv, NEW c \in Slots, ClaimDispatch(c)
    PROVE  Inv'
<1>. DEFINE record == slots[c].record
            t == slots[c].record.task
            Receipts == Disposition \cup {NoReceipt}
            SlotType == [stage : {"Idle", "Selected"}, record : Record \cup {NoRecord},
                         receipt : Receipts]
            Kept == \A d \in Slots : /\ slots'[d].stage = slots[d].stage
                                     /\ slots'[d].record = slots[d].record
<1>1. /\ slots \in [Slots -> SlotType] /\ tasks \in [Tasks -> Task]
      /\ intents \in [Tasks -> Intent]
      /\ slots[c].stage = "Selected" /\ Issued(record) /\ record \in Record /\ t \in Tasks
      /\ tasks[t].external
      /\ UNCHANGED <<route, Elsewhere>> /\ route \in BOOLEAN
  BY DEF Inv, TypeOK, ClaimDispatch, RecordsSound, Issued, Record
<1>2. ASSUME NEW r \in Receipts, SaveReceipt(c, r)
      PROVE  slots' \in [Slots -> SlotType] /\ Kept
  <2>1. slots' = [slots EXCEPT ![c].receipt = r]
    BY <1>2 DEF SaveReceipt
  <2>2. [slots[c] EXCEPT !.receipt = r] \in SlotType
    BY <1>1
  <2>. QED BY <1>1, <2>1, <2>2
<1>3. CASE Ready(record) /\ WriteTask(t, Claimed(tasks[t]), TRUE) /\ SaveReceipt(c, "Claimed")
  <2>1. /\ tasks[t] \in Task /\ TaskSound(tasks[t]) /\ tasks[t].state = "Queued"
        /\ tasks[t].external = route
    BY <1>1, <1>3 DEF Inv, TasksSound, Ready, RouteUniform
  <2>2. PICK task : task = Claimed(tasks[t])
    OBVIOUS
  <2>3. /\ task \in Task /\ TaskSound(task) /\ task.state = "Active"
        /\ task.external = tasks[t].external /\ Bound(tasks[t]) = Bound(task)
        /\ Bound(task) \in Int
    BY SMTT(30), <2>1, <2>2, ClaimedSound DEF Bound, Task
  <2>4. WriteTask(t, task, TRUE)
    BY <1>3, <2>2
  <2>5. TypeOK /\ TasksSound
    BY DEF Inv
  <2>6. /\ tasks' \in [Tasks -> Task]
        /\ intents' \in [Tasks -> Intent]
        /\ TasksSound'
        /\ \A r : Issued(r) => Issued(r)'
        /\ \A u \in Tasks : intents'[u].confirmed => intents'[u] = intents[u]
    <3>1. tasks[t].external => task.external /\ Bound(tasks[t]) =< Bound(task)
      BY <2>3
    <3>2. IF TRUE /\ task.external
          THEN intents[t] = NoIntent \/ task.state # "Queued"
          ELSE Obliged(task, intents[t])
      BY <1>1, <2>3
    <3>. QED BY <1>1, <2>3, <2>4, <2>5, <3>1, <3>2, WriteTaskSound
  <2>7. RouteUniform'
    <3>1. tasks' = [tasks EXCEPT ![t] = task] /\ route' = route
      BY <1>1, <2>4 DEF WriteTask
    <3>. QED BY <1>1, <2>1, <2>3, <3>1 DEF Inv, RouteUniform
  <2>8. slots' \in [Slots -> SlotType] /\ Kept
    BY <1>2, <1>3 DEF Disposition
  <2>. QED BY <1>1, <2>6, <2>7, <2>8, ElsewhereSound
<1>4. CASE /\ Ready(record)
           /\ intents' = [intents EXCEPT ![t] = DeferredIntent(@, record.generation)]
           /\ SaveReceipt(c, "Deferred")
           /\ UNCHANGED tasks
  <2>1. /\ tasks[t].state = "Queued" /\ tasks[t].wait = 0
        /\ record.generation = tasks[t].attempt_count + 1
        /\ record.generation \in 0 .. MaxAttempts
    BY <1>1, <1>4, OutboxAssumption DEF Ready, Record, Generation
  <2>2. PICK intent : intent = DeferredIntent(intents[t], record.generation)
    OBVIOUS
  <2>3. \/ intent = intents[t]
        \/ intent = FreshIntent(record.generation, CapacityDelay)
    BY <2>2 DEF DeferredIntent
  <2>4. /\ FreshIntent(record.generation, CapacityDelay) \in Intent
        /\ FreshIntent(record.generation, CapacityDelay).generation = record.generation
        /\ FreshIntent(record.generation, CapacityDelay).available = CapacityDelay
        /\ ~FreshIntent(record.generation, CapacityDelay).confirmed
    <3>1. CapacityDelay \in Nat
      BY OutboxAssumption
    <3>. QED BY <2>1, <3>1, FreshSound
  <2>5. Obliged(tasks[t], intents[t])
    BY <1>1 DEF Inv, TasksSound
  <2>6. /\ intent \in Intent /\ Obliged(tasks[t], intent)
        /\ intent.confirmed => intent = intents[t]
    BY <1>1, <2>1, <2>3, <2>4, <2>5, OutboxAssumption DEF Obliged
  <2>7. intents' = [intents EXCEPT ![t] = intent] /\ tasks' = tasks
    BY <1>4, <2>2
  <2>8. intents' \in [Tasks -> Intent] /\ TasksSound'
        /\ \A u \in Tasks : intents'[u].confirmed => intents'[u] = intents[u]
    BY <1>1, <2>6, <2>7 DEF Inv, TasksSound
  <2>9. RouteUniform' /\ \A r : Issued(r) => Issued(r)'
    BY <1>1, <2>7 DEF Inv, RouteUniform, Issued
  <2>10. slots' \in [Slots -> SlotType] /\ Kept
    BY <1>2, <1>4 DEF Disposition
  <2>. QED BY <1>1, <2>7, <2>8, <2>9, <2>10, ElsewhereSound
<1>5. CASE /\ ~Ready(record)
           /\ SaveReceipt(c, Handled(record))
           /\ UNCHANGED <<tasks, intents>>
  <2>1. Handled(record) \in Receipts
    BY DEF Handled, Disposition
  <2>2. slots' \in [Slots -> SlotType] /\ Kept
    BY <1>2, <1>5, <2>1
  <2>3. TasksSound' /\ RouteUniform' /\ \A r : Issued(r) => Issued(r)'
    BY <1>1, <1>5 DEF Inv, TasksSound, RouteUniform, Issued
  <2>. QED BY <1>1, <1>5, <2>2, <2>3, ElsewhereSound
<1>. QED BY <1>3, <1>4, <1>5 DEF ClaimDispatch

-----------------------------------------------------------------------------
(* Steps that write no task row and no obligation keep what relates them.  *)
LEMMA RowsKept ==
    ASSUME Inv, UNCHANGED <<route, tasks, intents>>
    PROVE  TasksSound' /\ RouteUniform' /\ \A record : Issued(record) => Issued(record)'
BY DEF Inv, TasksSound, RouteUniform, Issued

(* Steps of a consumer: what it holds is a record of the broker.           *)
LEMMA SlotStepSound ==
    ASSUME Inv, NEW c \in Slots, NEW slot, slots' = [slots EXCEPT ![c] = slot],
           slot = FreeSlot \/ \E record \in broker :
               slot = [stage |-> "Selected", record |-> record, receipt |-> NoReceipt],
           broker' \subseteq broker,
           UNCHANGED <<route, tasks, intents, publishers, late, wire, delivered>>
    PROVE  Inv'
<1>. DEFINE SlotType == [stage : {"Idle", "Selected"}, record : Record \cup {NoRecord},
                         receipt : Disposition \cup {NoReceipt}]
<1>1. TasksSound' /\ RouteUniform' /\ \A record : Issued(record) => Issued(record)'
  BY RowsKept
<1>2. slots \in [Slots -> SlotType] /\ broker \subseteq Record
  BY DEF Inv, TypeOK
<1>3. /\ slot \in SlotType
      /\ IF slot.stage = "Selected" THEN Issued(slot.record) ELSE slot.record = NoRecord
  <2>1. CASE slot = FreeSlot
    BY <2>1 DEF FreeSlot
  <2>2. CASE \E record \in broker :
               slot = [stage |-> "Selected", record |-> record, receipt |-> NoReceipt]
    BY <1>2, <2>2 DEF Inv, RecordsSound
  <2>. QED BY <2>1, <2>2
<1>4. TypeOK'
  <2>1. slots' \in [Slots -> SlotType]
    BY <1>2, <1>3
  <2>. QED BY <2>1 DEF Inv, TypeOK
<1>5. RecordsSound'
  <2>1. ASSUME NEW d \in Slots
        PROVE  (IF slots[d].stage = "Selected" THEN Issued(slots[d].record)
                                               ELSE slots[d].record = NoRecord)'
    <3>1. PICK r : r = slots'[d].record
      OBVIOUS
    <3>2. IF slots'[d].stage = "Selected" THEN Issued(r) ELSE r = NoRecord
      BY <1>2, <1>3, <3>1 DEF Inv, RecordsSound
    <3>3. slots'[d].stage = "Selected" => Issued(r)'
      BY <1>1, <3>2
    <3>4. slots'[d].stage = "Selected" => Issued(slots[d].record)'
      BY <3>1, <3>3 DEF Issued
    <3>. QED BY <3>1, <3>2, <3>4
  <2>2. /\ \A record \in broker' \cup wire' : Issued(record)'
        /\ \A p \in Publishers : \A l \in publishers'[p].leases : Issued(RecordOf(l))'
    BY <1>1 DEF Inv, RecordsSound
  <2>. QED BY <2>1, <2>2 DEF RecordsSound
<1>6. ConfirmationsSound'
  BY DEF Inv, ConfirmationsSound, ConfirmedWasStored
<1>. QED BY <1>1, <1>4, <1>5, <1>6 DEF Inv

(* Steps of publishers and of the broker, which leave tasks and slots      *)
(* alone: obligations keep their generation and time, leases and records   *)
(* come from obligations or from other leases, confirmations from stored   *)
(* records.                                                                *)
LEMMA DeliveryStepSound ==
    ASSUME Inv, TypeOK', UNCHANGED <<route, tasks, slots>>,
           \A t \in Tasks :
               \/ intents'[t] = intents[t]
               \/ /\ intents[t].generation # 0
                  /\ intents'[t].generation = intents[t].generation
                  /\ intents'[t].available = intents[t].available,
           \A record \in broker' \cup wire' : Issued(record),
           \A p \in Publishers : \A l \in publishers'[p].leases : Issued(RecordOf(l)),
           ConfirmationsSound'
    PROVE  Inv'
<1>1. ASSUME NEW record, Issued(record) PROVE Issued(record)'
  BY <1>1 DEF Issued
<1>2. TasksSound'
  <2>1. ASSUME NEW t \in Tasks PROVE Obliged(tasks[t], intents'[t])
    <3>1. Obliged(tasks[t], intents[t])
      BY DEF Inv, TasksSound
    <3>. QED BY <3>1, Constants DEF Obliged
  <2>. QED BY <2>1 DEF Inv, TasksSound
<1>3. RecordsSound'
  <2>1. ASSUME NEW c \in Slots
        PROVE  (IF slots[c].stage = "Selected" THEN Issued(slots[c].record)
                                               ELSE slots[c].record = NoRecord)'
    <3>1. PICK r : r = slots[c].record
      OBVIOUS
    <3>2. slots[c].stage = "Selected" => Issued(r)'
      BY <1>1, <3>1 DEF Inv, RecordsSound
    <3>3. slots'[c].stage = "Selected" => Issued(slots[c].record)'
      BY <3>1, <3>2 DEF Issued
    <3>. QED BY <3>3 DEF Inv, RecordsSound
  <2>2. /\ \A record \in broker' \cup wire' : Issued(record)'
        /\ \A p \in Publishers : \A l \in publishers'[p].leases : Issued(RecordOf(l))'
    BY <1>1
  <2>. QED BY <2>1, <2>2 DEF RecordsSound
<1>4. RouteUniform'
  BY DEF Inv, RouteUniform
<1>. QED BY <1>2, <1>3, <1>4 DEF Inv

(* The batch is made of obligations.                                       *)
LEMMA LeasePublicationsSound ==
    ASSUME Inv, NEW p \in Publishers, NEW batch \in SUBSET Tasks, LeasePublications(p, batch)
    PROVE  Inv'
<1>1. PICK token \in FreshTokens(batch) :
          /\ intents' = [t \in Tasks |->
                 IF t \in batch
                 THEN [intents[t] EXCEPT !.token = token[t], !.lease = PublicationLease,
                                         !.next = PublicationLease, !.confirmed = FALSE]
                 ELSE intents[t]]
          /\ publishers' = [publishers EXCEPT ![p] =
                 [stage |-> "Leased", confirmed |-> {}, budget |-> BatchBudget,
                  leases |-> {[task |-> t, generation |-> intents[t].generation,
                               token |-> token[t]] : t \in batch}]]
  BY DEF LeasePublications
<1>2. \A t \in batch : token[t] \in Tokens
  BY <1>1 DEF FreshTokens
<1>3. /\ UNCHANGED <<route, tasks, slots, late, wire, broker, delivered>>
      /\ \A t \in batch : intents[t].generation # 0
  BY DEF LeasePublications, Due
<1>4. /\ intents \in [Tasks -> Intent] /\ tasks \in [Tasks -> Task]
      /\ publishers \in [Publishers -> [stage : {"Idle", "Leased", "Sent"},
                                        leases : SUBSET Lease, confirmed : SUBSET Lease,
                                        budget : Nat]]
  BY DEF Inv, TypeOK
<1>5. ASSUME NEW t \in batch
      PROVE  /\ intents[t].generation \in Generation
             /\ tasks[t].external
             /\ intents[t].generation =< Bound(tasks[t])
  <2>1. t \in Tasks /\ intents[t].generation # 0 /\ intents[t].generation \in 0 .. MaxAttempts
    BY <1>3, <1>4, <1>5 DEF Intent
  <2>2. Obliged(tasks[t], intents[t])
    BY <2>1 DEF Inv, TasksSound
  <2>3. /\ tasks[t].state = "Queued" /\ tasks[t].external
        /\ intents[t].generation = tasks[t].attempt_count + 1
    BY <2>1, <2>2, Constants DEF Obliged
  <2>. QED BY <1>4, <2>1, <2>3, OutboxAssumption DEF Bound, Generation
<1>6. ASSUME NEW t \in Tasks
      PROVE  /\ intents'[t] \in Intent
             /\ \/ intents'[t] = intents[t]
                \/ /\ intents[t].generation # 0
                   /\ intents'[t].generation = intents[t].generation
                   /\ intents'[t].available = intents[t].available
             /\ intents'[t].confirmed => intents'[t] = intents[t]
  <2>1. CASE t \in batch
    <3>1. intents'[t] = [intents[t] EXCEPT !.token = token[t], !.lease = PublicationLease,
                                           !.next = PublicationLease, !.confirmed = FALSE]
      BY <1>1, <2>1
    <3>2. intents[t] \in Intent /\ token[t] \in Tokens \cup {NoToken} /\ PublicationLease \in Nat
      BY <1>2, <1>4, <2>1, OutboxAssumption
    <3>. QED BY <1>3, <2>1, <3>1, <3>2 DEF Intent
  <2>2. CASE t \notin batch
    BY <1>1, <1>4, <2>2
  <2>. QED BY <2>1, <2>2
<1>7. DEFINE leases == {[task |-> t, generation |-> intents[t].generation,
                         token |-> token[t]] : t \in batch}
<1>8. leases \subseteq Lease /\ \A l \in leases : Issued(RecordOf(l))
  <2>1. ASSUME NEW t \in batch
        PROVE  LET l == [task |-> t, generation |-> intents[t].generation, token |-> token[t]]
               IN  l \in Lease /\ Issued(RecordOf(l))
    BY <1>2, <1>5, <2>1 DEF Lease, RecordOf, Issued, Record
  <2>. QED BY <2>1
<1>9. TypeOK'
  <2>1. intents' \in [Tasks -> Intent]
    BY <1>1, <1>6
  <2>2. publishers' \in [Publishers -> [stage : {"Idle", "Leased", "Sent"},
                                        leases : SUBSET Lease, confirmed : SUBSET Lease,
                                        budget : Nat]]
    BY <1>1, <1>4, <1>8, OutboxAssumption
  <2>. QED BY <1>3, <2>1, <2>2 DEF Inv, TypeOK
<1>10. /\ \A record \in broker' \cup wire' : Issued(record)
       /\ \A q \in Publishers : \A l \in publishers'[q].leases : Issued(RecordOf(l))
  <2>1. \A q \in Publishers : publishers'[q].leases = IF q = p THEN leases
                                                                ELSE publishers[q].leases
    BY <1>1, <1>4
  <2>. QED BY <1>3, <1>8, <2>1 DEF Inv, RecordsSound
<1>11. ConfirmationsSound'
  <2>1. \A q \in Publishers : publishers'[q].confirmed = IF q = p THEN {}
                                                                   ELSE publishers[q].confirmed
    BY <1>1, <1>4
  <2>2. ConfirmedWasStored'
    BY <1>3, <1>6 DEF Inv, ConfirmationsSound, ConfirmedWasStored
  <2>. QED BY <1>3, <2>1, <2>2 DEF Inv, ConfirmationsSound
<1>. QED BY <1>3, <1>6, <1>9, <1>10, <1>11, DeliveryStepSound

(* Only stored records are confirmed.                                      *)
LEMMA SendSound ==
    ASSUME Inv, NEW p \in Publishers, Send(p)
    PROVE  Inv'
<1>. DEFINE leases == publishers[p].leases
<1>1. PICK stored \in SUBSET leases : \E confirmed \in SUBSET stored :
          /\ Stored({RecordOf(l) : l \in stored})
          /\ wire' = wire \cup {RecordOf(l) : l \in leases \ stored}
          /\ publishers' = [publishers EXCEPT ![p].stage = "Sent", ![p].confirmed = confirmed]
  BY DEF Send
<1>2. PICK confirmed \in SUBSET stored :
          /\ Stored({RecordOf(l) : l \in stored})
          /\ wire' = wire \cup {RecordOf(l) : l \in leases \ stored}
          /\ publishers' = [publishers EXCEPT ![p].stage = "Sent", ![p].confirmed = confirmed]
  BY <1>1
<1>3. UNCHANGED <<route, tasks, intents, slots, late>>
  BY DEF Send
<1>4. /\ publishers \in [Publishers -> [stage : {"Idle", "Leased", "Sent"},
                                        leases : SUBSET Lease, confirmed : SUBSET Lease,
                                        budget : Nat]]
      /\ leases \subseteq Lease
  BY DEF Inv, TypeOK
<1>5. \A l \in leases : Issued(RecordOf(l)) /\ RecordOf(l) \in Record
  BY DEF Inv, RecordsSound, Issued
<1>6. /\ broker' = broker \cup {RecordOf(l) : l \in stored}
      /\ delivered' = delivered \cup {RecordOf(l) : l \in stored}
  BY <1>2 DEF Stored
<1>7. \A q \in Publishers : /\ publishers'[q].leases = publishers[q].leases
                            /\ publishers'[q].confirmed = IF q = p THEN confirmed
                                                                   ELSE publishers[q].confirmed
  BY <1>2, <1>4
<1>8. TypeOK'
  <2>1. publishers' \in [Publishers -> [stage : {"Idle", "Leased", "Sent"},
                                        leases : SUBSET Lease, confirmed : SUBSET Lease,
                                        budget : Nat]]
    BY <1>2, <1>4
  <2>2. wire' \subseteq Record /\ broker' \subseteq Record /\ delivered' \subseteq Record
    BY <1>2, <1>5, <1>6 DEF Inv, TypeOK
  <2>. QED BY <1>3, <2>1, <2>2 DEF Inv, TypeOK
<1>9. /\ \A record \in broker' \cup wire' : Issued(record)
      /\ \A q \in Publishers : \A l \in publishers'[q].leases : Issued(RecordOf(l))
  BY <1>2, <1>5, <1>6, <1>7 DEF Inv, RecordsSound
<1>10. ConfirmationsSound'
  <2>1. \A q \in Publishers : \A l \in publishers'[q].confirmed : RecordOf(l) \in delivered'
    BY <1>6, <1>7 DEF Inv, ConfirmationsSound
  <2>2. \A completion \in late' : \A l \in completion.confirmed : RecordOf(l) \in delivered'
    BY <1>3, <1>6 DEF Inv, ConfirmationsSound
  <2>3. ConfirmedWasStored'
    BY <1>3, <1>6 DEF Inv, ConfirmationsSound, ConfirmedWasStored
  <2>. QED BY <2>1, <2>2, <2>3 DEF ConfirmationsSound
<1>. QED BY <1>3, <1>8, <1>9, <1>10, DeliveryStepSound

(* Typed updates keep an intent an intent.                                 *)
LEMMA IntentUpdate ==
    ASSUME NEW i \in Intent, NEW k \in Tokens \cup {NoToken}, NEW n \in Nat, NEW w \in Nat,
           NEW b \in BOOLEAN
    PROVE  [i EXCEPT !.token = k, !.lease = w, !.confirmed = b, !.next = n] \in Intent
BY DEF Intent

(* A completion changes an intent only under its own lease token and       *)
(* generation, and credits it only with what the publisher saw stored.     *)
LEMMA CompletedSound ==
    ASSUME Inv, NEW completion,
           completion.leases \subseteq Lease, completion.confirmed \subseteq Lease,
           \A l \in completion.confirmed : RecordOf(l) \in delivered,
           ApplyCompletion(completion)
    PROVE  /\ intents' \in [Tasks -> Intent]
           /\ \A t \in Tasks :
                 \/ intents'[t] = intents[t]
                 \/ /\ intents[t].generation # 0
                    /\ intents'[t].generation = intents[t].generation
                    /\ intents'[t].available = intents[t].available
           /\ \A t \in Tasks : intents'[t].confirmed =>
                 [task |-> t, generation |-> intents'[t].generation] \in delivered
<1>1. intents \in [Tasks -> Intent] /\ intents' = [t \in Tasks |-> Completed(completion, t)]
  BY DEF Inv, TypeOK, ApplyCompletion
<1>2. ASSUME NEW t \in Tasks
      PROVE  /\ intents'[t] \in Intent
             /\ \/ intents'[t] = intents[t]
                \/ /\ intents[t].generation # 0
                   /\ intents'[t].generation = intents[t].generation
                   /\ intents'[t].available = intents[t].available
             /\ intents'[t].confirmed =>
                   [task |-> t, generation |-> intents'[t].generation] \in delivered
  <2>. DEFINE own == {l \in completion.leases : l.task = t /\ l.generation = intents[t].generation
                                                            /\ l.token = intents[t].token}
  <2>1. CASE own = {}
    <3>1. intents'[t] = intents[t]
      BY <1>1, <2>1 DEF Completed
    <3>. QED BY <1>1, <3>1 DEF Inv, ConfirmationsSound, ConfirmedWasStored
  <2>2. CASE own # {}
    <3>1. PICK l \in own : l \in Lease /\ l.task = t /\ l.generation = intents[t].generation
      BY <2>2
    <3>2. PICK credit \in BOOLEAN : credit = (own \subseteq completion.confirmed)
      OBVIOUS
    <3>3. PICK next : next = IF own \subseteq completion.confirmed THEN PublicationRepair
                                                                    ELSE PublicationRetry
      OBVIOUS
    <3>4. intents'[t] = [intents[t] EXCEPT !.token = NoToken, !.lease = 0,
                                           !.confirmed = credit, !.next = next]
      BY <1>1, <2>2, <3>2, <3>3 DEF Completed
    <3>5. next \in Nat /\ intents[t] \in Intent
      BY <1>1, <3>3, OutboxAssumption
    <3>10. credit \in BOOLEAN
      BY <3>2
    <3>12. /\ intents'[t].generation = intents[t].generation
           /\ intents'[t].available = intents[t].available
      BY <3>4, <3>5 DEF Intent
    <3>6. intents'[t] \in Intent
      <4>1. NoToken \in Tokens \cup {NoToken} /\ 0 \in Nat
        OBVIOUS
      <4>2. [intents[t] EXCEPT !.token = NoToken, !.lease = 0, !.confirmed = credit,
                               !.next = next] \in Intent
        BY <3>5, <3>10, <4>1, IntentUpdate
      <4>. QED BY <3>4, <4>2
    <3>11. intents'[t].confirmed = credit
      BY <3>4, <3>5 DEF Intent
    <3>7. intents[t].generation # 0
      BY <3>1 DEF Lease, Generation
    <3>8. RecordOf(l) = [task |-> t, generation |-> intents'[t].generation]
      BY <3>1, <3>12 DEF RecordOf
    <3>9. intents'[t].confirmed => own \subseteq completion.confirmed
      BY <3>2, <3>11
    <3>. QED BY <3>1, <3>6, <3>7, <3>8, <3>9, <3>12
  <2>. QED BY <2>1, <2>2
<1>. QED BY <1>1, <1>2

(* A publisher whose batch has ended keeps no lease.                       *)
LEMMA RestingSound ==
    ASSUME Inv, NEW p \in Publishers, publishers' = [publishers EXCEPT ![p] = Resting]
    PROVE  /\ publishers' \in [Publishers -> [stage : {"Idle", "Leased", "Sent"},
                                              leases : SUBSET Lease, confirmed : SUBSET Lease,
                                              budget : Nat]]
           /\ \A q \in Publishers : /\ publishers'[q].leases \subseteq publishers[q].leases
                                    /\ publishers'[q].confirmed \subseteq publishers[q].confirmed
<1>1. /\ Resting \in [stage : {"Idle", "Leased", "Sent"}, leases : SUBSET Lease,
                      confirmed : SUBSET Lease, budget : Nat]
      /\ Resting.leases = {} /\ Resting.confirmed = {}
  BY DEF Resting
<1>. QED BY <1>1 DEF Inv, TypeOK

(* The completion a publisher carries.                                     *)
LEMMA CompletionOfSound ==
    ASSUME Inv, NEW p \in Publishers
    PROVE  /\ CompletionOf(p) \in [leases : SUBSET Lease, confirmed : SUBSET Lease]
           /\ CompletionOf(p).leases \subseteq Lease /\ CompletionOf(p).confirmed \subseteq Lease
           /\ \A l \in CompletionOf(p).confirmed : RecordOf(l) \in delivered
BY DEF Inv, TypeOK, CompletionOf, ConfirmationsSound

(* A batch completes.                                                      *)
LEMMA CompletePublicationsSound ==
    ASSUME Inv, NEW p \in Publishers, CompletePublications(p)
    PROVE  Inv'
<1>1. /\ UNCHANGED <<route, tasks, slots, late, wire, broker, delivered>>
      /\ publishers' = [publishers EXCEPT ![p] = Resting]
      /\ ApplyCompletion(CompletionOf(p))
  BY DEF CompletePublications
<1>2. PICK completion : completion = CompletionOf(p)
  OBVIOUS
<1>3. /\ completion.leases \subseteq Lease /\ completion.confirmed \subseteq Lease
      /\ \A l \in completion.confirmed : RecordOf(l) \in delivered
      /\ ApplyCompletion(completion)
  BY <1>1, <1>2, CompletionOfSound
<1>4. /\ intents' \in [Tasks -> Intent]
      /\ \A t \in Tasks :
            \/ intents'[t] = intents[t]
            \/ /\ intents[t].generation # 0
               /\ intents'[t].generation = intents[t].generation
               /\ intents'[t].available = intents[t].available
      /\ \A t \in Tasks : intents'[t].confirmed =>
            [task |-> t, generation |-> intents'[t].generation] \in delivered
  BY <1>3, CompletedSound
<1>5. /\ publishers' \in [Publishers -> [stage : {"Idle", "Leased", "Sent"},
                                         leases : SUBSET Lease, confirmed : SUBSET Lease,
                                         budget : Nat]]
      /\ \A q \in Publishers : /\ publishers'[q].leases \subseteq publishers[q].leases
                               /\ publishers'[q].confirmed \subseteq publishers[q].confirmed
  BY <1>1, RestingSound
<1>6. TypeOK'
  BY <1>1, <1>4, <1>5 DEF Inv, TypeOK
<1>7. ConfirmationsSound'
  BY <1>1, <1>4, <1>5 DEF Inv, ConfirmationsSound, ConfirmedWasStored
<1>8. /\ \A record \in broker' \cup wire' : Issued(record)
      /\ \A q \in Publishers : \A l \in publishers'[q].leases : Issued(RecordOf(l))
  BY <1>1, <1>5 DEF Inv, RecordsSound
<1>. QED BY <1>1, <1>4, <1>6, <1>7, <1>8, DeliveryStepSound

(* A batch ends without completing.                                        *)
LEMMA AbandonBatchSound ==
    ASSUME Inv, NEW p \in Publishers, AbandonBatch(p)
    PROVE  Inv'
<1>1. /\ UNCHANGED <<route, tasks, intents, slots, wire, broker, delivered>>
      /\ publishers' = [publishers EXCEPT ![p] = Resting]
      /\ late' \subseteq late \cup {CompletionOf(p)}
  BY DEF AbandonBatch
<1>2. /\ publishers' \in [Publishers -> [stage : {"Idle", "Leased", "Sent"},
                                         leases : SUBSET Lease, confirmed : SUBSET Lease,
                                         budget : Nat]]
      /\ \A q \in Publishers : /\ publishers'[q].leases \subseteq publishers[q].leases
                               /\ publishers'[q].confirmed \subseteq publishers[q].confirmed
  BY <1>1, RestingSound
<1>3. TypeOK'
  BY <1>1, <1>2, CompletionOfSound DEF Inv, TypeOK
<1>4. ConfirmationsSound'
  <2>1. \A completion \in late' : \A l \in completion.confirmed : RecordOf(l) \in delivered
    BY <1>1, CompletionOfSound DEF Inv, ConfirmationsSound
  <2>2. ConfirmedWasStored'
    BY <1>1 DEF Inv, ConfirmationsSound, ConfirmedWasStored
  <2>. QED BY <1>1, <1>2, <2>1, <2>2 DEF Inv, ConfirmationsSound
<1>5. /\ \A record \in broker' \cup wire' : Issued(record)
      /\ \A q \in Publishers : \A l \in publishers'[q].leases : Issued(RecordOf(l))
  BY <1>1, <1>2 DEF Inv, RecordsSound
<1>. QED BY <1>1, <1>3, <1>4, <1>5, DeliveryStepSound

(* An uncertain completion commits late.                                   *)
LEMMA CompleteLateSound ==
    ASSUME Inv, NEW completion \in late, CompleteLate(completion)
    PROVE  Inv'
<1>1. /\ UNCHANGED <<route, tasks, publishers, slots, wire, broker, delivered>>
      /\ late' \subseteq late /\ ApplyCompletion(completion)
  BY DEF CompleteLate
<1>2. /\ completion.leases \subseteq Lease /\ completion.confirmed \subseteq Lease
      /\ \A l \in completion.confirmed : RecordOf(l) \in delivered
  BY DEF Inv, TypeOK, ConfirmationsSound
<1>3. /\ intents' \in [Tasks -> Intent]
      /\ \A t \in Tasks :
            \/ intents'[t] = intents[t]
            \/ /\ intents[t].generation # 0
               /\ intents'[t].generation = intents[t].generation
               /\ intents'[t].available = intents[t].available
      /\ \A t \in Tasks : intents'[t].confirmed =>
            [task |-> t, generation |-> intents'[t].generation] \in delivered
  BY <1>1, <1>2, CompletedSound
<1>4. TypeOK'
  BY <1>1, <1>3 DEF Inv, TypeOK
<1>5. ConfirmationsSound'
  BY <1>1, <1>3 DEF Inv, ConfirmationsSound, ConfirmedWasStored
<1>6. /\ \A record \in broker' \cup wire' : Issued(record)
      /\ \A q \in Publishers : \A l \in publishers'[q].leases : Issued(RecordOf(l))
  BY <1>1 DEF Inv, RecordsSound
<1>. QED BY <1>1, <1>3, <1>4, <1>5, <1>6, DeliveryStepSound

(* The broker stores or loses a record.                                    *)
LEMMA BrokerSound ==
    ASSUME Inv, NEW record,
           (record \in wire /\ Arrive(record)) \/ (record \in broker /\ Lose(record))
    PROVE  Inv'
<1>1. /\ UNCHANGED <<route, tasks, intents, publishers, slots, late>>
      /\ broker' \subseteq broker \cup wire /\ wire' \subseteq wire
      /\ delivered' \subseteq delivered \cup wire /\ delivered \subseteq delivered'
  BY DEF Arrive, Lose, Stored
<1>2. TypeOK'
  BY <1>1 DEF Inv, TypeOK
<1>3. ConfirmationsSound'
  BY <1>1 DEF Inv, ConfirmationsSound, ConfirmedWasStored
<1>4. /\ \A r \in broker' \cup wire' : Issued(r)
      /\ \A q \in Publishers : \A l \in publishers'[q].leases : Issued(RecordOf(l))
  BY <1>1 DEF Inv, RecordsSound
<1>. QED BY <1>1, <1>2, <1>3, <1>4, DeliveryStepSound

(* Intents with equal fields are equal.                                    *)
LEMMA IntentEqual ==
    ASSUME NEW i \in Intent, NEW j \in Intent,
           i.generation = j.generation, i.available = j.available, i.next = j.next,
           i.lease = j.lease, i.token = j.token, i.confirmed = j.confirmed
    PROVE  i = j
BY DEF Intent

(* Time brings tasks and their intents to their hour together.             *)
LEMMA TickSound ==
    ASSUME Inv, Tick
    PROVE  Inv'
<1>1. /\ tasks' = [t \in Tasks |-> [tasks[t] EXCEPT !.wait = Less(@)]]
      /\ intents' = [t \in Tasks |-> [intents[t] EXCEPT !.available = Less(@),
                                                        !.next = Less(@), !.lease = Less(@)]]
      /\ publishers' = [p \in Publishers |-> [publishers[p] EXCEPT !.budget = Less(@)]]
      /\ UNCHANGED <<route, late, wire, broker, slots, delivered>>
  BY DEF Tick
<1>2. /\ tasks \in [Tasks -> Task] /\ intents \in [Tasks -> Intent]
      /\ publishers \in [Publishers -> [stage : {"Idle", "Leased", "Sent"},
                                        leases : SUBSET Lease, confirmed : SUBSET Lease,
                                        budget : Nat]]
  BY DEF Inv, TypeOK
<1>3. \A n \in Nat : Less(n) \in Nat
  BY DEF Less
<1>4. ASSUME NEW t \in Tasks
      PROVE  /\ tasks'[t] \in Task /\ tasks'[t].wait = Less(tasks[t].wait)
             /\ tasks'[t].state = tasks[t].state /\ tasks'[t].external = tasks[t].external
             /\ tasks'[t].attempt_count = tasks[t].attempt_count
             /\ tasks'[t].cancel = tasks[t].cancel
  <2>1. tasks[t] \in Task /\ Less(tasks[t].wait) \in Nat
    BY <1>2, <1>3 DEF Task
  <2>2. tasks'[t] = [tasks[t] EXCEPT !.wait = Less(tasks[t].wait)]
    BY <1>1
  <2>. QED BY <2>1, <2>2 DEF Task
<1>5. ASSUME NEW t \in Tasks
      PROVE  /\ intents'[t] \in Intent
             /\ intents'[t].available = Less(intents[t].available)
             /\ intents'[t].generation = intents[t].generation
             /\ intents'[t].confirmed => intents[t].confirmed
             /\ intents[t] = NoIntent => intents'[t] = NoIntent
  <2>1. /\ intents[t] \in Intent /\ Less(intents[t].available) \in Nat
        /\ Less(intents[t].next) \in Nat /\ Less(intents[t].lease) \in Nat
    BY <1>2, <1>3 DEF Intent
  <2>2. intents'[t] = [intents[t] EXCEPT !.available = Less(intents[t].available),
                                         !.next = Less(intents[t].next),
                                         !.lease = Less(intents[t].lease)]
    BY <1>1
  <2>3. /\ intents'[t] \in Intent
        /\ intents'[t].available = Less(intents[t].available)
        /\ intents'[t].next = Less(intents[t].next)
        /\ intents'[t].lease = Less(intents[t].lease)
        /\ intents'[t].generation = intents[t].generation
        /\ intents'[t].token = intents[t].token
        /\ intents'[t].confirmed = intents[t].confirmed
    BY <2>1, <2>2 DEF Intent
  <2>4. ASSUME intents[t] = NoIntent PROVE intents'[t] = NoIntent
    <3>1. /\ intents[t].available = 0 /\ intents[t].next = 0 /\ intents[t].lease = 0
          /\ Less(0) = 0
      BY <2>4 DEF NoIntent, Less
    <3>2. intents'[t] = intents[t]
      BY <2>1, <2>3, <3>1, IntentEqual
    <3>. QED BY <2>4, <3>2
  <2>. QED BY <2>3, <2>4
<1>6. ASSUME NEW p \in Publishers
      PROVE  /\ publishers'[p] \in [stage : {"Idle", "Leased", "Sent"}, leases : SUBSET Lease,
                                    confirmed : SUBSET Lease, budget : Nat]
             /\ publishers'[p].leases = publishers[p].leases
             /\ publishers'[p].confirmed = publishers[p].confirmed
  <2>1. Less(publishers[p].budget) \in Nat
    BY <1>2, <1>3
  <2>2. publishers'[p] = [publishers[p] EXCEPT !.budget = Less(publishers[p].budget)]
    BY <1>1
  <2>. QED BY <1>2, <2>1, <2>2
<1>7. TypeOK'
  <2>1. /\ tasks' \in [Tasks -> Task] /\ intents' \in [Tasks -> Intent]
        /\ publishers' \in [Publishers -> [stage : {"Idle", "Leased", "Sent"},
                                           leases : SUBSET Lease, confirmed : SUBSET Lease,
                                           budget : Nat]]
    BY <1>1, <1>4, <1>5, <1>6
  <2>. QED BY <1>1, <2>1 DEF Inv, TypeOK
<1>8. TasksSound'
  <2>1. ASSUME NEW t \in Tasks
        PROVE  TaskSound(tasks'[t]) /\ Obliged(tasks'[t], intents'[t])
    <3>1. TaskSound(tasks[t]) /\ Obliged(tasks[t], intents[t])
      BY DEF Inv, TasksSound
    <3>2. TaskSound(tasks'[t])
      BY <1>4, <3>1 DEF TaskSound
    <3>3. tasks[t].wait \in Nat /\ intents[t].available \in Nat /\ CapacityDelay \in Nat
      BY <1>2, OutboxAssumption DEF Task, Intent
    <3>4. Obliged(tasks'[t], intents'[t])
      <4>1. CASE tasks[t].state = "Queued" /\ tasks[t].external
        <5>1. /\ intents[t].generation = tasks[t].attempt_count + 1
              /\ tasks[t].wait > 0 => intents[t].available = tasks[t].wait
              /\ tasks[t].wait = 0 => intents[t].available =< CapacityDelay
          BY <3>1, <4>1 DEF Obliged
        <5>2. /\ Less(tasks[t].wait) > 0 => Less(intents[t].available) = Less(tasks[t].wait)
              /\ Less(tasks[t].wait) = 0 => Less(intents[t].available) =< CapacityDelay
          BY <3>3, <5>1 DEF Less
        <5>. QED BY <1>4, <1>5, <4>1, <5>1, <5>2 DEF Obliged
      <4>2. CASE ~(tasks[t].state = "Queued" /\ tasks[t].external)
        BY <1>4, <1>5, <3>1, <4>2 DEF Obliged
      <4>. QED BY <4>1, <4>2
    <3>. QED BY <3>2, <3>4
  <2>. QED BY <2>1 DEF TasksSound
<1>9. ASSUME NEW record, Issued(record) PROVE Issued(record)'
  <2>1. record.task \in Tasks
    BY <1>9 DEF Issued, Record
  <2>. QED BY <1>4, <1>9, <2>1 DEF Issued, Bound
<1>10. RecordsSound'
  <2>1. ASSUME NEW c \in Slots
        PROVE  (IF slots[c].stage = "Selected" THEN Issued(slots[c].record)
                                               ELSE slots[c].record = NoRecord)'
    <3>1. PICK r : r = slots[c].record
      OBVIOUS
    <3>2. slots[c].stage = "Selected" => Issued(r)'
      BY <1>9, <3>1 DEF Inv, RecordsSound
    <3>3. slots'[c].stage = "Selected" => Issued(slots[c].record)'
      BY <1>1, <3>1, <3>2 DEF Issued
    <3>. QED BY <1>1, <3>3 DEF Inv, RecordsSound
  <2>2. /\ \A record \in broker' \cup wire' : Issued(record)'
        /\ \A p \in Publishers : \A l \in publishers'[p].leases : Issued(RecordOf(l))'
    BY <1>1, <1>6, <1>9 DEF Inv, RecordsSound
  <2>. QED BY <2>1, <2>2 DEF RecordsSound
<1>11. ConfirmationsSound'
  <2>1. ConfirmedWasStored'
    <3>. SUFFICES ASSUME NEW t \in Tasks, intents'[t].confirmed
                  PROVE  [task |-> t, generation |-> intents'[t].generation] \in delivered'
      BY DEF ConfirmedWasStored
    <3>1. intents[t].confirmed
      BY <1>5
    <3>2. [task |-> t, generation |-> intents[t].generation] \in delivered
      BY <3>1 DEF Inv, ConfirmationsSound, ConfirmedWasStored
    <3>3. intents'[t].generation = intents[t].generation
      BY <1>5
    <3>4. delivered' = delivered
      BY <1>1
    <3>. QED BY <3>2, <3>3, <3>4
  <2>. QED BY <1>1, <1>6, <2>1 DEF Inv, ConfirmationsSound
<1>12. RouteUniform'
  BY <1>1, <1>4 DEF Inv, RouteUniform
<1>. QED BY <1>7, <1>8, <1>10, <1>11, <1>12 DEF Inv

-----------------------------------------------------------------------------
(* The initial state is sound.                                             *)
LEMMA InitSound == Init => Inv
<1>. SUFFICES ASSUME Init PROVE Inv
  OBVIOUS
<1>. USE DEF Init
<1>1. TypeOK
  <2>1. Resting \in [stage : {"Idle", "Leased", "Sent"}, leases : SUBSET Lease,
                     confirmed : SUBSET Lease, budget : Nat]
    BY DEF Resting
  <2>2. FreeSlot \in [stage : {"Idle", "Selected"}, record : Record \cup {NoRecord},
                      receipt : Disposition \cup {NoReceipt}]
    BY DEF FreeSlot
  <2>. QED BY <2>1, <2>2, Constants DEF TypeOK
<1>2. TasksSound
  BY Constants DEF TasksSound
<1>3. RecordsSound
  BY Constants DEF RecordsSound, Resting
<1>4. ConfirmationsSound
  BY Constants DEF ConfirmationsSound, ConfirmedWasStored, Resting
<1>5. RouteUniform
  BY DEF RouteUniform, NoTask
<1>. QED BY <1>1, <1>2, <1>3, <1>4, <1>5 DEF Inv

(* Every step of the code keeps the invariant.                             *)
LEMMA NextSound == Inv /\ [Next]_vars => Inv'
<1>. SUFFICES ASSUME Inv, [Next]_vars PROVE Inv'
  OBVIOUS
<1>1. CASE Tick
  BY <1>1, TickSound
<1>2. CASE ActivateRoute
  BY <1>2, ActivateRouteSound
<1>3. CASE \E t \in Tasks : Submit(t) \/ PullClaim(t) \/ EndAttempt(t) \/ Cancel(t)
  BY <1>3, SubmitSound, PullClaimSound, EndAttemptSound, CancelSound
<1>4. CASE \E p \in Publishers :
              \/ \E batch \in SUBSET Tasks : LeasePublications(p, batch)
              \/ Send(p) \/ CompletePublications(p) \/ AbandonBatch(p)
  BY <1>4, LeasePublicationsSound, SendSound, CompletePublicationsSound, AbandonBatchSound
<1>5. CASE \E completion \in late : CompleteLate(completion)
  BY <1>5, CompleteLateSound
<1>6. CASE \/ \E record \in wire : Arrive(record)
           \/ \E record \in broker : Lose(record)
  <2>1. PICK record :
            (record \in wire /\ Arrive(record)) \/ (record \in broker /\ Lose(record))
    BY <1>6
  <2>. QED BY <2>1, BrokerSound
<1>7. ASSUME NEW c \in Slots,
             (\E record \in broker : Receive(c, record)) \/ Acknowledge(c) \/ DropSlot(c)
      PROVE  Inv'
  <2>1. CASE \E record \in broker : Receive(c, record)
    <3>1. PICK record \in broker : Receive(c, record)
      BY <2>1
    <3>2. PICK slot : slot = [stage |-> "Selected", record |-> record, receipt |-> NoReceipt]
      OBVIOUS
    <3>3. /\ slots' = [slots EXCEPT ![c] = slot] /\ broker' \subseteq broker
          /\ UNCHANGED <<route, tasks, intents, publishers, late, wire, delivered>>
      BY <3>1, <3>2 DEF Receive, Elsewhere
    <3>. QED BY <3>2, <3>3, SlotStepSound
  <2>2. CASE Acknowledge(c) \/ DropSlot(c)
    <3>1. /\ slots' = [slots EXCEPT ![c] = FreeSlot] /\ broker' \subseteq broker
          /\ UNCHANGED <<route, tasks, intents, publishers, late, wire, delivered>>
      BY <2>2 DEF Acknowledge, DropSlot, Elsewhere
    <3>. QED BY <3>1, SlotStepSound
  <2>. QED BY <1>7, <2>1, <2>2
<1>8. CASE \E c \in Slots : ClaimDispatch(c)
  BY <1>8, ClaimDispatchSound
<1>9. CASE UNCHANGED vars
  <2>1. /\ UNCHANGED <<route, tasks, intents, publishers, late, wire, broker, slots, delivered>>
    BY <1>9 DEF vars
  <2>2. \A record : Issued(record) => Issued(record)'
    BY <2>1 DEF Issued
  <2>. QED BY <2>1, <2>2, ElsewhereSound DEF Inv, TypeOK, TasksSound, RouteUniform, Elsewhere
<1>. QED BY <1>1, <1>2, <1>3, <1>4, <1>5, <1>6, <1>7, <1>8, <1>9 DEF Next

(* The inductive invariant holds in every state of external dispatch.      *)
THEOREM OutboxInvariant == Spec => []Inv
<1>1. Init => Inv
  BY InitSound
<1>2. Inv /\ [Next]_vars => Inv'
  BY NextSound
<1>. QED BY <1>1, <1>2, PTL DEF Spec

(* Rows and volatile state keep their types.                               *)
THEOREM TypeCorrect == Spec => []TypeOK
<1>1. Inv => TypeOK
  BY DEF Inv
<1>. QED BY <1>1, OutboxInvariant, PTL

(* sync_intent and defer_broker keep exactly one obligation per queued     *)
(* external task, for the generation that is to be claimed.                *)
THEOREM IntentIsObligationCorrect == Spec => []IntentIsObligation
<1>1. Inv => IntentIsObligation
  BY DEF Inv, TasksSound, Obliged, IntentIsObligation
<1>. QED BY <1>1, OutboxInvariant, PTL

(* A completion credits an intent only with a stored record of its own     *)
(* generation.                                                             *)
THEOREM ConfirmedWasStoredCorrect == Spec => []ConfirmedWasStored
<1>1. Inv => ConfirmedWasStored
  BY DEF Inv, ConfirmationsSound
<1>. QED BY <1>1, OutboxInvariant, PTL

(* activate_route never strands unfinished work.                           *)
THEOREM RouteUniformCorrect == Spec => []RouteUniform
<1>1. Inv => RouteUniform
  BY DEF Inv
<1>. QED BY <1>1, OutboxInvariant, PTL

(* Every record that may ever reach a worker can be claimed or handled.    *)
THEOREM ClaimsResolveCorrect == Spec => []ClaimsResolve
<1>1. ASSUME Inv, NEW record, Issued(record)
      PROVE  /\ ~Unissued(record) /\ ~Unobliged(record) /\ ~Undeferrable(record)
             /\ tasks[record.task].external /\ tasks[record.task].state # "Absent"
  <2>. DEFINE task == tasks[record.task]
              intent == intents[record.task]
  <2>1. /\ record.task \in Tasks /\ record.generation \in 1 .. MaxAttempts
        /\ task.external /\ record.generation =< Bound(task)
    BY <1>1 DEF Issued, Record, Generation
  <2>2. /\ task \in Task /\ intent \in Intent
        /\ TaskSound(task) /\ Obliged(task, intent)
    BY <1>1, <2>1 DEF Inv, TypeOK, TasksSound
  <2>3. task.attempt_count \in Nat /\ task.wait \in Nat /\ intent.available \in Nat
    BY <2>2, OutboxAssumption DEF Task, Intent
  <2>4. ~Unissued(record)
    BY <2>1, <2>3, OutboxAssumption DEF Unissued, Bound
  <2>5. ~Unobliged(record)
    BY <2>1, <2>2 DEF Unobliged, Obliged
  <2>6. ~Undeferrable(record)
    <3>1. SUFFICES ASSUME Ready(record)
                   PROVE  /\ intent.generation = record.generation
                          /\ DeferredIntent(intent, record.generation).available
                                \in 1 .. CapacityDelay
      BY DEF Undeferrable
    <3>2. intent.generation = record.generation /\ intent.available =< CapacityDelay
      BY <2>1, <2>2, <3>1 DEF Ready, Obliged
    <3>3. FreshIntent(record.generation, CapacityDelay).available = CapacityDelay
      BY DEF FreshIntent
    <3>4. \/ /\ DeferredIntent(intent, record.generation) = intent
             /\ intent.available > 0
          \/ DeferredIntent(intent, record.generation)
                = FreshIntent(record.generation, CapacityDelay)
      BY DEF DeferredIntent
    <3>. QED BY <2>3, <3>2, <3>3, <3>4, OutboxAssumption
  <2>7. task.state # "Absent"
    BY <2>1, <2>2 DEF TaskSound
  <2>. QED BY <2>1, <2>4, <2>5, <2>6, <2>7
<1>2. ASSUME Inv, NEW record \in Records \ {NoRecord} PROVE Issued(record)
  BY <1>2 DEF Inv, RecordsSound, Records
<1>3. Inv => ClaimsResolve
  BY <1>1, <1>2 DEF ClaimsResolve
<1>. QED BY <1>3, OutboxInvariant, PTL

(* Every invariant of the outbox holds in every reachable state.           *)
THEOREM OutboxSoundCorrect == Spec => []OutboxSound
<1>1. OutboxSound <=> TypeOK /\ IntentIsObligation /\ ClaimsResolve /\ ConfirmedWasStored /\ RouteUniform
  BY DEF OutboxSound
<1> QED
  BY <1>1, TypeCorrect, IntentIsObligationCorrect, ClaimsResolveCorrect, ConfirmedWasStoredCorrect,
     RouteUniformCorrect, PTL

==============================================================================
