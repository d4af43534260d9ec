--------------------------- MODULE WorkflowRuntime ---------------------------
(***************************************************************************)
(* Durable workflows: runs, the controller activations and children they   *)
(* own, and the obligations (workflow_work) that coordinators claim, apply *)
(* and retry.                                                              *)
(*                                                                         *)
(* Every transaction on a run takes its row first, so it is one step. A    *)
(* child ends in a transaction of its own that takes no lock of its        *)
(* parent; what a parent's transaction reads of its children only ever     *)
(* turns terminal, so a child that ends between that read and the commit   *)
(* is a child that ends after it. A run is named by the keys that lead to  *)
(* it from its root, and an activation by the revision it was scheduled    *)
(* at. Delays of a row are left out: a row is found by a later claim.      *)
(***************************************************************************)
EXTENDS Integers, FiniteSets, Sequences

CONSTANTS
    Runs,            \* paths of keys; <<>> is the submitted root
    Keys,            \* child command keys
    Inputs,          \* what a child command carries
    Descriptors,     \* what the catalog may answer for a program
    Program(_, _),   \* Program(w, r): decisions the controller of w may return at revision r
    ForkKeys,        \* keys a controller may fork
    Cancelled,       \* runs whose cancellation may be requested
    TaskCancelled,   \* runs whose activation may be cancelled as a task
    Coordinators,    \* obligations in flight in the coordinators
    MaxRevision,     \* u64::MAX
    MaxCommands,     \* WORKFLOW_MAX_COMMANDS
    MaxLive,         \* WORKFLOW_MAX_LIVE_SUBWORKFLOWS
    MaxDepth,        \* WORKFLOW_MAX_DEPTH
    DrainBatch,      \* DRAIN_BATCH
    MaxFailures,     \* retries that fill APPLICATION_DEADLINE_MS
    None

Revisions == 0 .. MaxRevision
Root      == <<>>

RuntimeAssumption ==
    /\ Root \in Runs /\ Runs \subseteq Seq(Keys)
    /\ ForkKeys \subseteq Keys /\ Cancelled \subseteq Runs /\ TaskCancelled \subseteq Runs
    /\ MaxRevision \in Nat /\ MaxCommands \in Nat /\ MaxLive \in Nat /\ MaxDepth \in Nat
    /\ DrainBatch \in Nat \ {0} /\ MaxFailures \in Nat
    /\ \A w \in Runs, k \in Keys : Len(w) < MaxDepth => Append(w, k) \in Runs

VARIABLES
    runs,   \* workflow_runs
    acts,   \* workflow_activations, their tasks and task links
    kids,   \* workflow_task_links of children, and owned_workflow_links
    work,   \* workflow_work and workflow_resolution_progress
    coord   \* the obligation each coordinator carries

vars == <<runs, acts, kids, work, coord>>

Ended        == {"Succeeded", "Failed", "Cancelled"}
Stopping     == {"Failing", "Cancelling"}
RunStates    == {"none", "Running", "Waiting"} \cup Stopping \cup Ended
TaskStates   == {"none", "queued", "active", "stopping"} \cup Ended
Actions      == {"none", "invalid", "suspend", "continue", "complete", "fail"}

RunRecord  == [state : RunStates, revision : Revisions, activation : Revisions \cup {-1},
               wait : Revisions \cup {-1}, until : SUBSET Keys]
Command    == [key : Keys, kind : {"task", "workflow"}, input : Inputs]
Decision   == [action : Actions, commands : SUBSET Command, until : SUBSET Keys]
Activation == [task : TaskStates, inputs : SUBSET Keys, decision : Decision, applied : BOOLEAN]
Link       == [kind : {"none", "task", "workflow"}, task : TaskStates, by : Revisions,
               input : Inputs \cup {None}, fork : BOOLEAN, consumed : BOOLEAN,
               cancel : BOOLEAN, descriptor : Descriptors \cup {None}]
Bindings   == [Keys -> Descriptors \cup {None}]
Row        == [status : {"none", "open", "done"}, holder : Coordinators \cup {None},
               live : BOOLEAN, failures : 0 .. MaxFailures, pins : Bindings]

(* WorkflowWorkSource: the end of an activation or of a child, and the two *)
(* ways of stopping.                                                       *)
WorkIds == ({"activation"} \X Runs \X Revisions) \cup ({"child"} \X Runs \X Keys)
           \cup ({"drain", "cancel_owned"} \X Runs \X {0})

NoBindings == [k \in Keys |-> None]
NoDecision == [action |-> "none", commands |-> {}, until |-> {}]
NoRun      == [state |-> "none", revision |-> 0, activation |-> -1, wait |-> -1, until |-> {}]
NoAct      == [task |-> "none", inputs |-> {}, decision |-> NoDecision, applied |-> FALSE]
NoLink     == [kind |-> "none", task |-> "none", by |-> 0, input |-> None, fork |-> FALSE,
               consumed |-> FALSE, cancel |-> FALSE, descriptor |-> None]
NoRow      == [status |-> "none", holder |-> None, live |-> FALSE, failures |-> 0,
               pins |-> NoBindings]
Idle       == [stage |-> "idle", item |-> None, bound |-> NoBindings]

TypeOK ==
    /\ runs \in [Runs -> RunRecord]
    /\ acts \in [Runs -> [Revisions -> Activation]]
    /\ kids \in [Runs -> [Keys -> Link]]
    /\ work \in [WorkIds -> Row]
    /\ coord \in [Coordinators ->
           [stage : {"idle", "resolving", "retry", "reject"}, item : WorkIds \cup {None},
            bound : Bindings]]

Init ==
    /\ runs = [w \in Runs |-> NoRun]
    /\ acts = [w \in Runs |-> [r \in Revisions |-> NoAct]]
    /\ kids = [w \in Runs |-> [k \in Keys |-> NoLink]]
    /\ work = [i \in WorkIds |-> NoRow]
    /\ coord = [c \in Coordinators |-> Idle]

(***************************************************************************)
(* The database as one value, so that the parts of a transaction compose.  *)
(***************************************************************************)
Store == [runs |-> runs, acts |-> acts, kids |-> kids, work |-> work]

Commit(s) == runs' = s.runs /\ acts' = s.acts /\ kids' = s.kids /\ work' = s.work

Parent(w) == SubSeq(w, 1, Len(w) - 1)

KidEnded(s, w, k) ==
    IF s.kids[w][k].kind = "workflow" THEN s.runs[Append(w, k)].state \in Ended
    ELSE s.kids[w][k].task \in Ended

Registered(s, w) == {k \in Keys : s.kids[w][k].kind # "none"}

Unfinished(s, w) ==
    \/ \E r \in Revisions : s.acts[w][r].task \notin Ended \cup {"none"}
    \/ \E k \in Registered(s, w) : ~KidEnded(s, w, k)

(* INSERT ... ON CONFLICT DO NOTHING.                                      *)
Notify(s, i) == IF s.work[i].status = "none" THEN [s EXCEPT !.work[i].status = "open"] ELSE s

Finish(s, i) == [s EXCEPT !.work[i] = [@ EXCEPT !.status = "done", !.holder = None, !.live = FALSE]]

Rearm(s, i) == [s EXCEPT !.work[i] = [@ EXCEPT !.holder = None, !.live = FALSE]]

(* The upsert reopens a processed drain and leaves a lease alone.          *)
EnqueueDrain(s, w) == [s EXCEPT !.work[<<"drain", w, 0>>].status = "open"]

(* Mutant of TerminalRun: the parent is not told.                          *)
TerminalRunQuietly(s, w, state) ==
    [s EXCEPT !.runs[w] = [@ EXCEPT !.state = state, !.activation = -1, !.wait = -1, !.until = {}]]

(* A run ends; save_run leaves the obligation of its owner.                *)
TerminalRun(s, w, state) ==
    LET ended == [s EXCEPT !.runs[w] = [@ EXCEPT !.state = state, !.activation = -1,
                                                 !.wait = -1, !.until = {}]]
    IN IF w = Root THEN ended ELSE Notify(ended, <<"child", Parent(w), w[Len(w)]>>)

Schedule(s, w, inputs) ==
    [s EXCEPT !.acts[w][s.runs[w].revision] = [NoAct EXCEPT !.task = "queued", !.inputs = inputs],
              !.runs[w] = [@ EXCEPT !.state = "Running", !.activation = s.runs[w].revision,
                                    !.wait = -1, !.until = {}]]

Stop(s, w, state) == EnqueueDrain([s EXCEPT !.runs[w].state = state], w)

(* Mutant of FailRun: a failure may follow a cancellation.                 *)
FailRunAgain(s, w) == IF s.runs[w].state \in Ended THEN s ELSE Stop(s, w, "Failing")

FailRun(s, w) ==
    IF s.runs[w].state \in Ended \cup Stopping THEN s ELSE Stop(s, w, "Failing")

CancelRun(s, w) ==
    IF s.runs[w].state \in Ended \cup {"Cancelling"} THEN s ELSE Stop(s, w, "Cancelling")

(* core::cancel of a task and the obligation of its end.                   *)
CancelTaskOf(state) == CASE state = "queued" -> "Cancelled"
                         [] state = "active" -> "stopping"
                         [] OTHER -> state

SetAct(s, w, r, state) ==
    LET t == [s EXCEPT !.acts[w][r].task = state]
    IN IF state \in Ended /\ s.acts[w][r].task \notin Ended
       THEN Notify(t, <<"activation", w, r>>) ELSE t

SetKid(s, w, k, state) ==
    LET t == [s EXCEPT !.kids[w][k].task = state]
    IN IF state \in Ended /\ s.kids[w][k].task \notin Ended
       THEN Notify(t, <<"child", w, k>>) ELSE t

(***************************************************************************)
(* Submission, tasks and cancellation.                                     *)
(***************************************************************************)
Accept ==
    /\ runs[Root].state = "none"
    /\ Commit(Schedule(Store, Root, {}))
    /\ UNCHANGED coord

StartTask ==
    /\ \/ \E w \in Runs, r \in Revisions :
             acts[w][r].task = "queued" /\ Commit(SetAct(Store, w, r, "active"))
       \/ \E w \in Runs, k \in Keys :
             kids[w][k].task = "queued" /\ Commit(SetKid(Store, w, k, "active"))
    /\ UNCHANGED coord

(* A controller's task ends: settled with a decision, out of attempts, or  *)
(* stopped.                                                                *)
EndActivation(w, r) ==
    /\ acts[w][r].task \in {"active", "stopping"}
    /\ \/ \E d \in Program(w, r) :
             Commit(SetAct([Store EXCEPT !.acts[w][r].decision = d], w, r, "Succeeded"))
       \/ Commit(SetAct(Store, w, r, "Failed"))
       \/ acts[w][r].task = "stopping" /\ Commit(SetAct(Store, w, r, "Cancelled"))
    /\ UNCHANGED coord

(* Whatever its outcome, a settled child is an ended one.                  *)
EndChild(w, k) ==
    /\ kids[w][k].task \in {"active", "stopping"}
    /\ \/ Commit(SetKid(Store, w, k, "Succeeded"))
       \/ kids[w][k].task = "stopping" /\ Commit(SetKid(Store, w, k, "Cancelled"))
    /\ UNCHANGED coord

(* The task of an activation is cancelled by itself.                       *)
CancelActivation(w) ==
    /\ w \in TaskCancelled /\ runs[w].activation # -1
    /\ acts[w][runs[w].activation].task \in {"queued", "active"}
    /\ Commit(SetAct(Store, w, runs[w].activation, CancelTaskOf(acts[w][runs[w].activation].task)))
    /\ UNCHANGED coord

CancelWorkflow(w) ==
    /\ w \in Cancelled /\ runs[w].state \in {"Running", "Waiting", "Failing"}
    /\ Commit(CancelRun(Store, w))
    /\ UNCHANGED coord

(***************************************************************************)
(* Children.                                                               *)
(***************************************************************************)
RegisteredBy(w, r) == {k \in Registered(Store, w) : kids[w][k].by = r}

LiveOwned(w) == {k \in Registered(Store, w) : kids[w][k].kind = "workflow" /\ ~KidEnded(Store, w, k)}

(* check_child_budget, and the limits of create_child_at.                  *)
TooMany(w, r, new) ==
    LET owned == {c \in new : c.kind = "workflow"}
    IN \/ Cardinality(RegisteredBy(w, r)) + Cardinality(new) > MaxCommands
       \/ owned # {} /\ Len(w) >= MaxDepth
       \/ owned # {} /\ Cardinality(LiveOwned(w)) + Cardinality(owned) > MaxLive

(* A child task is queued; an owned workflow starts with its activation 0. *)
Create(s, w, r, new, bound, fork) ==
    LET Owned(v) == v # Root /\ \E c \in new : c.kind = "workflow" /\ v = Append(w, c.key)
        Made(c)  == [NoLink EXCEPT !.kind = c.kind, !.by = r, !.input = c.input, !.fork = fork,
                                   !.task = IF c.kind = "task" THEN "queued" ELSE "none",
                                   !.descriptor = bound[c.key]]
    IN [s EXCEPT !.kids[w] = [k \in Keys |-> IF \E c \in new : c.key = k
                                             THEN Made(CHOOSE c \in new : c.key = k) ELSE @[k]],
                 !.runs = [v \in Runs |-> IF Owned(v) THEN [NoRun EXCEPT !.state = "Running", !.activation = 0]
                                          ELSE @[v]],
                 !.acts = [v \in Runs |-> IF Owned(v) THEN [@[v] EXCEPT ![0] = [NoAct EXCEPT !.task = "queued"]]
                                          ELSE @[v]]]

(* fork_workflow of a live activation: branches under the parent's own     *)
(* program; a key that is taken is a conflict.                             *)
Fork(w, branches) ==
    /\ runs[w].state = "Running"
    /\ acts[w][runs[w].activation].task = "active"
    /\ branches # {} /\ branches \cap Registered(Store, w) = {}
    /\ LET new == {[key |-> k, kind |-> "workflow", input |-> i] : k \in branches, i \in {CHOOSE j \in Inputs : TRUE}}
       IN /\ ~TooMany(w, runs[w].activation, new)
          /\ Commit(Create(Store, w, runs[w].activation, new, NoBindings, TRUE))
    /\ UNCHANGED coord

(***************************************************************************)
(* Coordinators: claim, resolve, apply, retry, reject.                     *)
(***************************************************************************)
DecisionOf(i) == IF i[1] = "activation" /\ acts[i[2]][i[3]].task = "Succeeded"
                 THEN acts[i[2]][i[3]].decision ELSE NoDecision

CommandKeys(i) == {c.key : c \in DecisionOf(i).commands}

(* claim_work: the row is leased, and the descriptors of children that are *)
(* registered or were checkpointed come with it.                           *)
Claim(c, i) ==
    /\ coord[c].stage = "idle"
    /\ work[i].status = "open" /\ ~work[i].live
    /\ work' = [work EXCEPT ![i] = [@ EXCEPT !.holder = c, !.live = TRUE]]
    /\ coord' = [coord EXCEPT ![c] =
          [stage |-> "resolving", item |-> i,
           bound |-> [k \in Keys |->
               IF k \notin CommandKeys(i) THEN None
               ELSE IF kids[i[2]][k].kind # "none" THEN kids[i[2]][k].descriptor
               ELSE work[i].pins[k]]]]
    /\ UNCHANGED <<runs, acts, kids>>

Unresolved(c) == {k \in CommandKeys(coord[c].item) : coord[c].bound[k] = None
                      /\ kids[coord[c].item[2]][k].kind = "none"}

Resolve(c, k, d) ==
    /\ coord[c].stage = "resolving" /\ k \in Unresolved(c)
    /\ coord' = [coord EXCEPT ![c].bound[k] = d]
    /\ UNCHANGED <<runs, acts, kids, work>>

(* The catalog is unavailable or its deadline of 20 s passes; or it does   *)
(* not know a program, or the controller's output is no decision of its    *)
(* activation.  "retry" is also what follows an apply_work that found the  *)
(* store unavailable, or a completing run whose provider recovery has not  *)
(* stopped (when that is so, ProviderOperation says: Quiet).               *)
ResolveFails(c, stage) ==
    /\ coord[c].stage = "resolving"
    /\ stage = "reject" => Unresolved(c) # {} \/ DecisionOf(coord[c].item).action = "invalid"
    /\ coord' = [coord EXCEPT ![c].stage = stage]
    /\ UNCHANGED <<runs, acts, kids, work>>

(* The coordinator stops, or cannot reach the store; its lease lapses.     *)
Crash(c) ==
    /\ coord[c].stage # "idle"
    /\ coord' = [coord EXCEPT ![c] = Idle]
    /\ UNCHANGED <<runs, acts, kids, work>>

LeaseLapses(i) ==
    /\ work[i].live
    /\ work' = [work EXCEPT ![i].live = FALSE]
    /\ UNCHANGED <<runs, acts, kids, coord>>

(* lock_work, under the run's lock.                                        *)
Holds(c) == LET row == work[coord[c].item]
            IN row.status = "open" /\ row.holder = c /\ row.live

(* with_pinned: a checkpointed binding wins, a differing one is a conflict.*)
PinConflict(i, bound) == \E k \in Keys : None \notin {work[i].pins[k], bound[k]}
                                         /\ work[i].pins[k] # bound[k]

WithPinned(i, bound) == [k \in Keys |-> IF work[i].pins[k] # None THEN work[i].pins[k] ELSE bound[k]]

(* The checks of plan_workflow_decision and apply_decision that end in     *)
(* InvalidInput or Conflict.                                               *)
Refused(w, d, bound) ==
    LET new == {c \in d.commands : kids[w][c.key].kind = "none"}
    IN \/ runs[w].revision = MaxRevision
       \/ d.action = "complete" /\ Unfinished(Store, w)
       \/ \E c \in d.commands \ new : \/ kids[w][c.key].kind # c.kind
                                      \/ kids[w][c.key].input # c.input
                                      \/ kids[w][c.key].fork
       \/ \E c \in new : bound[c.key] = None
       \/ TooMany(w, runs[w].revision, new)
       \/ ~(d.until \subseteq Registered(Store, w) \cup {c.key : c \in new})

Pending(s, w) == {k \in Registered(s, w) : KidEnded(s, w, k) /\ ~s.kids[w][k].consumed}

(* Mutant of Dispose: a suspended run waits for the next end of a child.   *)
DisposeBlindly(s, w, d) ==
    CASE d.action = "suspend"  -> [s EXCEPT !.runs[w] = [@ EXCEPT !.state = "Waiting", !.activation = -1,
                                      !.wait = s.runs[w].revision - 1, !.until = d.until]]
      [] d.action = "continue" -> Schedule(s, w, Pending(s, w))
      [] d.action = "complete" -> TerminalRun(s, w, "Succeeded")
      [] OTHER                 -> FailRun(s, w)

Dispose(s, w, d) ==
    CASE d.action = "suspend" ->
           IF \A k \in d.until : KidEnded(s, w, k) THEN Schedule(s, w, d.until)
           ELSE [s EXCEPT !.runs[w] = [@ EXCEPT !.state = "Waiting", !.activation = -1,
                                                !.wait = s.runs[w].revision - 1, !.until = d.until]]
      [] d.action = "continue" -> Schedule(s, w, Pending(s, w))
      [] d.action = "complete" -> TerminalRun(s, w, "Succeeded")
      [] OTHER                 -> FailRun(s, w)

(* apply_decision: children, consumed inputs, the next revision, and what  *)
(* the decision asks for.                                                  *)
ApplyDecision(w, d, bound) ==
    LET r    == runs[w].revision
        new  == {c \in d.commands : kids[w][c.key].kind = "none"}
        made == Create(Store, w, r, new, bound, FALSE)
        used == [made EXCEPT
                   !.kids[w] = [k \in Keys |-> IF k \in acts[w][r].inputs
                                               THEN [@[k] EXCEPT !.consumed = TRUE] ELSE @[k]],
                   !.runs[w].revision = r + 1,
                   !.acts[w][r].applied = TRUE]
    IN Dispose(used, w, d)

(* The end of a child resumes a run that waits for it and for no other.    *)
Resumed(w) ==
    IF runs[w].state = "Waiting" /\ \A k \in runs[w].until : KidEnded(Store, w, k)
    THEN Schedule(Store, w, runs[w].until) ELSE Store

(* One batch of a drain: tasks are cancelled first, and what is left of    *)
(* the batch tells owned workflows.                                        *)
Drained(w) ==
    LET acting   == {r \in Revisions : acts[w][r].task \in {"queued", "active"}}
        tasks    == {k \in Keys : kids[w][k].task \in {"queued", "active"}}
        owned    == {k \in LiveOwned(w) : ~kids[w][k].cancel}
        Least(n) == IF n < DrainBatch THEN n ELSE DrainBatch
        count    == Least(Cardinality(acting) + Cardinality(tasks))
        Apply1(as, ks) ==
            [Store EXCEPT
                !.acts[w] = [r \in Revisions |-> IF r \in as THEN [@[r] EXCEPT !.task = CancelTaskOf(@)] ELSE @[r]],
                !.kids[w] = [k \in Keys |-> IF k \in ks THEN [@[k] EXCEPT !.task = CancelTaskOf(@)] ELSE @[k]],
                !.work = [i \in WorkIds |->
                    IF @[i].status = "none" /\ i[2] = w
                       /\ \/ i[1] = "activation" /\ i[3] \in as /\ acts[w][i[3]].task = "queued"
                          \/ i[1] = "child" /\ i[3] \in ks /\ kids[w][i[3]].task = "queued"
                    THEN [@[i] EXCEPT !.status = "open"] ELSE @[i]]]
        Told(s, ks) ==
            [s EXCEPT
                !.kids[w] = [k \in Keys |-> IF k \in ks THEN [@[k] EXCEPT !.cancel = TRUE] ELSE @[k]],
                !.work = [i \in WorkIds |->
                    IF @[i].status = "none" /\ i[1] = "cancel_owned" /\ i[2] \in {Append(w, k) : k \in ks}
                    THEN [@[i] EXCEPT !.status = "open"] ELSE @[i]]]
        rest     == IF DrainBatch - count < Cardinality(owned) THEN DrainBatch - count
                    ELSE Cardinality(owned)
    IN {Told(Apply1(as, ks), os) :
           <<as, ks, os>> \in {x \in (SUBSET acting) \X (SUBSET tasks) \X (SUBSET owned) :
               /\ Cardinality(x[1]) + Cardinality(x[2]) = count
               /\ Cardinality(x[3]) = rest}}

DrainEnds(s, w, i) ==
    IF Unfinished(s, w) THEN Rearm(s, i)
    ELSE Finish(TerminalRun(s, w, IF s.runs[w].state = "Cancelling" THEN "Cancelled" ELSE "Failed"), i)

(* apply_work of a row the caller still holds.                             *)
Outcomes(i, bound) ==
    LET w == i[2]
        cleared(s) == [s EXCEPT !.work[i].pins = NoBindings]
    IN IF runs[w].state \in Ended THEN {Finish(cleared(Store), i)}
       ELSE IF i[1] = "drain" THEN {DrainEnds(s, w, i) : s \in Drained(w)}
       ELSE IF i[1] = "cancel_owned" THEN {Finish(CancelRun(Store, w), i)}
       ELSE IF runs[w].state \in Stopping THEN {Finish(EnqueueDrain(cleared(Store), w), i)}
       ELSE IF i[1] = "child" THEN {Finish(Resumed(w), i)}
       ELSE IF acts[w][i[3]].task # "Succeeded" THEN {Finish(FailRun(cleared(Store), w), i)}
       ELSE {Finish(cleared(ApplyDecision(w, acts[w][i[3]].decision, WithPinned(i, bound))), i)}

(* apply_work answers a decision it cannot apply with InvalidInput or      *)
(* Conflict, and changes nothing.                                          *)
Rejected(i, bound) ==
    /\ i[1] = "activation" /\ runs[i[2]].state \notin Ended \cup Stopping
    /\ acts[i[2]][i[3]].task = "Succeeded"
    /\ \/ PinConflict(i, bound)
       \/ Refused(i[2], acts[i[2]][i[3]].decision, WithPinned(i, bound))

(* The reply of a transaction that committed may be lost: the coordinator  *)
(* retries the row.                                                        *)
Apply(c) ==
    /\ coord[c].stage = "resolving" /\ Unresolved(c) = {}
    /\ DecisionOf(coord[c].item).action # "invalid"
    /\ IF ~Holds(c)
       THEN UNCHANGED <<runs, acts, kids, work>> /\ coord' = [coord EXCEPT ![c] = Idle]
       ELSE IF Rejected(coord[c].item, coord[c].bound)
       THEN UNCHANGED <<runs, acts, kids, work>> /\ coord' = [coord EXCEPT ![c].stage = "reject"]
       ELSE /\ \E s \in Outcomes(coord[c].item, coord[c].bound) : Commit(s)
            /\ \/ coord' = [coord EXCEPT ![c] = Idle]
               \/ coord' = [coord EXCEPT ![c].stage = "retry"]

(* retry_work: the row is given back with the descriptors found so far,    *)
(* until the obligation is a day old.                                      *)
Retry(c) ==
    LET i == coord[c].item
    IN /\ coord[c].stage = "retry"
       /\ coord' = [coord EXCEPT ![c] = Idle]
       /\ IF ~Holds(c) THEN UNCHANGED <<runs, acts, kids, work>>
          ELSE IF i[1] \in {"activation", "child"} /\ work[i].failures = MaxFailures
          THEN Commit(Finish(FailRun([Store EXCEPT !.work[i].pins = NoBindings], i[2]), i))
          ELSE IF PinConflict(i, coord[c].bound) THEN UNCHANGED <<runs, acts, kids, work>>
          ELSE Commit([Rearm(Store, i) EXCEPT
                 !.work[i].pins = IF i[1] = "activation" THEN WithPinned(i, coord[c].bound) ELSE @,
                 !.work[i].failures = IF @ < MaxFailures THEN @ + 1 ELSE @])

(* reject_work: the run fails and the decision counts as applied.          *)
Reject(c) ==
    LET i == coord[c].item
    IN /\ coord[c].stage = "reject"
       /\ coord' = [coord EXCEPT ![c] = Idle]
       /\ IF ~Holds(c) THEN UNCHANGED <<runs, acts, kids, work>>
          ELSE Commit(Finish(FailRun([Store EXCEPT !.work[i].pins = NoBindings,
                                                   !.acts[i[2]][i[3]].applied = TRUE], i[2]), i))

Next ==
    \/ Accept \/ StartTask
    \/ \E w \in Runs, r \in Revisions : EndActivation(w, r)
    \/ \E w \in Runs, k \in Keys : EndChild(w, k)
    \/ \E w \in Runs : CancelActivation(w) \/ CancelWorkflow(w)
    \/ \E w \in Runs : \E branches \in SUBSET ForkKeys : Fork(w, branches)
    \/ \E c \in Coordinators :
         \/ \E i \in WorkIds : Claim(c, i)
         \/ \E k \in Keys, d \in Descriptors : Resolve(c, k, d)
         \/ \E stage \in {"retry", "reject"} : ResolveFails(c, stage)
         \/ Apply(c) \/ Retry(c) \/ Reject(c) \/ Crash(c)
    \/ \E i \in WorkIds : LeaseLapses(i)

Spec == Init /\ [][Next]_vars

(***************************************************************************)
(* Correctness.                                                            *)
(***************************************************************************)
(* A run that waits for children that have all ended, each in a            *)
(* transaction that does not lock the run, still has an unprocessed        *)
(* obligation of one of them to resume it.                                 *)
NoLostWakeup ==
    \A w \in Runs :
        runs[w].state = "Waiting" /\ (\A k \in runs[w].until : KidEnded(Store, w, k)) =>
            \E k \in runs[w].until : work[<<"child", w, k>>].status = "open"

(* However often an obligation is claimed, retried or applied by late      *)
(* coordinators, a run has at most one controller at work, the one of its  *)
(* current revision, and a running run has it or its unprocessed end.      *)
OneController ==
    \A w \in Runs :
        /\ \A r \in Revisions :
              acts[w][r].task \in {"queued", "active", "stopping"} => runs[w].activation = r
        /\ runs[w].state = "Running" =>
              /\ runs[w].activation = runs[w].revision
              /\ \/ acts[w][runs[w].revision].task \in {"queued", "active", "stopping"}
                 \/ work[<<"activation", w, runs[w].revision>>].status = "open"

(* A run that has ended owns nothing that still runs: not a controller,    *)
(* not a child task, and not a workflow below it.                          *)
EndedMeansQuiet ==
    \A w \in Runs : runs[w].state \in Ended =>
        /\ ~Unfinished(Store, w)
        /\ \A k \in Keys : Len(w) < MaxDepth => runs[Append(w, k)].state \in Ended \cup {"none"}

(* Descriptors checkpointed by an earlier try of an obligation are the     *)
(* ones its present holder carries: what the catalog answers meanwhile     *)
(* neither rebinds a child nor fails the run with a conflict.              *)
CheckpointIsCarried ==
    \A c \in Coordinators : coord[c].stage # "idle" /\ Holds(c) =>
        \A k \in Keys : work[coord[c].item].pins[k] # None =>
            coord[c].bound[k] = work[coord[c].item].pins[k]

(* Once a run fails or is cancelled it gains no child and no activation,   *)
(* and a cancellation is not turned into a failure or a success by an      *)
(* obligation, retry or decision that was already under way.               *)
StopStands ==
    \A w \in Runs : runs[w].state \in Stopping \cup Ended =>
       /\ Registered(Store, w)' = Registered(Store, w)
       /\ \A r \in Revisions : acts[w][r].task = "none" => acts'[w][r].task = "none"
       /\ runs'[w].state \in Stopping \cup {"Failed", "Cancelled"} \/ runs'[w].state = runs[w].state
       /\ runs[w].state = "Cancelling" => runs'[w].state \in {"Cancelling", "Cancelled"}
       /\ runs[w].state \in Ended => runs'[w] = runs[w]

StopIsFinal == [][StopStands]_vars

(* The invariants of a tree of runs together.                              *)
RunsSound == TypeOK /\ NoLostWakeup /\ OneController /\ EndedMeansQuiet /\ CheckpointIsCarried

(***************************************************************************)
(* Fairness: tasks end or expire, leases lapse, coordinators keep polling  *)
(* and take the oldest obligations first, and what makes a try fail (a     *)
(* crash, an unavailable catalog, a lost reply) does not go on for ever.   *)
(***************************************************************************)
Abandoned(i) == work[i].live => coord[work[i].holder].item # i

Fault ==
    \/ \E c \in Coordinators : coord[c].stage = "resolving" /\ coord'[c].stage = "retry"
    \/ \E c \in Coordinators : coord[c].stage # "idle" /\ Holds(c) /\ coord'[c].stage = "idle"
                               /\ UNCHANGED <<runs, acts, kids, work>>
    \/ \E i \in WorkIds : ~Abandoned(i) /\ LeaseLapses(i)

Fairness ==
    /\ <>[][~Fault]_vars
    /\ WF_vars(StartTask)
    /\ \A w \in Runs : \A r \in Revisions : WF_vars(EndActivation(w, r))
    /\ \A w \in Runs : \A k \in Keys : WF_vars(EndChild(w, k))
    /\ \A i \in WorkIds : WF_vars(Abandoned(i) /\ LeaseLapses(i))
    /\ SF_vars(\E c \in Coordinators, i \in WorkIds : i[1] # "drain" /\ Claim(c, i))
    /\ \A w \in Runs : SF_vars(\E c \in Coordinators : Claim(c, <<"drain", w, 0>>))
    /\ \A c \in Coordinators :
          /\ WF_vars(Retry(c)) /\ WF_vars(Reject(c))
          /\ WF_vars(Apply(c) \/ ResolveFails(c, "reject") \/ \E k \in Keys, d \in Descriptors : Resolve(c, k, d))

LiveSpec == Spec /\ Fairness

(* Every accepted run ends, and with it everything it owns, whatever its   *)
(* controllers decide and wherever a coordinator or the catalog fails.     *)
RunsEnd == \A w \in Runs : runs[w].state # "none" ~> runs[w].state \in Ended
==============================================================================
