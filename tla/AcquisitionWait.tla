---------------------------- MODULE AcquisitionWait ----------------------------
(***************************************************************************)
(* Long polling for tasks: requests register with the coordinator of their *)
(* process, probe the store, park when it has nothing, and are nominated   *)
(* for another probe when a hint or the fallback tick opens their queue.   *)
(*                                                                         *)
(* Each section under the coordinator's lock is one action (sections that  *)
(* follow each other without an await are taken together), each store      *)
(* probe another.  An epoch is only ever compared with its queue's current *)
(* one, so the model keeps whether they are equal instead of the number.   *)
(***************************************************************************)
EXTENDS Integers, Sequences, FiniteSets, SequencesExt

CONSTANTS
    Calls,          \* acquire requests
    Key,            \* Key[c]: session, consumer and sequence of a request
    QueueOf,        \* QueueOf[k]: the queue of a key
    MaxProbes,      \* MAX_PROBES
    MaxWaiters,     \* MAX_WAITERS
    MaxSubscribers, \* MAX_SUBSCRIBERS
    MaxTasks,       \* bound: claimable tasks of a queue
    MaxArrivals,    \* bound: tasks that become claimable
    MaxExchanges,   \* bound: exchanges that begin
    MayStop         \* whether the service is stopped in the end

Keys   == {Key[c] : c \in Calls}
Queues == {QueueOf[k] : k \in Keys}

ASSUME WaitAssumption ==
    /\ {MaxProbes, MaxWaiters, MaxSubscribers} \subseteq Nat \ {0}
    /\ MaxTasks \in Nat /\ MaxArrivals \in Nat /\ MaxExchanges \in Nat /\ MayStop \in BOOLEAN

VARIABLES
    co,         \* State of the coordinator: entries, queues, rotation, nominated, stopping
    call,       \* where each request stands
    permits,    \* permits left in the semaphore
    tasks,      \* claimable tasks of a queue
    hints,      \* queues whose change is committed and not yet announced
    claimed,    \* keys with a recorded reply
    arrivals,   \* tasks that became claimable
    exchanges,  \* exchanges that began
    lost        \* queues with a change whose announcement was dropped

vars == <<co, call, permits, tasks, hints, claimed, arrivals, exchanges, lost>>

NoEntry == [present |-> FALSE]
NoQueue == [present |-> FALSE]
Present(f) == {x \in DOMAIN f : f[x].present}

Of(c) == QueueOf[Key[c]]

(* An Entry and a Queue of State as Registration::new makes them.          *)
NewEntry == [present |-> TRUE, waiting |-> FALSE, receipt |-> FALSE, turn |-> "none", notify |-> FALSE]
NewQueue == [present |-> TRUE, open |-> TRUE, width |-> 1, active |-> 0, tick |-> FALSE, order |-> <<>>]

Outside == [stage |-> "out", current |-> FALSE, finish |-> FALSE, expired |-> FALSE]

Stages == {"out", "head", "want", "probing", "claimed", "replayed", "empty",
           "pending", "check", "asleep", "leaving"}

Init ==
    /\ co = [entries |-> [c \in Calls |-> NoEntry], queues |-> [q \in Queues |-> NoQueue],
             rotation |-> <<>>, nominated |-> 0, stopping |-> FALSE]
    /\ call = [c \in Calls |-> Outside]
    /\ permits = MaxProbes
    /\ tasks = [q \in Queues |-> 0]
    /\ hints = {}
    /\ claimed = {}
    /\ arrivals = 0
    /\ exchanges = 0
    /\ lost = {}

To(c, stage) ==
    call' = [call EXCEPT ![c] = [@ EXCEPT !.stage = stage, !.finish = FALSE,
                                         !.current = stage \notin {"check", "asleep", "leaving"} /\ @]]

------------------------------------------------------------------------------
(* State                                                                   *)

(* Mutant of Released: the queue's own counter is forgotten.               *)
ReleasedHalf(s, c) ==
    IF s.entries[c].turn = "none" THEN s
    ELSE [s EXCEPT !.entries[c].turn = "none", !.nominated = @ - 1]

(* release_turn                                                            *)
Released(s, c) ==
    IF s.entries[c].turn = "none" THEN s
    ELSE [s EXCEPT !.entries[c].turn = "none", !.nominated = @ - 1,
                   !.queues[Of(c)].active = @ - 1]

ReleasedAll(s, ids) == FoldSeq(LAMBDA c, t : Released(t, c), s, SetToSeq(ids))

(* revoke_parked_turns: a closed queue's nominees that did not yet return  *)
(* from their wait.                                                        *)
Revoked(s, q) ==
    IF s.queues[q].open THEN s
    ELSE ReleasedAll(s, {c \in Range(s.queues[q].order) :
                            s.entries[c].waiting /\ s.entries[c].turn # "none"})

(* One visit of pump's rotation: the first parked member without a turn is *)
(* nominated, and the members seen before it move behind.                  *)
Candidates(s, q) ==
    {i \in DOMAIN s.queues[q].order :
        LET e == s.entries[s.queues[q].order[i]] IN e.waiting /\ e.turn = "none"}

Nominates(s, q) ==
    /\ s.queues[q].open /\ s.queues[q].active < s.queues[q].width
    /\ Candidates(s, q) # {}

Nominated(s, q) ==
    LET order == s.queues[q].order
        i == CHOOSE k \in Candidates(s, q) : \A j \in Candidates(s, q) : k =< j
    IN  [s EXCEPT !.entries[order[i]].turn = "current", !.entries[order[i]].notify = TRUE,
                  !.queues[q].active = @ + 1, !.nominated = @ + 1,
                  !.queues[q].order = SubSeq(order, i + 1, Len(order)) \o SubSeq(order, 1, i)]

(* pump, as the loop over the rotation.                                    *)
RECURSIVE Loop(_, _)
Loop(s, remaining) ==
    IF s.nominated >= MaxProbes \/ remaining = 0 THEN s
    ELSE LET q == Head(s.rotation)
             turned == [s EXCEPT !.rotation = Append(Tail(@), q)]
         IN  IF Nominates(s, q) THEN Loop(Nominated(turned, q), Len(s.rotation))
             ELSE Loop(turned, remaining - 1)

Pumped(s) == IF s.stopping THEN s ELSE Loop(s, Len(s.rotation))

(* A new epoch of queue q: held epochs and turns are old from now on.      *)
Reopened(s, q) ==
    [s EXCEPT !.queues[q].open = TRUE, !.queues[q].width = 1,
              !.entries = [c \in Calls |->
                  IF s.entries[c].present /\ Of(c) = q /\ s.entries[c].turn = "current"
                  THEN [s.entries[c] EXCEPT !.turn = "old"] ELSE s.entries[c]]]

Aged(f, q) == [c \in Calls |-> IF Of(c) = q THEN [f[c] EXCEPT !.current = FALSE] ELSE f[c]]

(* hint                                                                    *)
QueueChanged(q) ==
    IF co.queues[q].present
    THEN co' = Pumped(Reopened(co, q)) /\ call' = Aged(call, q)
    ELSE UNCHANGED <<co, call>>

AcquisitionCompleted(s, k) ==
    [s EXCEPT !.entries = [c \in Calls |->
        IF s.entries[c].present /\ Key[c] = k
        THEN [s.entries[c] EXCEPT !.receipt = TRUE, !.notify = TRUE] ELSE s.entries[c]]]

------------------------------------------------------------------------------
(* Requests                                                                *)

(* Registration::new, which refuses when draining or full, and the epoch   *)
(* that is read before the first probe.                                    *)
Register(c) ==
    LET q == Of(c) IN
    /\ call[c].stage = "out" /\ ~co.stopping
    /\ exchanges < MaxExchanges /\ exchanges' = exchanges + 1
    /\ Cardinality(Present(co.entries)) < MaxWaiters
    /\ Cardinality({d \in Present(co.entries) : Key[d] = Key[c]}) < MaxSubscribers
    /\ LET known == co.queues[q].present
           base  == IF known THEN co.queues[q] ELSE NewQueue
       IN  co' = [co EXCEPT !.entries[c] = NewEntry,
                            !.rotation = IF known THEN @ ELSE Append(@, q),
                            !.queues[q] = [base EXCEPT !.order = Append(@, c)]]
    /\ call' = [call EXCEPT ![c] = [Outside EXCEPT !.stage = "head", !.current = TRUE]]
    /\ UNCHANGED <<permits, tasks, hints, claimed, arrivals, lost>>

(* The head of acquire's loop decides whether the probe is the last one.   *)
LoopHead(c) ==
    /\ call[c].stage = "head"
    /\ call' = [call EXCEPT ![c].stage = "want", ![c].finish = call[c].expired \/ co.stopping]
    /\ UNCHANGED <<co, permits, tasks, hints, claimed, arrivals, exchanges, lost>>

Permit(c) ==
    /\ call[c].stage = "want" /\ permits > 0
    /\ permits' = permits - 1
    /\ call' = [call EXCEPT ![c].stage = "probing"]
    /\ UNCHANGED <<co, tasks, hints, claimed, arrivals, exchanges, lost>>

(* probe_acquisition: the recorded reply, a claimable task, or nothing,    *)
(* which is recorded as the reply by the last probe only.                  *)
Probe(c) ==
    LET k == Key[c] q == Of(c) IN
    /\ call[c].stage = "probing"
    /\ permits' = permits + 1
    /\ \/ k \in claimed /\ To(c, "replayed") /\ UNCHANGED <<tasks, claimed>>
       \/ k \notin claimed /\ tasks[q] > 0
          /\ tasks' = [tasks EXCEPT ![q] = @ - 1]
          /\ claimed' = claimed \cup {k} /\ To(c, "claimed")
       \/ k \notin claimed /\ tasks[q] = 0 /\ call[c].finish
          /\ claimed' = claimed \cup {k} /\ To(c, "empty") /\ UNCHANGED tasks
       \/ k \notin claimed /\ tasks[q] = 0 /\ ~call[c].finish
          /\ To(c, "pending") /\ UNCHANGED <<tasks, claimed>>
    /\ lost' = IF tasks'[q] = 0 THEN lost \ {q} ELSE lost
    /\ UNCHANGED <<co, hints, arrivals, exchanges>>

(* pending: the request parks, and a probe of the current epoch closes the *)
(* queue.                                                                  *)
Park(c) ==
    LET q == Of(c)
        parked == [Released(co, c) EXCEPT !.entries[c].waiting = TRUE]
        closed == IF call[c].current THEN [parked EXCEPT !.queues[q].open = FALSE] ELSE parked
    IN
    /\ call[c].stage = "pending"
    /\ co' = Pumped(Revoked(closed, q))
    /\ To(c, "check")
    /\ UNCHANGED <<permits, tasks, hints, claimed, arrivals, exchanges, lost>>

(* Leaving the wait without using the turn.                                *)
Checked(s, c) ==
    Pumped([Released(s, c) EXCEPT !.entries[c].waiting = FALSE, !.entries[c].receipt = FALSE])

Moved(f, c, stage, current) ==
    [d \in Calls |-> IF d = c THEN [f[c] EXCEPT !.stage = stage, !.current = current] ELSE f[d]]

(* wait's loop under the lock: the time is up or the service stops.        *)
TimeUp(c) ==
    /\ call[c].stage = "check"
    /\ co' = Pumped([Released(co, c) EXCEPT !.entries[c].waiting = FALSE])
    /\ call' = Moved(call, c, "head", TRUE)
    /\ UNCHANGED <<permits, tasks, hints, claimed, arrivals, exchanges, lost>>

(* Mutant of Ticked: the tick opens nothing.                               *)
TickedIdle(q) == [co EXCEPT !.queues[q].tick = FALSE]

(* Else a due tick opens the queue for everyone.                           *)
Ticked(q) ==
    IF co.queues[q].tick THEN Pumped([Reopened(co, q) EXCEPT !.queues[q].tick = FALSE]) ELSE co
TickedCalls(q) ==
    IF co.queues[q].tick THEN Aged(call, q) ELSE call

(* Then a recorded reply ends the wait, else a turn does; else it sleeps.  *)
Proceed(c) ==
    /\ call[c].stage = "check" /\ ~co.stopping /\ ~call[c].expired
    /\ \E s \in {Ticked(Of(c))} :
          LET e == s.entries[c] IN
          /\ co' = IF e.receipt THEN Checked(s, c)
                   ELSE IF e.turn # "none" THEN [s EXCEPT !.entries[c].waiting = FALSE] ELSE s
          /\ call' = Moved(TickedCalls(Of(c)), c,
                           IF e.receipt \/ e.turn # "none" THEN "head" ELSE "asleep",
                           e.receipt \/ e.turn = "current")
    /\ UNCHANGED <<permits, tasks, hints, claimed, arrivals, exchanges, lost>>

(* The select of wait: a stored notification, or a timer.                  *)
Awake(c) ==
    /\ call[c].stage = "asleep"
    /\ co.entries[c].notify \/ co.queues[Of(c)].tick \/ call[c].expired
    /\ co' = [co EXCEPT !.entries[c].notify = FALSE]
    /\ To(c, "check")
    /\ UNCHANGED <<permits, tasks, hints, claimed, arrivals, exchanges, lost>>

(* Registration::completed, and the announcement of a new reply.           *)
Complete(c) ==
    LET q == Of(c)
        s == Released(co, c)
        wide == call[c].stage = "claimed" /\ call[c].current /\ s.queues[q].open
        t == Pumped(IF wide THEN [s EXCEPT !.queues[q].width = MaxProbes] ELSE s)
    IN
    /\ call[c].stage \in {"claimed", "replayed", "empty"}
    /\ co' = IF call[c].stage = "replayed" THEN t ELSE Pumped(AcquisitionCompleted(t, Key[c]))
    /\ To(c, "leaving")
    /\ UNCHANGED <<permits, tasks, hints, claimed, arrivals, exchanges, lost>>

(* The body of Drop.                                                       *)
Dropped(s, c) ==
    LET q == Of(c) rest == SelectSeq(s.queues[q].order, LAMBDA d : d # c) IN
    Pumped(IF rest = <<>>
           THEN [s EXCEPT !.entries[c] = NoEntry, !.queues[q] = NoQueue,
                          !.rotation = SelectSeq(@, LAMBDA r : r # q)]
           ELSE [s EXCEPT !.entries[c] = NoEntry, !.queues[q].order = rest])

Drop(c) ==
    /\ co' = Dropped(Released(co, c), c)
    /\ call' = [call EXCEPT ![c] = Outside]

Leave(c) ==
    /\ call[c].stage = "leaving"
    /\ Drop(c)
    /\ UNCHANGED <<permits, tasks, hints, claimed, arrivals, exchanges, lost>>

(* The exchange ends at an await or with a late result: its deadline, an   *)
(* error of the store, a client that is gone.                              *)
Abort(c) ==
    /\ call[c].stage \in {"want", "probing", "asleep", "claimed", "replayed", "empty", "pending"}
    /\ permits' = IF call[c].stage = "probing" THEN permits + 1 ELSE permits
    /\ Drop(c)
    /\ UNCHANGED <<tasks, hints, claimed, arrivals, exchanges, lost>>

(* The worker moves on to its next sequence number.                        *)
NextSequence(k) ==
    /\ k \in claimed /\ \A c \in Calls : Key[c] = k => call[c].stage = "out"
    /\ claimed' = claimed \ {k}
    /\ UNCHANGED <<co, call, permits, tasks, hints, arrivals, exchanges, lost>>

------------------------------------------------------------------------------
(* The store's changes, their hints, and time.                             *)
Arrive(q) ==
    /\ arrivals < MaxArrivals /\ tasks[q] < MaxTasks
    /\ arrivals' = arrivals + 1
    /\ tasks' = [tasks EXCEPT ![q] = @ + 1]
    /\ hints' = hints \cup {q}
    /\ UNCHANGED <<co, call, permits, claimed, exchanges, lost>>

Hint(q) ==
    /\ q \in hints
    /\ hints' = hints \ {q}
    /\ QueueChanged(q)
    /\ UNCHANGED <<permits, tasks, claimed, arrivals, exchanges, lost>>

(* A hint of another replica may be dropped (notifications.rs).            *)
LoseHint(q) ==
    /\ q \in hints
    /\ hints' = hints \ {q}
    /\ lost' = IF tasks[q] > 0 THEN lost \cup {q} ELSE lost
    /\ UNCHANGED <<co, call, permits, tasks, claimed, arrivals, exchanges>>

(* A listener that has subscribed (again) rescans everything.              *)
Rescan ==
    /\ \E q \in Queues : co.queues[q].present
    /\ co' = Pumped([co EXCEPT
           !.queues = [q \in Queues |->
               IF @[q].present THEN [@[q] EXCEPT !.open = TRUE, !.width = 1] ELSE @[q]],
           !.entries = [c \in Calls |->
               IF @[c].present /\ @[c].turn = "current" THEN [@[c] EXCEPT !.turn = "old"] ELSE @[c]]])
    /\ call' = [c \in Calls |-> [call[c] EXCEPT !.current = FALSE]]
    /\ lost' = {}
    /\ UNCHANGED <<permits, tasks, hints, claimed, arrivals, exchanges>>

TickDue(q) ==
    /\ co.queues[q].present /\ ~co.queues[q].tick
    /\ co' = [co EXCEPT !.queues[q].tick = TRUE]
    /\ UNCHANGED <<call, permits, tasks, hints, claimed, arrivals, exchanges, lost>>

Expire(c) ==
    /\ call[c].stage \in {"head", "want", "probing", "pending", "check", "asleep"} /\ ~call[c].expired
    /\ call' = [call EXCEPT ![c].expired = TRUE]
    /\ UNCHANGED <<co, permits, tasks, hints, claimed, arrivals, exchanges, lost>>

(* stop: every sleeper is woken and makes its last probe.                  *)
Stop ==
    /\ MayStop /\ ~co.stopping
    /\ co' = [co EXCEPT !.stopping = TRUE, !.entries = [c \in Calls |->
           IF @[c].present THEN [@[c] EXCEPT !.notify = TRUE] ELSE @[c]]]
    /\ UNCHANGED <<call, permits, tasks, hints, claimed, arrivals, exchanges, lost>>

Step(c) ==
    \/ LoopHead(c) \/ Permit(c) \/ Probe(c) \/ Park(c) \/ Awake(c)
    \/ TimeUp(c) \/ Proceed(c) \/ Complete(c) \/ Leave(c)

Next ==
    \/ \E c \in Calls : Register(c) \/ Step(c) \/ Abort(c) \/ Expire(c)
    \/ \E k \in Keys : NextSequence(k)
    \/ \E q \in Queues : Arrive(q) \/ Hint(q) \/ LoseHint(q) \/ TickDue(q)
    \/ Rescan \/ Stop

Spec == Init /\ [][Next]_vars

(* A request can go on: every stage but the wait for a permit and a sleep  *)
(* that nothing interrupts has a step, and each step changes the stage.    *)
CanStep(c) ==
    \/ call[c].stage \notin {"out", "want", "asleep"}
    \/ call[c].stage = "asleep" /\
          (co.entries[c].notify \/ co.queues[Of(c)].tick \/ call[c].expired)

(* Weak fairness of Step(c), written without ENABLED.                      *)
RunsOn(c) == []<>~CanStep(c) \/ []<><<call'[c].stage # call[c].stage>>_vars

(* Requests run on, permits are granted in FIFO order and ticks fall due;  *)
(* hints, rescans and stops need not happen.                               *)
Fairness ==
    /\ \A c \in Calls : RunsOn(c) /\ SF_vars(Permit(c))
    /\ \A q \in Queues : WF_vars(TickDue(q))

LiveSpec == Spec /\ Fairness

------------------------------------------------------------------------------
(* Types, and the permits of the semaphore.                                *)
TypeOK ==
    /\ permits = MaxProbes - Cardinality({c \in Calls : call[c].stage = "probing"})
    /\ tasks \in [Queues -> 0..MaxTasks] /\ hints \subseteq Queues /\ claimed \subseteq Keys
    /\ \A c \in Calls :
          /\ call[c].stage \in Stages
          /\ co.entries[c].present = (call[c].stage # "out")
    /\ Range(co.rotation) = Present(co.queues) /\ Len(co.rotation) = Cardinality(Present(co.queues))

(* The counters that bound nominations (nominated, active) are the number  *)
(* of turns: they are kept by increments in pump and decrements on five    *)
(* paths, and a turn lost on one of them would narrow the scan for good.   *)
TurnsAreCounted ==
    /\ co.nominated = Cardinality({c \in Present(co.entries) : co.entries[c].turn # "none"})
    /\ \A q \in Present(co.queues) :
          co.queues[q].active =
              Cardinality({c \in Present(co.entries) : Of(c) = q /\ co.entries[c].turn # "none"})
    /\ co.nominated =< MaxProbes

(* Nothing that could be nominated is left out: no path under the lock     *)
(* ends with a free turn, an open queue and a parked request without one.  *)
NoTurnIsWasted ==
    ~co.stopping /\ co.nominated < MaxProbes =>
        \A q \in Present(co.queues) : ~Nominates(co, q)

(* A nominated sleeper has a notification stored for it.                   *)
NomineesAreAwake ==
    \A c \in Calls : call[c].stage = "asleep" /\ co.entries[c].turn # "none" => co.entries[c].notify

(* The epoch registered before the probe (acquisition.rs:83) is enough: a  *)
(* queue is closed only while it has no task, or one whose hint is still   *)
(* on its way or was dropped.                                              *)
ClosedMeansEmpty ==
    \A q \in Present(co.queues) :
        ~co.queues[q].open => tasks[q] = 0 \/ q \in hints \cup lost

(* Turns are counted, none is wasted or slept through, and a closed queue  *)
(* hides no task.                                                          *)
TurnsSound ==
    TypeOK /\ TurnsAreCounted /\ NoTurnIsWasted /\ NomineesAreAwake /\ ClosedMeansEmpty

(* A parked request and a claimable task of its queue meet, or the request *)
(* ends, even if every hint is dropped: the fallback tick sees to it.      *)
TaskIsFound ==
    \A c \in Calls :
        (call[c].stage = "asleep" /\ tasks[Of(c)] > 0) ~> (call[c].stage = "out" \/ tasks[Of(c)] = 0)

==============================================================================
