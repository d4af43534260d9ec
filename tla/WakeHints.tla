------------------------------ MODULE WakeHints ------------------------------
(***************************************************************************)
(* The optional PostgreSQL channel that carries acquisition hints between  *)
(* replicas: a bounded, coalescing publisher in the process that changed a *)
(* queue, and the listener of another process, which subscribes, rescans   *)
(* and then hands hints to its AcquisitionWait coordinator.                *)
(***************************************************************************)
EXTENDS Integers, Sequences, FiniteSets, SequencesExt

CONSTANTS
    Queues,     \* queues whose changes are announced
    None,
    MaxHints,   \* MAX_HINTS: distinct keys the publisher holds
    MaxChannel  \* bound: notifications on their way

HintAssumption == {MaxHints, MaxChannel} \subseteq Nat \ {0} /\ None \notin Queues

VARIABLES
    backlog,    \* Backlog.queue
    keys,       \* Backlog.keys
    closed,     \* Backlog.closed
    sending,    \* the payload the publish task has popped, and whether NOTIFY ran
    channel,    \* notifications on their way to the listener's connection
    listener,   \* down, listening (LISTEN done), up (rescan done)
    unseen,     \* observer: changes the other coordinator has not heard of
    given       \* observer: those the channel has given up, left to the fallback tick

vars == <<backlog, keys, closed, sending, channel, listener, unseen, given>>

Nothing == [payload |-> None, sent |-> FALSE]

Init ==
    /\ backlog = <<>> /\ keys = {} /\ closed = FALSE /\ sending = Nothing
    /\ channel = <<>> /\ listener = "down"
    /\ unseen = {} /\ given = {}

(* Publisher::enqueue: a key the publisher already holds is coalesced,     *)
(* also while it is being sent; a full or closed publisher drops it.       *)
Enqueue(q) ==
    LET held == q \in keys
        full == ~held /\ Cardinality(keys) = MaxHints
        late == held /\ sending = [payload |-> q, sent |-> TRUE] /\ q \notin Range(backlog)
    IN
    /\ backlog' = IF closed \/ held \/ full THEN backlog ELSE Append(backlog, q)
    /\ keys' = IF closed \/ held \/ full THEN keys ELSE keys \cup {q}
    /\ given' = IF closed \/ full \/ late THEN given \cup {q} ELSE given

(* WakeDispatch::publish after a committed change.                         *)
Change(q) ==
    /\ unseen' = unseen \cup {q}
    /\ Enqueue(q)
    /\ UNCHANGED <<closed, sending, channel, listener>>

(* publish: the oldest payload is popped, NOTIFY runs, and only then is    *)
(* its key free again.  An attempt may fail or time out.                   *)
Pop ==
    /\ sending = Nothing /\ backlog # <<>> /\ ~closed
    /\ sending' = [payload |-> Head(backlog), sent |-> FALSE]
    /\ backlog' = Tail(backlog)
    /\ UNCHANGED <<keys, closed, channel, listener, unseen, given>>

Notify ==
    /\ sending # Nothing /\ ~sending.sent /\ Len(channel) < MaxChannel
    /\ sending' = [sending EXCEPT !.sent = TRUE]
    /\ channel' = IF listener = "down" THEN channel ELSE Append(channel, sending.payload)
    /\ UNCHANGED <<backlog, keys, closed, listener, unseen, given>>

(* Publisher::finished                                                     *)
Finished(q) == keys \ {q}

Finish ==
    /\ sending # Nothing
    /\ keys' = Finished(sending.payload)
    /\ given' = IF sending.sent THEN given ELSE given \cup {sending.payload}
    /\ sending' = Nothing
    /\ UNCHANGED <<backlog, closed, channel, listener, unseen>>

(* Publisher::close                                                        *)
Close ==
    /\ ~closed
    /\ closed' = TRUE /\ backlog' = <<>> /\ keys' = {}
    /\ given' = given \cup keys
    /\ UNCHANGED <<sending, channel, listener, unseen>>

(* receive: LISTEN on a new connection, then the rescan of every queue,    *)
(* then the notifications, until the connection is lost.                   *)
Listen ==
    /\ listener = "down"
    /\ listener' = "listening"
    /\ UNCHANGED <<backlog, keys, closed, sending, channel, unseen, given>>

(* Mutant of Rescan: a new subscription starts with what arrives.          *)
RescanNothing ==
    /\ listener = "listening"
    /\ listener' = "up"
    /\ UNCHANGED <<backlog, keys, closed, sending, channel, unseen, given>>

Rescan ==
    /\ listener = "listening"
    /\ listener' = "up" /\ unseen' = {} /\ given' = {}
    /\ UNCHANGED <<backlog, keys, closed, sending, channel>>

Receive ==
    /\ listener = "up" /\ channel # <<>>
    /\ channel' = Tail(channel)
    /\ unseen' = unseen \ {Head(channel)} /\ given' = given \ {Head(channel)}
    /\ UNCHANGED <<backlog, keys, closed, sending, listener>>

Disconnect ==
    /\ listener # "down"
    /\ listener' = "down" /\ channel' = <<>>
    /\ UNCHANGED <<backlog, keys, closed, sending, unseen, given>>

Next ==
    \/ \E q \in Queues : Change(q)
    \/ Pop \/ Notify \/ Finish \/ Close
    \/ Listen \/ Rescan \/ Receive \/ Disconnect

Spec == Init /\ [][Next]_vars

------------------------------------------------------------------------------
(* Types; a payload is queued at most once, and the keys are exactly what  *)
(* is queued or being sent, so that the bound covers both.                 *)
TypeOK ==
    /\ listener \in {"down", "listening", "up"}
    /\ given \subseteq Queues /\ unseen \subseteq Queues
    /\ IsInjective(backlog)
    /\ Cardinality(keys) =< MaxHints
    /\ ~closed => keys = Range(backlog) \cup ({sending.payload} \ {None})

(* With a listener that is up, a change its coordinator has not heard of   *)
(* is on its way, unless the publisher gave it up: overflow, a failed      *)
(* attempt, shutdown, or a change coalesced into a payload whose NOTIFY    *)
(* had already run.  No order of changes, notifications, subscriptions and *)
(* disconnections loses one otherwise (LISTEN before the rescan).          *)
NothingSlipsThrough ==
    listener = "up" =>
        \A q \in unseen \ given :
            q \in Range(channel) \cup Range(backlog)
                 \cup (IF sending.sent THEN {} ELSE {sending.payload})

==============================================================================
