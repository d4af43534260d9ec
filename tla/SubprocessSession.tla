-------------------------- MODULE SubprocessSession --------------------------
(***************************************************************************)
(* ledgence-adapter-subprocess: one child process, the actor that          *)
(* supervises it, the session its caller holds, and the record of what     *)
(* must be cleaned up, which outlives both of them.                        *)
(*                                                                         *)
(* The caller may drop the future it waits on at any await, the actor may  *)
(* panic, the child may exit, fork, flood or send anything.  A step is     *)
(* what happens between two awaits.  Frames are read one at a time, so     *)
(* what matters of one is whether it is the answer the actor waits for.    *)
(* Log frames and the stderr allowance change nothing here.                *)
(***************************************************************************)
EXTENDS Integers, Sequences, FiniteSets

CONSTANTS
    MaxInvocations,     \* bound: invocations of the session
    Admitted,           \* those that carry an InvocationPermit
    MaxRequests         \* bound: runtime requests of an invocation

Invs == 1..MaxInvocations

ASSUME SessionAssumption ==
    /\ MaxInvocations \in Nat /\ MaxRequests \in Nat /\ Admitted \subseteq Invs

VARIABLES
    os,         \* what exists: the child, its process group, its directory
    owner,      \* Resources, shared by the actor and the session
    registered, \* whether SubprocessRuntime.owners holds it
    lock,       \* who holds the mutex of owner
    step,       \* where in terminate() that one is
    actor,      \* the supervise task
    channel,    \* mpsc::channel(1)
    termination,\* the watch channel
    started,    \* the oneshot of startup
    replies,    \* replies[k]: the oneshot of invocation k
    caller,     \* who holds the Session
    valid,      \* run controls and permits that still hold
    observed    \* whose observations the shared slot has; 0: none

vars == <<os, owner, registered, lock, step, actor, channel, termination, started, replies,
          caller, valid, observed>>

OneShot == {"unused", "open", "ok", "err", "lost", "dropped"}
Actor   == [pc : {"startup", "idle", "write", "blocked", "await", "handle", "judge", "closing",
                  "terminate", "gone"},
            inv : 0..MaxInvocations, requests : 0..MaxRequests,
            after : {"startup", "invoke", "quiet"}]
Caller  == [pc : {"starting", "held", "sending", "executing", "closing", "waiting", "locking",
                  "cleaning", "gone"},
            inv : 0..MaxInvocations, sender : BOOLEAN, cleanup : {"none", "ok", "err"},
            told : [Invs -> {"none", "ok", "err"}]]

Os      == [child : {"alive", "zombie", "reaped"}, members : BOOLEAN, killed : BOOLEAN,
            disk : BOOLEAN, signals : Nat, seen : SUBSET (0..MaxInvocations),
            done : SUBSET (0..MaxInvocations), running : 0..MaxInvocations]
Owner   == [held : BOOLEAN, attempted : BOOLEAN, error : BOOLEAN, reaped : BOOLEAN,
            removal : {"none", "running", "ok", "failed"}]
Channel == {<<>>} \cup {<<k>> : k \in 0..MaxInvocations}      \* 0: Close
Valid   == [control : SUBSET (0..MaxInvocations), permit : SUBSET Admitted]

TypeOK ==
    /\ os \in Os /\ owner \in Owner
    /\ registered \in BOOLEAN /\ lock \in {"none", "actor", "close"}
    /\ step \in {"none", "signal", "reap", "confirm", "remove"}
    /\ actor \in Actor /\ caller \in Caller
    /\ channel \in Channel
    /\ termination \in {"none", "ok", "err", "lost"}
    /\ started \in OneShot /\ replies \in [Invs -> OneShot]
    /\ valid \in Valid /\ observed \in 0..MaxInvocations

(* start, up to its await: spawned, recorded, registered, handed to the    *)
(* actor without a suspension in between.                                  *)
Init ==
    /\ os = [child |-> "alive", members |-> FALSE, killed |-> FALSE, disk |-> TRUE, signals |-> 0,
             seen |-> {}, done |-> {}, running |-> 0]
    /\ owner = [held |-> TRUE, attempted |-> FALSE, error |-> FALSE, reaped |-> FALSE,
                removal |-> "none"]
    /\ registered = TRUE /\ lock = "actor" /\ step = "none"
    /\ actor = [pc |-> "startup", inv |-> 0, requests |-> 0, after |-> "startup"]
    /\ channel = <<>> /\ termination = "none" /\ started = "open"
    /\ replies = [k \in Invs |-> "unused"]
    /\ caller = [pc |-> "starting", inv |-> 0, sender |-> TRUE, cleanup |-> "none",
                 told |-> [k \in Invs |-> "none"]]
    /\ valid = [control |-> 0..MaxInvocations, permit |-> Admitted]
    /\ observed = 0

-----------------------------------------------------------------------------
(* The operating system.                                                   *)
process == <<os>>
cleanup == <<owner, registered, lock, step>>
links   == <<channel, termination, started, replies>>

Dies ==
    /\ os.child = "alive"
    /\ os' = [os EXCEPT !.child = "zombie", !.running = 0]
    /\ UNCHANGED <<cleanup, actor, links, caller, valid, observed>>

Fork ==
    /\ os.child = "alive" /\ ~os.killed /\ ~os.members
    /\ os' = [os EXCEPT !.members = TRUE]
    /\ UNCHANGED <<cleanup, actor, links, caller, valid, observed>>

MembersExit ==
    /\ os.members
    /\ os' = [os EXCEPT !.members = FALSE]
    /\ UNCHANGED <<cleanup, actor, links, caller, valid, observed>>

(* The blocking thread that removes the working directory.                 *)
RemovalEnds ==
    /\ owner.removal = "running"
    /\ \/ owner' = [owner EXCEPT !.removal = "ok"] /\ os' = [os EXCEPT !.disk = FALSE]
       \/ owner' = [owner EXCEPT !.removal = "failed"] /\ UNCHANGED os
    /\ UNCHANGED <<registered, lock, step, actor, links, caller, valid, observed>>

(* A control is cancelled or passes its deadline, a permit its own; only   *)
(* of what is still to be judged, since nobody looks at the others.        *)
Pending(k) == IF k = 0 THEN actor.pc = "startup"
              ELSE actor.pc # "gone" /\ replies[k] \in {"unused", "open", "dropped"}

Invalidate ==
    /\ \/ \E k \in valid.control :
             Pending(k) /\ valid' = [valid EXCEPT !.control = @ \ {k}]
       \/ \E k \in valid.permit :
             Pending(k) /\ k \notin os.seen /\ valid' = [valid EXCEPT !.permit = @ \ {k}]
    /\ UNCHANGED <<process, cleanup, actor, links, caller, observed>>

-----------------------------------------------------------------------------
(* terminate(), by whoever holds the lock.  Its progress is in owner.      *)
Terminating(s) == lock # "none" /\ step = s

Signal ==
    /\ Terminating("signal")
    /\ IF owner.reaped \/ owner.attempted
       THEN UNCHANGED <<os, owner>>
       ELSE \E fails \in BOOLEAN :
               /\ os' = [os EXCEPT !.signals = @ + 1, !.killed = TRUE,
                                   !.members = @ /\ fails]
               /\ owner' = [owner EXCEPT !.attempted = TRUE, !.error = fails]
    /\ step' = "reap"
    /\ UNCHANGED <<registered, lock, actor, links, caller, valid, observed>>

Reap ==
    /\ Terminating("reap")
    /\ owner.reaped \/ os.child = "zombie"
    /\ os' = [os EXCEPT !.child = "reaped"]
    /\ owner' = [owner EXCEPT !.reaped = TRUE]
    /\ step' = "confirm"
    /\ UNCHANGED <<registered, lock, actor, links, caller, valid, observed>>

(* What a result of terminate() does in its two callers: release_confirmed *)
(* and then the watch channel and the reply, or the session's own record.  *)
Answered(o, result) == IF o = "open" THEN result ELSE o
Dropped(q) == [k \in Invs |-> IF \E n \in DOMAIN q : q[n] = k THEN Answered(replies[k], "lost")
                              ELSE replies[k]]

Return(result) ==
    /\ registered' = (registered /\ result = "err")
    /\ lock' = "none" /\ step' = "none"
    /\ IF lock = "actor"
       THEN /\ termination' = result
            /\ started' = IF actor.after = "startup" THEN Answered(started, "err") ELSE started
            /\ replies' = IF actor.after = "invoke"
                          THEN [Dropped(channel) EXCEPT ![actor.inv] = Answered(@, "err")]
                          ELSE Dropped(channel)
            /\ channel' = <<>> /\ actor' = [actor EXCEPT !.pc = "gone"]
            /\ UNCHANGED caller
       ELSE /\ caller' = [caller EXCEPT !.pc = "held", !.cleanup = result]
            /\ UNCHANGED <<actor, links>>

(* wait() may fail; a group that could not be signalled is looked for      *)
(* again, without a signal, and may seem to exist although it does not.    *)
ReapFails ==
    /\ Terminating("reap") /\ ~owner.reaped
    /\ Return("err")
    /\ UNCHANGED <<os, owner, valid, observed>>

Confirm ==
    /\ Terminating("confirm")
    /\ \E still \in BOOLEAN :
          /\ owner.error /\ os.members => still
          /\ ~owner.error => ~still
          /\ owner' = [owner EXCEPT !.error = still]
          /\ IF still THEN Return("err")
             ELSE step' = "remove" /\ UNCHANGED <<registered, lock, actor, links, caller>>
    /\ UNCHANGED <<os, valid, observed>>

StartRemoval ==
    /\ Terminating("remove") /\ owner.held /\ owner.removal = "none"
    /\ owner' = [owner EXCEPT !.removal = "running"]
    /\ UNCHANGED <<os, registered, lock, step, actor, links, caller, valid, observed>>

EndRemoval ==
    /\ Terminating("remove") /\ (owner.held => owner.removal \in {"ok", "failed"})
    /\ owner' = [owner EXCEPT !.removal = "none", !.held = @ /\ owner.removal = "failed"]
    /\ Return(IF owner.removal = "failed" THEN "err" ELSE "ok")
    /\ UNCHANGED <<os, valid, observed>>

-----------------------------------------------------------------------------
(* The actor.                                                              *)
Goes(pc) == actor' = [actor EXCEPT !.pc = pc]

Terminates(after) ==
    /\ actor' = [actor EXCEPT !.pc = "terminate", !.after = after]
    /\ step' = "signal"
    /\ UNCHANGED <<os, owner, registered, lock, links, caller, valid, observed>>

BecomesReady ==
    /\ actor.pc = "startup" /\ os.child = "alive"
    /\ started = "open" /\ 0 \in valid.control
    /\ started' = "ok" /\ Goes("idle")
    /\ UNCHANGED <<process, cleanup, channel, termination, replies, caller, valid, observed>>

(* A wrong frame, an exit, the timeout, the control, a caller who is gone. *)
StartupFails == actor.pc = "startup" /\ Terminates("startup")

Receive ==
    /\ actor.pc = "idle" /\ channel # <<>>
    /\ channel' = <<>>
    /\ LET k == Head(channel) IN
       actor' = IF k = 0 THEN [actor EXCEPT !.pc = "closing"]
                ELSE [actor EXCEPT !.pc = "write", !.inv = k, !.requests = 0]
    /\ UNCHANGED <<process, cleanup, termination, started, replies, caller, valid, observed>>

(* Nobody can send any more, or the child has exited or said something.    *)
Disconnected ==
    /\ actor.pc = "idle" /\ channel = <<>> /\ ~caller.sender
    /\ Terminates("quiet")

Unsolicited ==
    /\ actor.pc = "idle" /\ channel = <<>>
    /\ Terminates("quiet")

(* The first byte of an admitted invocation is written in the poll that    *)
(* checks control and permit; an ordinary one is checked and then written. *)
Reaches(k) ==
    os' = IF os.child = "alive" THEN [os EXCEPT !.seen = @ \cup {k}, !.running = k] ELSE os

WriteAdmitted ==
    LET k == actor.inv IN
    /\ actor.pc = "write" /\ k \in Admitted
    /\ k \in valid.control /\ k \in valid.permit
    /\ Reaches(k) /\ Goes("await")
    /\ UNCHANGED <<cleanup, links, caller, valid, observed>>

CheckPlain ==
    /\ actor.pc = "write" /\ actor.inv \notin Admitted /\ actor.inv \in valid.control
    /\ Goes("blocked")
    /\ UNCHANGED <<process, cleanup, links, caller, valid, observed>>

WritePlain ==
    /\ actor.pc = "blocked"
    /\ Reaches(actor.inv) /\ Goes("await")
    /\ UNCHANGED <<cleanup, links, caller, valid, observed>>

(* A runtime request in sequence, its callback, the reply.  An invocation  *)
(* with a permit has no handler.                                           *)
Request ==
    /\ actor.pc = "await" /\ actor.inv \notin Admitted /\ os.running = actor.inv /\ actor.requests < MaxRequests
    /\ actor.inv \in valid.control
    /\ actor' = [actor EXCEPT !.pc = "handle", !.requests = @ + 1]
    /\ UNCHANGED <<process, cleanup, links, caller, valid, observed>>

HandlerReplies ==
    /\ actor.pc = "handle" /\ actor.inv \in valid.control
    /\ Goes("await")
    /\ UNCHANGED <<process, cleanup, links, caller, valid, observed>>

(* The result of this invocation, with or without observations.            *)
Result ==
    /\ actor.pc = "await" /\ os.running = actor.inv
    /\ os' = [os EXCEPT !.running = 0, !.done = @ \cup {actor.inv}]
    /\ \E seen \in BOOLEAN : observed' = IF seen THEN actor.inv ELSE observed
    /\ Goes("judge")
    /\ UNCHANGED <<cleanup, links, caller, valid>>

(* Mutant of Judge: a result that was late is good enough.                 *)
JudgeLate ==
    LET k == actor.inv IN
    /\ actor.pc = "judge"
    /\ replies' = [replies EXCEPT ![k] = Answered(@, "ok")] /\ Goes("idle")
    /\ UNCHANGED <<process, cleanup, channel, termination, started, caller, valid, observed>>

(* guarded, once the operation has returned: a caller who is gone or a     *)
(* control that has ended meanwhile keeps the session from being reused.   *)
Judge ==
    LET k == actor.inv IN
    /\ actor.pc = "judge"
    /\ IF replies[k] = "dropped" \/ k \notin valid.control
       THEN Terminates("invoke")
       ELSE /\ replies' = [replies EXCEPT ![k] = "ok"] /\ Goes("idle")
            /\ UNCHANGED <<process, cleanup, channel, termination, started, caller, valid, observed>>

(* A wrong frame, an exit, a failed write or callback, a result that is    *)
(* none, the guard.                                                        *)
InvocationFails ==
    /\ actor.pc \in {"write", "blocked", "await", "handle", "judge"}
    /\ Terminates("invoke")

(* The closing handshake ends, or its time does.                           *)
Closing == actor.pc = "closing" /\ Terminates("quiet")

(* Everything the actor holds is dropped with it.                          *)
Panic ==
    /\ actor.pc # "gone"
    /\ actor' = [actor EXCEPT !.pc = "gone"]
    /\ IF lock = "actor" THEN lock' = "none" /\ step' = "none" ELSE UNCHANGED <<lock, step>>
    /\ termination' = IF termination = "none" THEN "lost" ELSE termination
    /\ started' = Answered(started, "lost")
    /\ replies' = [k \in Invs |-> Answered(replies[k], "lost")]
    /\ channel' = <<>>
    /\ UNCHANGED <<os, owner, registered, caller, valid, observed>>

-----------------------------------------------------------------------------
(* The caller.                                                             *)
Calls(c) == caller' = c /\ UNCHANGED <<process, cleanup, actor, valid>>

(* finish_startup: an error without a session only if cleanup is confirmed.*)
Startup ==
    /\ caller.pc = "starting" /\ started \in {"ok", "err", "lost"}
    /\ Calls(IF started = "err" /\ termination = "ok"
             THEN [caller EXCEPT !.pc = "gone", !.sender = FALSE]
             ELSE [caller EXCEPT !.pc = "held"])
    /\ UNCHANGED <<links, observed>>

DropStart ==
    /\ caller.pc = "starting"
    /\ Calls([caller EXCEPT !.pc = "gone", !.sender = FALSE])
    /\ started' = Answered(started, "dropped")
    /\ UNCHANGED <<channel, termination, replies, observed>>

Told(k, what) == [caller EXCEPT !.pc = "held", !.inv = k, !.told[k] = what]

Execute ==
    LET k == caller.inv + 1 IN
    /\ caller.pc = "held" /\ k \in Invs
    /\ observed' = 0
    /\ Calls(IF k \notin valid.control \/ ~caller.sender THEN Told(k, "err")
             ELSE [caller EXCEPT !.pc = "sending", !.inv = k])
    /\ UNCHANGED links

Send ==
    LET k == caller.inv IN
    /\ caller.pc = "sending"
    /\ IF actor.pc = "gone"
       THEN Calls(Told(k, "err")) /\ UNCHANGED <<channel, replies>>
       ELSE /\ channel = <<>> /\ channel' = <<k>>
            /\ replies' = [replies EXCEPT ![k] = "open"]
            /\ Calls([caller EXCEPT !.pc = "executing"])
    /\ UNCHANGED <<termination, started, observed>>

TakeReply ==
    LET k == caller.inv IN
    /\ caller.pc = "executing" /\ replies[k] # "open"
    /\ Calls(Told(k, IF replies[k] = "ok" THEN "ok" ELSE "err"))
    /\ UNCHANGED <<links, observed>>

DropExecute ==
    /\ caller.pc \in {"sending", "executing"}
    /\ Calls([caller EXCEPT !.pc = "held"])
    /\ replies' = [replies EXCEPT ![caller.inv] = Answered(@, "dropped")]
    /\ UNCHANGED <<channel, termination, started, observed>>

Close ==
    /\ caller.pc = "held" /\ caller.cleanup # "ok"
    /\ Calls([caller EXCEPT !.pc = IF caller.sender THEN "closing" ELSE "waiting"])
    /\ UNCHANGED <<links, observed>>

SendClose ==
    /\ caller.pc = "closing"
    /\ IF actor.pc = "gone" THEN UNCHANGED channel ELSE channel = <<>> /\ channel' = <<0>>
    /\ Calls([caller EXCEPT !.pc = "waiting", !.sender = FALSE])
    /\ UNCHANGED <<termination, started, replies, observed>>

(* A failed or lost termination is taken over by the caller.               *)
Observe ==
    /\ caller.pc = "waiting" /\ termination # "none"
    /\ Calls(IF termination = "ok" THEN [caller EXCEPT !.pc = "held", !.cleanup = "ok"]
             ELSE [caller EXCEPT !.pc = "locking"])
    /\ UNCHANGED <<links, observed>>

Lock ==
    /\ caller.pc = "locking" /\ lock = "none"
    /\ lock' = "close" /\ step' = "signal"
    /\ caller' = [caller EXCEPT !.pc = "cleaning"]
    /\ UNCHANGED <<os, owner, registered, actor, links, valid, observed>>

DropClose ==
    /\ caller.pc \in {"closing", "waiting", "locking", "cleaning"}
    /\ caller' = [caller EXCEPT !.pc = "held", !.sender = @ /\ caller.pc # "closing"]
    /\ IF caller.pc = "cleaning" THEN lock' = "none" /\ step' = "none" ELSE UNCHANGED <<lock, step>>
    /\ UNCHANGED <<os, owner, registered, actor, links, valid, observed>>

DropSession ==
    /\ caller.pc = "held"
    /\ Calls([caller EXCEPT !.pc = "gone", !.sender = FALSE])
    /\ UNCHANGED <<links, observed>>

-----------------------------------------------------------------------------
System  == Dies \/ Fork \/ MembersExit \/ RemovalEnds \/ Invalidate
Cleanup == Signal \/ Reap \/ Confirm \/ StartRemoval \/ EndRemoval
Works   == BecomesReady \/ WriteAdmitted \/ CheckPlain \/ WritePlain \/ Request
           \/ HandlerReplies \/ Result \/ Unsolicited \/ ReapFails
Runs    == StartupFails \/ Receive \/ Disconnected \/ InvocationFails \/ Judge \/ Closing
Uses    == \/ Startup \/ DropStart \/ Execute \/ Send \/ TakeReply \/ DropExecute
           \/ Close \/ SendClose \/ Observe \/ Lock \/ DropClose \/ DropSession

Next == System \/ Cleanup \/ Works \/ Runs \/ Panic \/ Uses

Spec == Init /\ [][Next]_vars

(* A killed child dies, threads finish, and what the actor can do or fail  *)
(* at by itself (timeouts, deadlines, a caller who is gone) happens.       *)
Fairness ==
    /\ WF_vars(os.killed /\ Dies) /\ WF_vars(RemovalEnds) /\ WF_vars(Cleanup)
    /\ WF_vars(Runs)

FairSpec == Spec /\ Fairness

-----------------------------------------------------------------------------
(* While anything of the session is left (a process, its group, its        *)
(* directory), the runtime keeps the record of it and the artifact pinned, *)
(* whoever was dropped, failed or panicked.                                *)
NothingForgotten ==
    os.child # "reaped" \/ os.members \/ os.disk => owner.held /\ registered

(* Success of close, or an error of start that comes without a session,    *)
(* is true: nothing of it is left and nobody works on it.                  *)
CloseIsTrue ==
    termination = "ok" \/ caller.cleanup = "ok" =>
       /\ os.child = "reaped" /\ ~os.members /\ ~os.disk
       /\ ~owner.held /\ ~registered /\ owner.removal = "none"

(* The process group is signalled once in its life, before its number can  *)
(* belong to someone else.                                                 *)
SignalledOnce ==
    /\ os.signals =< 1
    /\ Terminating("signal") /\ ~owner.reaped /\ ~owner.attempted => os.child # "reaped"

(* A process that gets another invocation has answered every earlier one   *)
(* in time, to a caller who was there.                                     *)
ReuseIsClean ==
    /\ \A k \in os.seen : \A j \in 1..(k - 1) : j \in os.seen => replies[j] = "ok"
    /\ actor.pc = "idle" => os.running = 0

(* What a caller is told of an invocation: a result is that one's, with no *)
(* other's observations, and an error means that it no longer runs, unless *)
(* the cleanup could not be confirmed.                                     *)
AnswersAreTrue ==
    \A k \in Invs :
       /\ caller.told[k] = "ok" => k \in os.done
       /\ caller.told[k] = "ok" /\ caller.inv = k /\ caller.pc = "held" => observed \in {0, k}
       /\ caller.told[k] = "err" /\ os.running = k => termination \in {"err", "lost"}

SessionSound ==
    TypeOK /\ NothingForgotten /\ CloseIsTrue /\ SignalledOnce /\ ReuseIsClean /\ AnswersAreTrue

(* A session whose caller has gone comes to its end, one way or another.   *)
SessionEnds == caller.pc = "gone" ~> actor.pc = "gone"
==============================================================================
