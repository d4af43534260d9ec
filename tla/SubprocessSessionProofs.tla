----------------------- MODULE SubprocessSessionProofs -----------------------
(***************************************************************************)
(* Proof that a session of a subprocess is sound, for every number of      *)
(* invocations and of runtime requests: SessionSound is an invariant.      *)
(*                                                                         *)
(* Two inductive invariants carry it.  Ownership says how far cleanup has  *)
(* come, whoever works on it; Conversation says which invocation is where  *)
(* and what its oneshot may hold.  Neither depends on the other except     *)
(* that a confirmed cleanup has reaped the child.                          *)
(***************************************************************************)
EXTENDS SubprocessSession, TLAPS

(* The actor holds the lock while it lives; terminate() is in progress     *)
(* exactly where its caller says so.                                       *)
Locked ==
    /\ lock = "actor" <=> actor.pc # "gone"
    /\ lock = "close" <=> caller.pc = "cleaning"
    /\ step # "none" <=> actor.pc = "terminate" \/ caller.pc = "cleaning"
    /\ termination = "none" <=> actor.pc # "gone"

(* The record knows of every signal and of the reaping, and an error       *)
(* stands as long as a member of the group may be left.                    *)
Recorded ==
    /\ owner.reaped <=> os.child = "reaped"
    /\ owner.attempted <=> os.killed
    /\ os.signals = IF owner.attempted THEN 1 ELSE 0
    /\ owner.error \/ owner.reaped => owner.attempted
    /\ owner.attempted /\ os.members => owner.error
    /\ step \in {"reap", "confirm", "remove"} => owner.attempted
    /\ step \in {"confirm", "remove"} => owner.reaped
    /\ step = "remove" => ~owner.error

(* The directory goes last, and only then the record.                      *)
Removed ==
    /\ registered <=> owner.held
    /\ owner.removal # "none" => owner.held /\ owner.reaped /\ ~owner.error
    /\ owner.removal = "ok" => ~os.disk
    /\ ~owner.held => owner.reaped /\ ~os.members /\ ~os.disk
    /\ termination = "ok" => ~owner.held
    /\ caller.cleanup = "ok" => ~owner.held

Ownership == TypeOK /\ Locked /\ Recorded /\ Removed

(* Where invocation k may be: numbers only grow from the process over the  *)
(* actor and the channel to the caller.                                    *)
InHand == {"write", "blocked", "await", "handle", "judge"}

Ordered ==
    /\ \A k \in os.seen : k \in 1..actor.inv
    /\ os.done \subseteq os.seen
    /\ \A n \in DOMAIN channel : channel[n] # 0 => channel[n] > actor.inv /\ channel[n] =< caller.inv
    /\ actor.inv =< caller.inv
    /\ caller.pc = "sending" =>
          /\ actor.inv < caller.inv /\ replies[caller.inv] = "unused" /\ caller.told[caller.inv] = "none"
          /\ \A n \in DOMAIN channel : channel[n] # caller.inv
    /\ \A k \in Invs : replies[k] = "unused" =>
          k \notin os.seen /\ k # actor.inv /\ \A n \in DOMAIN channel : channel[n] # k
    /\ \A k \in Invs : k > caller.inv => replies[k] = "unused" /\ caller.told[k] = "none"
    /\ caller.pc \in {"sending", "executing"} => caller.inv \in Invs
    /\ actor.pc \in InHand => actor.inv \in Invs
    /\ actor.pc = "startup" => actor.inv = 0

(* What the process runs, and that the actor waits for it.                 *)
Running ==
    /\ os.running # 0 => os.running = actor.inv /\ actor.inv \in os.seen /\ os.child = "alive"
    /\ os.running # 0 => actor.pc \in {"await", "handle", "terminate", "gone"}
    /\ actor.pc = "judge" => actor.inv \in os.done

(* What a oneshot may hold.                                                *)
Replied ==
    /\ \A k \in Invs : replies[k] = "open" => caller.pc = "executing" /\ caller.inv = k
    /\ \A k \in Invs : replies[k] = "ok" => k \in os.done
    /\ \A k \in Invs : replies[k] \in {"err", "lost"} => actor.pc = "gone"
    /\ actor.pc \in InHand => replies[actor.inv] \in {"open", "dropped"}
    /\ \A k \in os.seen : k # actor.inv \/ actor.pc = "idle" => replies[k] = "ok"
    /\ \A k \in Invs : caller.told[k] = "ok" => replies[k] = "ok"
    /\ \A k \in Invs : caller.told[k] = "err" => replies[k] = "unused" \/ actor.pc = "gone"
    /\ caller.pc = "executing" => replies[caller.inv] \notin {"unused", "dropped"}

(* Another's observations are left only by an invocation that was given up *)
(* on, and the process is not reused after it.                             *)
Observed ==
    observed \notin {0, caller.inv} =>
       /\ \/ actor.pc \in {"terminate", "gone"}
          \/ actor.pc = "judge" /\ replies[actor.inv] = "dropped"
       /\ caller.inv \in Invs => replies[caller.inv] # "ok"

Conversation == TypeOK /\ Ordered /\ Running /\ Replied /\ Observed
-----------------------------------------------------------------------------
(* What the two ends of terminate() may leave behind is typed.             *)
LEMMA ReturnType ==
    ASSUME TypeOK, NEW result \in {"ok", "err"}, Return(result)
    PROVE  /\ registered' \in BOOLEAN /\ lock' = "none" /\ step' = "none"
           /\ actor' \in Actor /\ caller' \in Caller /\ channel' \in Channel
           /\ termination' \in {"none", "ok", "err", "lost"}
           /\ started' \in OneShot /\ replies' \in [Invs -> OneShot]
<1>1. registered' \in BOOLEAN /\ lock' = "none" /\ step' = "none"
  BY DEF Return, TypeOK
<1>2. \A o \in OneShot, x \in {"ok", "err", "lost"} : Answered(o, x) \in OneShot
  BY DEF Answered, OneShot
<1>3. CASE lock = "actor"
  <2>1. actor' \in Actor /\ caller' = caller /\ channel' = <<>> /\ termination' = result
    BY <1>3 DEF Return, TypeOK, Actor
  <2>2. started' \in OneShot
    BY <1>2, <1>3 DEF Return, TypeOK
  <2>3. Dropped(channel) \in [Invs -> OneShot]
    BY <1>2 DEF Dropped, TypeOK
  <2>4. replies' \in [Invs -> OneShot]
    <3>1. CASE actor.after = "invoke"
      <4> HIDE DEF Dropped, Answered
      <4>1. replies' = [Dropped(channel) EXCEPT ![actor.inv] = Answered(@, "err")]
        BY <1>3, <3>1 DEF Return
      <4> QED
        BY <4>1, <2>3, <1>2
    <3>2. CASE actor.after # "invoke"
      BY <1>3, <3>2, <2>3 DEF Return
    <3> QED
      BY <3>1, <3>2
  <2> QED
    BY <1>1, <2>1, <2>2, <2>4 DEF TypeOK, Channel
<1>4. CASE lock # "actor"
  <2>1. caller' \in Caller /\ UNCHANGED <<actor, channel, termination, started, replies>>
    BY <1>4 DEF Return, TypeOK, Caller, links
  <2> QED
    BY <1>1, <2>1 DEF TypeOK
<1> QED
  BY <1>3, <1>4

(* What they do to the conversation: the actor leaves and whoever waited   *)
(* for it learns so, or the caller of close goes on.                       *)
Left ==
    /\ actor' = [actor EXCEPT !.pc = "gone"] /\ caller' = caller /\ channel' = <<>>
    /\ \A k \in Invs : replies'[k] = replies[k]
                       \/ (replies[k] = "open" /\ replies'[k] \in {"err", "lost"})
GoesOn ==
    /\ actor' = actor /\ channel' = channel /\ replies' = replies /\ caller.pc = "cleaning"
    /\ caller'.pc = "held" /\ caller'.inv = caller.inv /\ caller'.told = caller.told
    /\ caller' \in Caller

LEMMA ReturnEffect ==
    ASSUME TypeOK, Locked, lock # "none", NEW result \in {"ok", "err"}, Return(result)
    PROVE  Left \/ GoesOn
<1>1. CASE lock = "actor"
  <2>1. actor' = [actor EXCEPT !.pc = "gone"] /\ caller' = caller /\ channel' = <<>>
    BY <1>1 DEF Return
  <2>2. \A k \in Invs : Dropped(channel)[k] = replies[k]
                         \/ (replies[k] = "open" /\ Dropped(channel)[k] = "lost")
    <3> SUFFICES ASSUME NEW k \in Invs
                 PROVE  Dropped(channel)[k] = replies[k]
                        \/ (replies[k] = "open" /\ Dropped(channel)[k] = "lost")
      OBVIOUS
    <3>1. Dropped(channel)[k] = IF \E n \in DOMAIN channel : channel[n] = k
                                THEN Answered(replies[k], "lost") ELSE replies[k]
      BY DEF Dropped
    <3>2. CASE \E n \in DOMAIN channel : channel[n] = k
      <4>1. Dropped(channel)[k] = Answered(replies[k], "lost")
        BY <3>1, <3>2
      <4> QED
        BY <4>1 DEF Answered
    <3>3. CASE ~\E n \in DOMAIN channel : channel[n] = k
      BY <3>1, <3>3
    <3> QED
      BY <3>2, <3>3
  <2>3. ASSUME NEW k \in Invs
        PROVE  replies'[k] = replies[k]
               \/ (replies[k] = "open" /\ replies'[k] \in {"err", "lost"})
    <3>1. CASE actor.after = "invoke"
      <4>1. replies' = [Dropped(channel) EXCEPT ![actor.inv] = Answered(@, "err")]
        BY <1>1, <3>1 DEF Return
      <4>2. DOMAIN Dropped(channel) = Invs
        BY DEF Dropped
      <4>3. replies'[k] = IF k = actor.inv THEN Answered(Dropped(channel)[k], "err")
                          ELSE Dropped(channel)[k]
        BY <4>1, <4>2
      <4> QED
        BY <4>3, <2>2 DEF Answered
    <3>2. CASE actor.after # "invoke"
      BY <1>1, <3>2, <2>2 DEF Return
    <3> QED
      BY <3>1, <3>2
  <2> QED
    BY <2>1, <2>3 DEF Left
<1>2. CASE lock # "actor"
  <2>1. /\ caller' = [caller EXCEPT !.pc = "held", !.cleanup = result]
        /\ actor' = actor /\ channel' = channel /\ replies' = replies
    BY <1>2 DEF Return, links
  <2>2. caller.pc = "cleaning"
    BY <1>2 DEF TypeOK, Locked
  <2> QED
    BY <2>1, <2>2 DEF TypeOK, Caller, GoesOn
<1> QED
  BY <1>1, <1>2

(* Signal concerns cleanup only.                                           *)
LEMMA SignalEffect ==
    ASSUME TypeOK, Signal
    PROVE  /\ os'.seen = os.seen /\ os'.done = os.done /\ os'.running = os.running
           /\ os'.child = os.child
           /\ UNCHANGED <<actor, channel, termination, started, replies, caller, valid, observed>>
<1>1. UNCHANGED <<actor, channel, termination, started, replies, caller, valid, observed>>
  BY DEF Signal, links
<1>2. CASE owner.reaped \/ owner.attempted
  BY <1>1, <1>2 DEF Signal
<1>3. CASE ~(owner.reaped \/ owner.attempted)
  <2>1. PICK fails \in BOOLEAN :
           os' = [os EXCEPT !.signals = @ + 1, !.killed = TRUE, !.members = @ /\ fails]
    BY <1>3 DEF Signal
  <2> QED
    BY <2>1, <1>1 DEF TypeOK, Os
<1> QED
  BY <1>2, <1>3

(* Judge retires the process or answers the one who waits.                 *)
Retires ==
    /\ actor'.pc = "terminate" /\ actor'.inv = actor.inv
    /\ UNCHANGED <<os, channel, replies, caller, observed>>
Answers ==
    /\ replies[actor.inv] # "dropped" /\ actor'.pc = "idle" /\ actor'.inv = actor.inv
    /\ \A k \in Invs : replies'[k] = IF k = actor.inv THEN "ok" ELSE replies[k]
    /\ UNCHANGED <<os, channel, caller, observed>>

LEMMA JudgeEffect ==
    ASSUME TypeOK, Judge
    PROVE  actor.pc = "judge" /\ (Retires \/ Answers)
<1>0. actor.pc = "judge"
  BY DEF Judge
<1>1. CASE replies[actor.inv] = "dropped" \/ actor.inv \notin valid.control
  <2>1. /\ actor' = [actor EXCEPT !.pc = "terminate", !.after = "invoke"]
        /\ UNCHANGED <<os, channel, replies, caller, observed>>
    BY <1>1 DEF Judge, Terminates, links
  <2> QED
    BY <1>0, <2>1 DEF TypeOK, Actor, Retires
<1>2. CASE ~(replies[actor.inv] = "dropped" \/ actor.inv \notin valid.control)
  <2>1. /\ actor' = [actor EXCEPT !.pc = "idle"] /\ replies' = [replies EXCEPT ![actor.inv] = "ok"]
        /\ UNCHANGED <<os, channel, caller, observed>>
    BY <1>2 DEF Judge, Goes, process
  <2>2. actor'.pc = "idle" /\ actor'.inv = actor.inv
    BY <2>1 DEF TypeOK, Actor
  <2>3. \A k \in Invs : replies'[k] = IF k = actor.inv THEN "ok" ELSE replies[k]
    BY <2>1 DEF TypeOK
  <2> QED
    BY <1>0, <1>2, <2>1, <2>2, <2>3 DEF Answers
<1> QED
  BY <1>1, <1>2

(* An invocation is refused because the actor is gone, or lies in the      *)
(* channel.                                                                *)
Refused ==
    /\ actor.pc = "gone" /\ caller'.pc = "held" /\ caller'.inv = caller.inv
    /\ \A k \in Invs : caller'.told[k] = IF k = caller.inv THEN "err" ELSE caller.told[k]
    /\ UNCHANGED <<os, actor, channel, replies, observed>>
Accepted ==
    /\ \A n \in DOMAIN channel' : channel'[n] = caller.inv
    /\ \A k \in Invs : replies'[k] = IF k = caller.inv THEN "open" ELSE replies[k]
    /\ caller'.pc = "executing" /\ caller'.inv = caller.inv /\ caller'.told = caller.told
    /\ UNCHANGED <<os, actor, observed>>

LEMMA SendEffect ==
    ASSUME TypeOK, Send
    PROVE  caller.pc = "sending" /\ (Refused \/ Accepted)
<1>0. caller.pc = "sending" /\ UNCHANGED <<os, actor, observed>>
  BY DEF Send, Calls, process
<1>1. CASE actor.pc = "gone"
  <2>1. /\ caller' = [caller EXCEPT !.pc = "held", !.inv = caller.inv, !.told[caller.inv] = "err"]
        /\ UNCHANGED <<channel, replies>>
    BY <1>1 DEF Send, Calls, Told
  <2>2. caller'.pc = "held" /\ caller'.inv = caller.inv
        /\ caller'.told = [caller.told EXCEPT ![caller.inv] = "err"]
    BY <2>1 DEF TypeOK, Caller
  <2>3. \A k \in Invs : caller'.told[k] = IF k = caller.inv THEN "err" ELSE caller.told[k]
    BY <2>2 DEF TypeOK, Caller
  <2> QED
    BY <1>0, <1>1, <2>1, <2>2, <2>3 DEF Refused
<1>2. CASE actor.pc # "gone"
  <2>1. /\ channel' = <<caller.inv>> /\ replies' = [replies EXCEPT ![caller.inv] = "open"]
        /\ caller' = [caller EXCEPT !.pc = "executing"]
    BY <1>2 DEF Send, Calls
  <2>2. caller'.pc = "executing" /\ caller'.inv = caller.inv /\ caller'.told = caller.told
    BY <2>1 DEF TypeOK, Caller
  <2>3. \A k \in Invs : replies'[k] = IF k = caller.inv THEN "open" ELSE replies[k]
    BY <2>1 DEF TypeOK
  <2>4. \A n \in DOMAIN channel' : channel'[n] = caller.inv
    BY <2>1
  <2> QED
    BY <1>0, <2>2, <2>3, <2>4 DEF Accepted
<1> QED
  BY <1>1, <1>2

(* Every step keeps the types.                                             *)
LEMMA TypeStep == TypeOK /\ [Next]_vars => TypeOK'
<1> SUFFICES ASSUME TypeOK, [Next]_vars PROVE TypeOK'
  OBVIOUS
<1>0. MaxInvocations \in Nat /\ MaxRequests \in Nat /\ 0 \in 0..MaxInvocations /\ Invs \subseteq 0..MaxInvocations
  BY SessionAssumption DEF SessionAssumption, Invs
<1>1. CASE Dies
  <2>1. os' \in Os
    BY <1>0, <1>1 DEF TypeOK, Dies, Actor, Invs, Os
  <2> QED
    BY <2>1, <1>1 DEF TypeOK, Dies, process, cleanup, links
<1>2. CASE Fork
  <2>1. os' \in Os
    BY <1>0, <1>2 DEF TypeOK, Fork, Actor, Invs, Os
  <2> QED
    BY <2>1, <1>2 DEF TypeOK, Fork, process, cleanup, links
<1>3. CASE MembersExit
  <2>1. os' \in Os
    BY <1>0, <1>3 DEF TypeOK, MembersExit, Actor, Invs, Os
  <2> QED
    BY <2>1, <1>3 DEF TypeOK, MembersExit, process, cleanup, links
<1>4. CASE RemovalEnds
  <2>1. os' \in Os
    BY <1>0, <1>4 DEF TypeOK, RemovalEnds, Actor, Invs, Os
  <2>2. owner' \in Owner
    BY <1>0, <1>4 DEF TypeOK, RemovalEnds, Owner
  <2> QED
    BY <2>1, <2>2, <1>4 DEF TypeOK, RemovalEnds, process, cleanup, links
<1>5. CASE Invalidate
  <2>1. valid' \in Valid
    BY <1>0, <1>5 DEF TypeOK, Invalidate, Valid
  <2> QED
    BY <2>1, <1>5 DEF TypeOK, Invalidate, process, cleanup, links
<1>6. CASE Signal
  <2>1. os' \in Os
    <3>1. CASE owner.reaped \/ owner.attempted
      BY <3>1, <1>6 DEF TypeOK, Signal
    <3>2. CASE ~(owner.reaped \/ owner.attempted)
      <4>1. PICK fails \in BOOLEAN :
               os' = [os EXCEPT !.signals = @ + 1, !.killed = TRUE, !.members = @ /\ fails]
        BY <3>2, <1>6 DEF Signal
      <4>2. os.signals + 1 \in Nat /\ (os.members /\ fails) \in BOOLEAN
        BY DEF TypeOK, Os
      <4> QED
        BY <4>1, <4>2 DEF TypeOK, Os
    <3> QED
      BY <3>1, <3>2
  <2>2. owner' \in Owner
    BY <1>6 DEF TypeOK, Signal, Owner
  <2> QED
    BY <2>1, <2>2, <1>6 DEF TypeOK, Signal, links
<1>7. CASE Reap
  <2>1. os' \in Os
    BY <1>0, <1>7 DEF TypeOK, Reap, Terminating, Actor, Invs, Os
  <2>2. owner' \in Owner
    BY <1>0, <1>7 DEF TypeOK, Reap, Terminating, Owner
  <2>3. step' \in {"none", "signal", "reap", "confirm", "remove"}
    BY <1>0, <1>7 DEF TypeOK, Reap, Terminating, Invs
  <2> QED
    BY <2>1, <2>2, <2>3, <1>7 DEF TypeOK, Reap, Terminating, process, cleanup, links
<1>8. CASE ReapFails
  BY <1>8, ReturnType DEF TypeOK, ReapFails
<1>9. CASE Confirm
  <2>1. PICK still \in BOOLEAN :
           /\ owner' = [owner EXCEPT !.error = still]
           /\ IF still THEN Return("err")
              ELSE step' = "remove" /\ UNCHANGED <<registered, lock, actor, links, caller>>
    BY <1>9 DEF Confirm
  <2>2. owner' \in Owner
    BY <2>1 DEF TypeOK, Owner
  <2>3. CASE still
    BY <2>1, <2>2, <2>3, <1>9, ReturnType DEF TypeOK, Confirm
  <2>4. CASE ~still
    BY <2>1, <2>2, <2>4, <1>9 DEF TypeOK, Confirm, links
  <2> QED
    BY <2>3, <2>4
<1>10. CASE StartRemoval
  <2>1. owner' \in Owner
    BY <1>0, <1>10 DEF TypeOK, StartRemoval, Terminating, Owner
  <2> QED
    BY <2>1, <1>10 DEF TypeOK, StartRemoval, Terminating, process, cleanup, links
<1>11. CASE EndRemoval
  <2>1. owner' \in Owner
    BY <1>11 DEF TypeOK, EndRemoval, Owner
  <2>2. (IF owner.removal = "failed" THEN "err" ELSE "ok") \in {"ok", "err"}
    OBVIOUS
  <2> QED
    BY <2>1, <2>2, <1>11, ReturnType DEF TypeOK, EndRemoval
<1>12. CASE BecomesReady
  <2>1. started' \in OneShot
    BY <1>0, <1>12 DEF TypeOK, BecomesReady, Goes, Actor, OneShot
  <2>2. actor' \in Actor
    BY <1>0, <1>12 DEF TypeOK, BecomesReady, Goes, Actor, Channel, Invs
  <2> QED
    BY <2>1, <2>2, <1>12 DEF TypeOK, BecomesReady, Goes, process, cleanup, links
<1>13. CASE StartupFails
  <2>1. actor' \in Actor
    BY <1>0, <1>13 DEF TypeOK, StartupFails, Terminates, Actor, Channel, Invs
  <2>2. step' \in {"none", "signal", "reap", "confirm", "remove"}
    BY <1>0, <1>13 DEF TypeOK, StartupFails, Terminates, Invs
  <2> QED
    BY <2>1, <2>2, <1>13 DEF TypeOK, StartupFails, Terminates, process, cleanup, links
<1>14. CASE Receive
  <2>1. channel' \in Channel
    BY <1>14 DEF Receive, Channel
  <2>2. Head(channel) \in 0..MaxInvocations
    BY <1>14 DEF TypeOK, Receive, Channel
  <2>3. actor' \in Actor
    <3>1. CASE Head(channel) = 0
      BY <3>1, <1>14 DEF TypeOK, Receive, Actor
    <3>2. CASE Head(channel) # 0
      <4>1. actor' = [actor EXCEPT !.pc = "write", !.inv = Head(channel), !.requests = 0]
        BY <3>2, <1>14 DEF Receive
      <4>2. 0 \in 0..MaxRequests /\ actor \in Actor
        BY <1>0 DEF TypeOK
      <4> HIDE DEF TypeOK
      <4> QED
        BY <4>1, <4>2, <2>2 DEF Actor
    <3> QED
      BY <3>1, <3>2
  <2> QED
    BY <2>1, <2>3, <1>14 DEF TypeOK, Receive, process, cleanup
<1>15. CASE Disconnected
  <2>1. actor' \in Actor
    BY <1>0, <1>15 DEF TypeOK, Disconnected, Terminates, Actor, Channel, Invs
  <2>2. step' \in {"none", "signal", "reap", "confirm", "remove"}
    BY <1>0, <1>15 DEF TypeOK, Disconnected, Terminates, Invs
  <2> QED
    BY <2>1, <2>2, <1>15 DEF TypeOK, Disconnected, Terminates, process, cleanup, links
<1>16. CASE Unsolicited
  <2>1. actor' \in Actor
    BY <1>0, <1>16 DEF TypeOK, Unsolicited, Terminates, Actor, Channel, Invs
  <2>2. step' \in {"none", "signal", "reap", "confirm", "remove"}
    BY <1>0, <1>16 DEF TypeOK, Unsolicited, Terminates, Invs
  <2> QED
    BY <2>1, <2>2, <1>16 DEF TypeOK, Unsolicited, Terminates, process, cleanup, links
<1>17. CASE WriteAdmitted
  <2>1. os' \in Os
    BY <1>0, <1>17 DEF TypeOK, WriteAdmitted, Reaches, Goes, Actor, Invs, Os
  <2>2. actor' \in Actor
    BY <1>0, <1>17 DEF TypeOK, WriteAdmitted, Reaches, Goes, Actor, Channel, Invs
  <2> QED
    BY <2>1, <2>2, <1>17 DEF TypeOK, WriteAdmitted, Reaches, Goes, process, cleanup, links
<1>18. CASE CheckPlain
  <2>1. actor' \in Actor
    BY <1>0, <1>18 DEF TypeOK, CheckPlain, Goes, Actor, Channel, Invs
  <2> QED
    BY <2>1, <1>18 DEF TypeOK, CheckPlain, Goes, process, cleanup, links
<1>19. CASE WritePlain
  <2>1. os' \in Os
    BY <1>0, <1>19 DEF TypeOK, WritePlain, Reaches, Goes, Actor, Invs, Os
  <2>2. actor' \in Actor
    BY <1>0, <1>19 DEF TypeOK, WritePlain, Reaches, Goes, Actor, Channel, Invs
  <2> QED
    BY <2>1, <2>2, <1>19 DEF TypeOK, WritePlain, Reaches, Goes, process, cleanup, links
<1>20. CASE Request
  <2>1. actor.requests + 1 \in 0..MaxRequests
    BY <1>0, <1>20 DEF TypeOK, Request, Actor
  <2>2. actor' \in Actor
    BY <2>1, <1>20 DEF TypeOK, Request, Actor
  <2> QED
    BY <2>2, <1>20 DEF TypeOK, Request, process, cleanup, links
<1>21. CASE HandlerReplies
  <2>1. actor' \in Actor
    BY <1>0, <1>21 DEF TypeOK, HandlerReplies, Goes, Actor, Channel, Invs
  <2> QED
    BY <2>1, <1>21 DEF TypeOK, HandlerReplies, Goes, process, cleanup, links
<1>22. CASE Result
  <2>1. os' \in Os
    BY <1>0, <1>22 DEF TypeOK, Result, Goes, Actor, Invs, Os
  <2>2. observed' \in 0..MaxInvocations
    BY <1>0, <1>22 DEF TypeOK, Result, Goes, Actor
  <2>3. actor' \in Actor
    BY <1>0, <1>22 DEF TypeOK, Result, Goes, Actor, Channel, Invs
  <2> QED
    BY <2>1, <2>2, <2>3, <1>22 DEF TypeOK, Result, Goes, process, cleanup, links
<1>23. CASE Judge
  <2>1. CASE replies[actor.inv] = "dropped" \/ actor.inv \notin valid.control
    BY <2>1, <1>23 DEF TypeOK, Judge, Terminates, Actor, links
  <2>2. CASE ~(replies[actor.inv] = "dropped" \/ actor.inv \notin valid.control)
    BY <2>2, <1>23 DEF TypeOK, Judge, Goes, Actor, OneShot, process, cleanup
  <2> QED
    BY <2>1, <2>2
<1>24. CASE InvocationFails
  <2>1. actor' \in Actor
    BY <1>0, <1>24 DEF TypeOK, InvocationFails, Terminates, Actor, Channel, Invs
  <2>2. step' \in {"none", "signal", "reap", "confirm", "remove"}
    BY <1>0, <1>24 DEF TypeOK, InvocationFails, Terminates, Invs
  <2> QED
    BY <2>1, <2>2, <1>24 DEF TypeOK, InvocationFails, Terminates, process, cleanup, links
<1>25. CASE Closing
  <2>1. actor' \in Actor
    BY <1>0, <1>25 DEF TypeOK, Closing, Terminates, Actor, Channel, Invs
  <2>2. step' \in {"none", "signal", "reap", "confirm", "remove"}
    BY <1>0, <1>25 DEF TypeOK, Closing, Terminates, Invs
  <2> QED
    BY <2>1, <2>2, <1>25 DEF TypeOK, Closing, Terminates, process, cleanup, links
<1>26. CASE Panic
  <2>1. actor' \in Actor
    BY <1>0, <1>26 DEF TypeOK, Panic, Answered, Actor, Channel, Invs
  <2>2. lock' \in {"none", "actor", "close"}
    BY <1>0, <1>26 DEF TypeOK, Panic, Answered, Invs
  <2>3. step' \in {"none", "signal", "reap", "confirm", "remove"}
    BY <1>0, <1>26 DEF TypeOK, Panic, Answered, Invs
  <2>4. termination' \in {"none", "ok", "err", "lost"}
    BY <1>0, <1>26 DEF TypeOK, Panic, Answered, Invs
  <2>5. started' \in OneShot
    BY <1>0, <1>26 DEF TypeOK, Panic, Answered, Actor, OneShot
  <2>6. replies' \in [Invs -> OneShot]
    BY <1>0, <1>26 DEF TypeOK, Panic, Answered, Actor, Caller, Invs, OneShot
  <2>7. channel' \in Channel
    BY <1>0, <1>26 DEF TypeOK, Panic, Answered, Caller, Channel, Invs
  <2> QED
    BY <2>1, <2>2, <2>3, <2>4, <2>5, <2>6, <2>7, <1>26 DEF TypeOK, Panic, Answered, process, cleanup, links
<1>27. CASE Startup
  <2>1. caller' \in Caller
    BY <1>0, <1>27 DEF TypeOK, Startup, Calls, Caller, Invs
  <2> QED
    BY <2>1, <1>27 DEF TypeOK, Startup, Calls, process, cleanup, links
<1>28. CASE DropStart
  <2>1. caller' \in Caller
    BY <1>0, <1>28 DEF TypeOK, DropStart, Calls, Answered, Caller, Invs
  <2>2. started' \in OneShot
    BY <1>0, <1>28 DEF TypeOK, DropStart, Calls, Answered, Actor, OneShot
  <2> QED
    BY <2>1, <2>2, <1>28 DEF TypeOK, DropStart, Calls, Answered, process, cleanup, links
<1>29. CASE Execute
  <2>1. caller' \in Caller
    BY <1>0, <1>29 DEF TypeOK, Execute, Calls, Told, Caller, Invs
  <2>2. observed' \in 0..MaxInvocations
    BY <1>0, <1>29 DEF TypeOK, Execute, Calls, Told, Actor
  <2> QED
    BY <2>1, <2>2, <1>29 DEF TypeOK, Execute, Calls, Told, process, cleanup, links
<1>30. CASE Send
  <2>1. CASE actor.pc = "gone"
    <3>1. caller' \in Caller
      <4>1. caller' = [caller EXCEPT !.pc = "held", !.inv = caller.inv, !.told[caller.inv] = "err"]
        BY <2>1, <1>30 DEF Send, Calls, Told
      <4>2. [caller.told EXCEPT ![caller.inv] = "err"] \in [Invs -> {"none", "ok", "err"}]
        BY DEF TypeOK, Caller
      <4> QED
        BY <4>1, <4>2 DEF TypeOK, Caller
    <3> QED
      BY <2>1, <3>1, <1>30 DEF TypeOK, Send, Calls, process, cleanup
  <2>2. CASE actor.pc # "gone"
    <3>1. caller' \in Caller /\ channel' \in Channel
      BY <2>2, <1>30 DEF TypeOK, Send, Calls, Caller, Channel
    <3>2. replies' \in [Invs -> OneShot]
      BY <2>2, <1>30 DEF TypeOK, Send, OneShot
    <3> QED
      BY <2>2, <3>1, <3>2, <1>30 DEF TypeOK, Send, Calls, process, cleanup
  <2> QED
    BY <2>1, <2>2
<1>31. CASE TakeReply
  <2>1. caller' \in Caller
    BY <1>0, <1>31 DEF TypeOK, TakeReply, Calls, Told, Caller, Invs
  <2> QED
    BY <2>1, <1>31 DEF TypeOK, TakeReply, Calls, Told, process, cleanup, links
<1>32. CASE DropExecute
  <2>1. caller' \in Caller
    BY <1>0, <1>32 DEF TypeOK, DropExecute, Calls, Answered, Caller, Invs
  <2>2. replies' \in [Invs -> OneShot]
    BY <1>0, <1>32 DEF TypeOK, DropExecute, Calls, Answered, Actor, Caller, Invs, OneShot
  <2> QED
    BY <2>1, <2>2, <1>32 DEF TypeOK, DropExecute, Calls, Answered, process, cleanup, links
<1>33. CASE Close
  <2>1. caller' \in Caller
    BY <1>0, <1>33 DEF TypeOK, Close, Calls, Caller, Invs
  <2> QED
    BY <2>1, <1>33 DEF TypeOK, Close, Calls, process, cleanup, links
<1>34. CASE SendClose
  <2>1. caller' \in Caller
    BY <1>0, <1>34 DEF TypeOK, SendClose, Calls, Caller, Invs
  <2>2. channel' \in Channel
    BY <1>0, <1>34 DEF TypeOK, SendClose, Calls, Caller, Channel, Invs
  <2> QED
    BY <2>1, <2>2, <1>34 DEF TypeOK, SendClose, Calls, process, cleanup, links
<1>35. CASE Observe
  <2>1. caller' \in Caller
    BY <1>0, <1>35 DEF TypeOK, Observe, Calls, Caller, Invs
  <2> QED
    BY <2>1, <1>35 DEF TypeOK, Observe, Calls, process, cleanup, links
<1>36. CASE Lock
  <2>1. caller' \in Caller
    BY <1>0, <1>36 DEF TypeOK, Lock, Caller, Invs
  <2>2. lock' \in {"none", "actor", "close"}
    BY <1>0, <1>36 DEF TypeOK, Lock, Invs
  <2>3. step' \in {"none", "signal", "reap", "confirm", "remove"}
    BY <1>0, <1>36 DEF TypeOK, Lock, Invs
  <2> QED
    BY <2>1, <2>2, <2>3, <1>36 DEF TypeOK, Lock, process, cleanup, links
<1>37. CASE DropClose
  <2>1. caller' \in Caller
    BY <1>0, <1>37 DEF TypeOK, DropClose, Caller, Invs
  <2>2. lock' \in {"none", "actor", "close"}
    BY <1>0, <1>37 DEF TypeOK, DropClose, Invs
  <2>3. step' \in {"none", "signal", "reap", "confirm", "remove"}
    BY <1>0, <1>37 DEF TypeOK, DropClose, Invs
  <2> QED
    BY <2>1, <2>2, <2>3, <1>37 DEF TypeOK, DropClose, process, cleanup, links
<1>38. CASE DropSession
  <2>1. caller' \in Caller
    BY <1>0, <1>38 DEF TypeOK, DropSession, Calls, Caller, Invs
  <2> QED
    BY <2>1, <1>38 DEF TypeOK, DropSession, Calls, process, cleanup, links
<1>39. CASE UNCHANGED vars
  BY <1>39 DEF vars, TypeOK
<1> QED
  BY <1>1, <1>2, <1>3, <1>4, <1>5, <1>6, <1>7, <1>8, <1>9, <1>10, <1>11, <1>12, <1>13, <1>14, <1>15, <1>16, <1>17, <1>18, <1>19, <1>20, <1>21, <1>22, <1>23, <1>24, <1>25, <1>26, <1>27, <1>28, <1>29, <1>30, <1>31, <1>32, <1>33, <1>34, <1>35, <1>36, <1>37, <1>38, <1>39 DEF Next, System, Cleanup, Works, Runs, Uses

(* The lock and the progress of terminate() agree after every step.        *)
LEMMA LockedStep == TypeOK /\ Locked /\ [Next]_vars => Locked'
<1> SUFFICES ASSUME TypeOK /\ Locked, [Next]_vars PROVE Locked'
  OBVIOUS
<1> USE DEF TypeOK, Os, Owner, Actor, Caller, Channel, OneShot, Valid, Invs, Locked
<1>1. CASE Dies
  BY <1>1 DEF Dies, process, cleanup, links
<1>2. CASE Fork
  BY <1>2 DEF Fork, process, cleanup, links
<1>3. CASE MembersExit
  BY <1>3 DEF MembersExit, process, cleanup, links
<1>4. CASE RemovalEnds
  BY <1>4 DEF RemovalEnds, process, cleanup, links
<1>5. CASE Invalidate
  BY <1>5 DEF Invalidate, process, cleanup, links
<1>6. CASE Signal
  BY <1>6 DEF Signal, Terminating, process, cleanup, links
<1>7. CASE Reap
  BY <1>7 DEF Reap, Terminating, process, cleanup, links
<1>8. CASE ReapFails
  BY ZenonT(60), <1>8 DEF ReapFails, Return, Answered, Dropped, Terminating, process, cleanup, links
<1>9. CASE Confirm
  <2>1. PICK still \in BOOLEAN :
           /\ owner.error /\ os.members => still
           /\ ~owner.error => ~still
           /\ owner' = [owner EXCEPT !.error = still]
           /\ IF still THEN Return("err")
              ELSE step' = "remove" /\ UNCHANGED <<registered, lock, actor, links, caller>>
    BY <1>9 DEF Confirm
  <2>2. CASE still
    <3>1. CASE lock = "actor"
      BY <2>1, <2>2, <3>1, <1>9 DEF Confirm, Return, Terminating
    <3>2. CASE lock # "actor"
      <4>1. /\ caller' = [caller EXCEPT !.pc = "held", !.cleanup = "err"]
            /\ lock' = "none" /\ step' = "none" /\ actor' = actor /\ termination' = termination
            /\ registered' = registered
        BY <2>1, <2>2, <3>2 DEF Return, links
      <4>2. caller'.pc = "held" /\ caller'.cleanup = "err"
        BY <4>1
      <4>3. lock = "close" /\ actor.pc = "gone"
        BY <3>2, <1>9 DEF Confirm, Terminating
      <4> QED
        BY <4>1, <4>2, <4>3, <2>1, <1>9 DEF Confirm
    <3> QED
      BY <3>1, <3>2
  <2>3. CASE ~still
    BY <2>1, <2>3, <1>9 DEF Confirm, Terminating, links
  <2> QED
    BY <2>2, <2>3
<1>10. CASE StartRemoval
  BY <1>10 DEF StartRemoval, Terminating, process, cleanup, links
<1>11. CASE EndRemoval
  BY ZenonT(60), <1>11 DEF EndRemoval, Return, Answered, Dropped, Terminating, process, cleanup, links
<1>12. CASE BecomesReady
  BY <1>12 DEF BecomesReady, Goes, process, cleanup, links
<1>13. CASE StartupFails
  BY <1>13 DEF StartupFails, Terminates, process, cleanup, links
<1>14. CASE Receive
  BY <1>14 DEF Receive, process, cleanup, links
<1>15. CASE Disconnected
  BY <1>15 DEF Disconnected, Terminates, process, cleanup, links
<1>16. CASE Unsolicited
  BY <1>16 DEF Unsolicited, Terminates, process, cleanup, links
<1>17. CASE WriteAdmitted
  BY <1>17 DEF WriteAdmitted, Reaches, Goes, process, cleanup, links
<1>18. CASE CheckPlain
  BY <1>18 DEF CheckPlain, Goes, process, cleanup, links
<1>19. CASE WritePlain
  BY <1>19 DEF WritePlain, Reaches, Goes, process, cleanup, links
<1>20. CASE Request
  BY <1>20 DEF Request, process, cleanup, links
<1>21. CASE HandlerReplies
  BY <1>21 DEF HandlerReplies, Goes, process, cleanup, links
<1>22. CASE Result
  BY <1>22 DEF Result, Goes, process, cleanup, links
<1>23. CASE Judge
  BY ZenonT(60), <1>23 DEF Judge, Terminates, Goes, process, cleanup, links
<1>24. CASE InvocationFails
  BY <1>24 DEF InvocationFails, Terminates, process, cleanup, links
<1>25. CASE Closing
  BY <1>25 DEF Closing, Terminates, process, cleanup, links
<1>26. CASE Panic
  BY <1>26 DEF Panic, Answered, process, cleanup, links
<1>27. CASE Startup
  BY <1>27 DEF Startup, Calls, process, cleanup, links
<1>28. CASE DropStart
  BY <1>28 DEF DropStart, Calls, Answered, process, cleanup, links
<1>29. CASE Execute
  BY <1>29 DEF Execute, Calls, Told, process, cleanup, links
<1>30. CASE Send
  BY ZenonT(60), <1>30 DEF Send, Calls, Told, process, cleanup, links
<1>31. CASE TakeReply
  BY <1>31 DEF TakeReply, Calls, Told, process, cleanup, links
<1>32. CASE DropExecute
  BY <1>32 DEF DropExecute, Calls, Answered, process, cleanup, links
<1>33. CASE Close
  BY <1>33 DEF Close, Calls, process, cleanup, links
<1>34. CASE SendClose
  BY <1>34 DEF SendClose, Calls, process, cleanup, links
<1>35. CASE Observe
  BY <1>35 DEF Observe, Calls, process, cleanup, links
<1>36. CASE Lock
  BY <1>36 DEF Lock, process, cleanup, links
<1>37. CASE DropClose
  BY <1>37 DEF DropClose, process, cleanup, links
<1>38. CASE DropSession
  BY <1>38 DEF DropSession, Calls, process, cleanup, links
<1>39. CASE UNCHANGED vars
  BY <1>39 DEF vars
<1> QED
  BY <1>1, <1>2, <1>3, <1>4, <1>5, <1>6, <1>7, <1>8, <1>9, <1>10, <1>11, <1>12, <1>13, <1>14, <1>15, <1>16, <1>17, <1>18, <1>19, <1>20, <1>21, <1>22, <1>23, <1>24, <1>25, <1>26, <1>27, <1>28, <1>29, <1>30, <1>31, <1>32, <1>33, <1>34, <1>35, <1>36, <1>37, <1>38, <1>39 DEF Next, System, Cleanup, Works, Runs, Uses

(* Signals, reaping and the error of the group stay recorded.              *)
LEMMA RecordedStep == TypeOK /\ Locked /\ Recorded /\ [Next]_vars => Recorded'
<1> SUFFICES ASSUME TypeOK /\ Locked /\ Recorded, [Next]_vars PROVE Recorded'
  OBVIOUS
<1> USE DEF TypeOK, Os, Owner, Actor, Caller, Channel, OneShot, Valid, Invs, Locked, Recorded
<1>1. CASE Dies
  BY <1>1 DEF Dies, process, cleanup, links
<1>2. CASE Fork
  BY <1>2 DEF Fork, process, cleanup, links
<1>3. CASE MembersExit
  BY <1>3 DEF MembersExit, process, cleanup, links
<1>4. CASE RemovalEnds
  BY <1>4 DEF RemovalEnds, process, cleanup, links
<1>5. CASE Invalidate
  BY <1>5 DEF Invalidate, process, cleanup, links
<1>6. CASE Signal
  <2>1. CASE owner.reaped \/ owner.attempted
    BY ZenonT(60), <2>1, <1>6 DEF Signal, Terminating, links
  <2>2. CASE ~(owner.reaped \/ owner.attempted)
    <3>1. PICK fails \in BOOLEAN :
             /\ os' = [os EXCEPT !.signals = @ + 1, !.killed = TRUE, !.members = @ /\ fails]
             /\ owner' = [owner EXCEPT !.attempted = TRUE, !.error = fails]
      BY <2>2, <1>6 DEF Signal
    <3>2. /\ os'.child = os.child /\ os'.killed = TRUE /\ os'.members = (os.members /\ fails)
          /\ os'.signals = os.signals + 1
          /\ owner'.attempted = TRUE /\ owner'.error = fails /\ owner'.reaped = owner.reaped
      BY <3>1
    <3>3. step' = "reap" /\ os'.signals = 1
      <4>1. owner.attempted = FALSE /\ os.signals = 0
        BY <2>2
      <4>2. os'.signals = 1
        BY <4>1, <3>2
      <4> QED
        BY <4>2, <1>6 DEF Signal
    <3> HIDE DEF TypeOK
    <3> QED
      BY <2>2, <3>2, <3>3
  <2> QED
    BY <2>1, <2>2
<1>7. CASE Reap
  BY <1>7 DEF Reap, Terminating, process, cleanup, links
<1>8. CASE ReapFails
  BY <1>8 DEF ReapFails, Return, Answered, Dropped, Terminating, process, cleanup, links
<1>9. CASE Confirm
  BY <1>9 DEF Confirm, Return, Answered, Dropped, Terminating, process, cleanup, links
<1>10. CASE StartRemoval
  BY <1>10 DEF StartRemoval, Terminating, process, cleanup, links
<1>11. CASE EndRemoval
  BY <1>11 DEF EndRemoval, Return, Answered, Dropped, Terminating, process, cleanup, links
<1>12. CASE BecomesReady
  BY <1>12 DEF BecomesReady, Goes, process, cleanup, links
<1>13. CASE StartupFails
  BY <1>13 DEF StartupFails, Terminates, process, cleanup, links
<1>14. CASE Receive
  BY <1>14 DEF Receive, process, cleanup, links
<1>15. CASE Disconnected
  BY <1>15 DEF Disconnected, Terminates, process, cleanup, links
<1>16. CASE Unsolicited
  BY <1>16 DEF Unsolicited, Terminates, process, cleanup, links
<1>17. CASE WriteAdmitted
  BY <1>17 DEF WriteAdmitted, Reaches, Goes, process, cleanup, links
<1>18. CASE CheckPlain
  BY <1>18 DEF CheckPlain, Goes, process, cleanup, links
<1>19. CASE WritePlain
  BY <1>19 DEF WritePlain, Reaches, Goes, process, cleanup, links
<1>20. CASE Request
  BY <1>20 DEF Request, process, cleanup, links
<1>21. CASE HandlerReplies
  BY <1>21 DEF HandlerReplies, Goes, process, cleanup, links
<1>22. CASE Result
  BY <1>22 DEF Result, Goes, process, cleanup, links
<1>23. CASE Judge
  BY <1>23 DEF Judge, Terminates, Goes, process, cleanup, links
<1>24. CASE InvocationFails
  BY <1>24 DEF InvocationFails, Terminates, process, cleanup, links
<1>25. CASE Closing
  BY <1>25 DEF Closing, Terminates, process, cleanup, links
<1>26. CASE Panic
  BY <1>26 DEF Panic, Answered, process, cleanup, links
<1>27. CASE Startup
  BY <1>27 DEF Startup, Calls, process, cleanup, links
<1>28. CASE DropStart
  BY <1>28 DEF DropStart, Calls, Answered, process, cleanup, links
<1>29. CASE Execute
  BY <1>29 DEF Execute, Calls, Told, process, cleanup, links
<1>30. CASE Send
  BY <1>30 DEF Send, Calls, Told, process, cleanup, links
<1>31. CASE TakeReply
  BY <1>31 DEF TakeReply, Calls, Told, process, cleanup, links
<1>32. CASE DropExecute
  BY <1>32 DEF DropExecute, Calls, Answered, process, cleanup, links
<1>33. CASE Close
  BY <1>33 DEF Close, Calls, process, cleanup, links
<1>34. CASE SendClose
  BY <1>34 DEF SendClose, Calls, process, cleanup, links
<1>35. CASE Observe
  BY <1>35 DEF Observe, Calls, process, cleanup, links
<1>36. CASE Lock
  BY <1>36 DEF Lock, process, cleanup, links
<1>37. CASE DropClose
  BY <1>37 DEF DropClose, process, cleanup, links
<1>38. CASE DropSession
  BY <1>38 DEF DropSession, Calls, process, cleanup, links
<1>39. CASE UNCHANGED vars
  BY <1>39 DEF vars
<1> QED
  BY <1>1, <1>2, <1>3, <1>4, <1>5, <1>6, <1>7, <1>8, <1>9, <1>10, <1>11, <1>12, <1>13, <1>14, <1>15, <1>16, <1>17, <1>18, <1>19, <1>20, <1>21, <1>22, <1>23, <1>24, <1>25, <1>26, <1>27, <1>28, <1>29, <1>30, <1>31, <1>32, <1>33, <1>34, <1>35, <1>36, <1>37, <1>38, <1>39 DEF Next, System, Cleanup, Works, Runs, Uses

(* The record outlives whatever it stands for.                             *)
LEMMA RemovedStep == TypeOK /\ Locked /\ Recorded /\ Removed /\ [Next]_vars => Removed'
<1> SUFFICES ASSUME TypeOK /\ Locked /\ Recorded /\ Removed, [Next]_vars PROVE Removed'
  OBVIOUS
<1> USE DEF TypeOK, Os, Owner, Actor, Caller, Channel, OneShot, Valid, Invs, Locked, Recorded, Removed
<1>1. CASE Dies
  BY <1>1 DEF Dies, process, cleanup, links
<1>2. CASE Fork
  BY <1>2 DEF Fork, process, cleanup, links
<1>3. CASE MembersExit
  BY <1>3 DEF MembersExit, process, cleanup, links
<1>4. CASE RemovalEnds
  BY <1>4 DEF RemovalEnds, process, cleanup, links
<1>5. CASE Invalidate
  BY <1>5 DEF Invalidate, process, cleanup, links
<1>6. CASE Signal
  <2>1. CASE owner.reaped \/ owner.attempted
    BY ZenonT(60), <2>1, <1>6 DEF Signal, Terminating, links
  <2>2. CASE ~(owner.reaped \/ owner.attempted)
    <3>1. PICK fails \in BOOLEAN :
             /\ os' = [os EXCEPT !.signals = @ + 1, !.killed = TRUE, !.members = @ /\ fails]
             /\ owner' = [owner EXCEPT !.attempted = TRUE, !.error = fails]
      BY <2>2, <1>6 DEF Signal
    <3> QED
      BY <2>2, <3>1, <1>6 DEF Signal, Terminating, links
  <2> QED
    BY <2>1, <2>2
<1>7. CASE Reap
  BY <1>7 DEF Reap, Terminating, process, cleanup, links
<1>8. CASE ReapFails
  BY ZenonT(60), <1>8 DEF ReapFails, Return, Answered, Dropped, Terminating, process, cleanup, links
<1>9. CASE Confirm
  <2>1. PICK still \in BOOLEAN :
           /\ owner.error /\ os.members => still
           /\ ~owner.error => ~still
           /\ owner' = [owner EXCEPT !.error = still]
           /\ IF still THEN Return("err")
              ELSE step' = "remove" /\ UNCHANGED <<registered, lock, actor, links, caller>>
    BY <1>9 DEF Confirm
  <2>2. CASE still
    <3>1. CASE lock = "actor"
      BY <2>1, <2>2, <3>1, <1>9 DEF Confirm, Return, Terminating
    <3>2. CASE lock # "actor"
      <4>1. /\ caller' = [caller EXCEPT !.pc = "held", !.cleanup = "err"]
            /\ lock' = "none" /\ step' = "none" /\ actor' = actor /\ termination' = termination
            /\ registered' = registered
        BY <2>1, <2>2, <3>2 DEF Return, links
      <4>2. caller'.pc = "held" /\ caller'.cleanup = "err"
        BY <4>1
      <4>3. lock = "close" /\ actor.pc = "gone"
        BY <3>2, <1>9 DEF Confirm, Terminating
      <4> QED
        BY <4>1, <4>2, <4>3, <2>1, <1>9 DEF Confirm
    <3> QED
      BY <3>1, <3>2
  <2>3. CASE ~still
    BY <2>1, <2>3, <1>9 DEF Confirm, Terminating, links
  <2> QED
    BY <2>2, <2>3
<1>10. CASE StartRemoval
  BY <1>10 DEF StartRemoval, Terminating, process, cleanup, links
<1>11. CASE EndRemoval
  BY ZenonT(60), <1>11 DEF EndRemoval, Return, Answered, Dropped, Terminating, process, cleanup, links
<1>12. CASE BecomesReady
  BY <1>12 DEF BecomesReady, Goes, process, cleanup, links
<1>13. CASE StartupFails
  BY <1>13 DEF StartupFails, Terminates, process, cleanup, links
<1>14. CASE Receive
  BY <1>14 DEF Receive, process, cleanup, links
<1>15. CASE Disconnected
  BY <1>15 DEF Disconnected, Terminates, process, cleanup, links
<1>16. CASE Unsolicited
  BY <1>16 DEF Unsolicited, Terminates, process, cleanup, links
<1>17. CASE WriteAdmitted
  BY <1>17 DEF WriteAdmitted, Reaches, Goes, process, cleanup, links
<1>18. CASE CheckPlain
  BY <1>18 DEF CheckPlain, Goes, process, cleanup, links
<1>19. CASE WritePlain
  BY <1>19 DEF WritePlain, Reaches, Goes, process, cleanup, links
<1>20. CASE Request
  BY <1>20 DEF Request, process, cleanup, links
<1>21. CASE HandlerReplies
  BY <1>21 DEF HandlerReplies, Goes, process, cleanup, links
<1>22. CASE Result
  BY <1>22 DEF Result, Goes, process, cleanup, links
<1>23. CASE Judge
  BY <1>23 DEF Judge, Terminates, Goes, process, cleanup, links
<1>24. CASE InvocationFails
  BY <1>24 DEF InvocationFails, Terminates, process, cleanup, links
<1>25. CASE Closing
  BY <1>25 DEF Closing, Terminates, process, cleanup, links
<1>26. CASE Panic
  BY <1>26 DEF Panic, Answered, process, cleanup, links
<1>27. CASE Startup
  BY <1>27 DEF Startup, Calls, process, cleanup, links
<1>28. CASE DropStart
  BY <1>28 DEF DropStart, Calls, Answered, process, cleanup, links
<1>29. CASE Execute
  BY <1>29 DEF Execute, Calls, Told, process, cleanup, links
<1>30. CASE Send
  <2>1. caller'.cleanup = caller.cleanup
    <3>1. CASE actor.pc = "gone"
      <4>1. caller' = [caller EXCEPT !.pc = "held", !.inv = caller.inv, !.told[caller.inv] = "err"]
        BY <3>1, <1>30 DEF Send, Calls, Told
      <4> QED
        BY <4>1
    <3>2. CASE actor.pc # "gone"
      BY <3>2, <1>30 DEF Send, Calls
    <3> QED
      BY <3>1, <3>2
  <2> QED
    BY <2>1, <1>30 DEF Send, Calls, process, cleanup
<1>31. CASE TakeReply
  BY <1>31 DEF TakeReply, Calls, Told, process, cleanup, links
<1>32. CASE DropExecute
  BY <1>32 DEF DropExecute, Calls, Answered, process, cleanup, links
<1>33. CASE Close
  BY <1>33 DEF Close, Calls, process, cleanup, links
<1>34. CASE SendClose
  BY <1>34 DEF SendClose, Calls, process, cleanup, links
<1>35. CASE Observe
  BY <1>35 DEF Observe, Calls, process, cleanup, links
<1>36. CASE Lock
  BY <1>36 DEF Lock, process, cleanup, links
<1>37. CASE DropClose
  BY <1>37 DEF DropClose, process, cleanup, links
<1>38. CASE DropSession
  BY <1>38 DEF DropSession, Calls, process, cleanup, links
<1>39. CASE UNCHANGED vars
  BY <1>39 DEF vars
<1> QED
  BY <1>1, <1>2, <1>3, <1>4, <1>5, <1>6, <1>7, <1>8, <1>9, <1>10, <1>11, <1>12, <1>13, <1>14, <1>15, <1>16, <1>17, <1>18, <1>19, <1>20, <1>21, <1>22, <1>23, <1>24, <1>25, <1>26, <1>27, <1>28, <1>29, <1>30, <1>31, <1>32, <1>33, <1>34, <1>35, <1>36, <1>37, <1>38, <1>39 DEF Next, System, Cleanup, Works, Runs, Uses

(* Invocations keep their order on the way to the process.                 *)
LEMMA OrderedStep == TypeOK /\ Locked /\ Ordered /\ Running /\ [Next]_vars => Ordered'
<1> SUFFICES ASSUME TypeOK /\ Locked /\ Ordered /\ Running, [Next]_vars PROVE Ordered'
  OBVIOUS
<1> USE DEF TypeOK, Os, Owner, Actor, Caller, Channel, OneShot, Valid, Invs, Locked, Ordered, Running, InHand
<1>1. CASE Dies
  BY <1>1 DEF Dies, process, cleanup, links
<1>2. CASE Fork
  BY <1>2 DEF Fork, process, cleanup, links
<1>3. CASE MembersExit
  BY <1>3 DEF MembersExit, process, cleanup, links
<1>4. CASE RemovalEnds
  BY <1>4 DEF RemovalEnds, process, cleanup, links
<1>5. CASE Invalidate
  BY <1>5 DEF Invalidate, process, cleanup, links
<1>6. CASE Signal
  <2>1. /\ os'.seen = os.seen /\ os'.done = os.done /\ os'.running = os.running
        /\ os'.child = os.child /\ UNCHANGED <<actor, channel, replies, caller, observed>>
    BY <1>6, SignalEffect
  <2> QED
    BY <2>1
<1>7. CASE Reap
  BY <1>7 DEF Reap, Terminating, process, cleanup, links
<1>8. CASE ReapFails
  <2>1. Left \/ GoesOn
    BY <1>8, ReturnEffect DEF ReapFails, Terminating
  <2>2. CASE Left
    BY <2>2, <1>8 DEF Left, ReapFails
  <2>3. CASE GoesOn
    BY <2>3, <1>8 DEF GoesOn, ReapFails
  <2> QED
    BY <2>1, <2>2, <2>3
<1>9. CASE Confirm
  <2>1. Left \/ GoesOn \/ UNCHANGED <<actor, links, caller>>
    BY <1>9, ReturnEffect DEF Confirm, Terminating
  <2>2. CASE Left
    BY <2>2, <1>9 DEF Left, Confirm
  <2>3. CASE GoesOn
    BY <2>3, <1>9 DEF GoesOn, Confirm
  <2>4. CASE UNCHANGED <<actor, links, caller>>
    BY <2>4, <1>9 DEF Confirm, links
  <2> QED
    BY <2>1, <2>2, <2>3, <2>4
<1>10. CASE StartRemoval
  BY <1>10 DEF StartRemoval, Terminating, process, cleanup, links
<1>11. CASE EndRemoval
  <2>1. Left \/ GoesOn
    BY <1>11, ReturnEffect DEF EndRemoval, Terminating
  <2>2. CASE Left
    BY <2>2, <1>11 DEF Left, EndRemoval
  <2>3. CASE GoesOn
    BY <2>3, <1>11 DEF GoesOn, EndRemoval
  <2> QED
    BY <2>1, <2>2, <2>3
<1>12. CASE BecomesReady
  BY <1>12 DEF BecomesReady, Goes, process, cleanup, links
<1>13. CASE StartupFails
  BY <1>13 DEF StartupFails, Terminates, process, cleanup, links
<1>14. CASE Receive
  BY <1>14 DEF Receive, process, cleanup, links
<1>15. CASE Disconnected
  BY <1>15 DEF Disconnected, Terminates, process, cleanup, links
<1>16. CASE Unsolicited
  BY <1>16 DEF Unsolicited, Terminates, process, cleanup, links
<1>17. CASE WriteAdmitted
  BY <1>17 DEF WriteAdmitted, Reaches, Goes, process, cleanup, links
<1>18. CASE CheckPlain
  BY <1>18 DEF CheckPlain, Goes, process, cleanup, links
<1>19. CASE WritePlain
  BY <1>19 DEF WritePlain, Reaches, Goes, process, cleanup, links
<1>20. CASE Request
  BY <1>20 DEF Request, process, cleanup, links
<1>21. CASE HandlerReplies
  BY <1>21 DEF HandlerReplies, Goes, process, cleanup, links
<1>22. CASE Result
  BY <1>22 DEF Result, Goes, process, cleanup, links
<1>23. CASE Judge
  <2>1. actor.pc = "judge" /\ (Retires \/ Answers)
    BY <1>23, JudgeEffect
  <2>2. CASE Retires
    BY <2>1, <2>2 DEF Retires
  <2>3. CASE Answers
    BY <2>1, <2>3 DEF Answers
  <2> QED
    BY <2>1, <2>2, <2>3
<1>24. CASE InvocationFails
  BY <1>24 DEF InvocationFails, Terminates, process, cleanup, links
<1>25. CASE Closing
  BY <1>25 DEF Closing, Terminates, process, cleanup, links
<1>26. CASE Panic
  BY <1>26 DEF Panic, Answered, process, cleanup, links
<1>27. CASE Startup
  BY <1>27 DEF Startup, Calls, process, cleanup, links
<1>28. CASE DropStart
  BY <1>28 DEF DropStart, Calls, Answered, process, cleanup, links
<1>29. CASE Execute
  BY <1>29 DEF Execute, Calls, Told, process, cleanup, links
<1>30. CASE Send
  <2>1. caller.pc = "sending" /\ (Refused \/ Accepted)
    BY <1>30, SendEffect
  <2>2. CASE Refused
    BY <2>1, <2>2 DEF Refused
  <2>3. CASE Accepted
    BY <2>1, <2>3 DEF Accepted
  <2> QED
    BY <2>1, <2>2, <2>3
<1>31. CASE TakeReply
  BY <1>31 DEF TakeReply, Calls, Told, process, cleanup, links
<1>32. CASE DropExecute
  BY <1>32 DEF DropExecute, Calls, Answered, process, cleanup, links
<1>33. CASE Close
  BY <1>33 DEF Close, Calls, process, cleanup, links
<1>34. CASE SendClose
  BY <1>34 DEF SendClose, Calls, process, cleanup, links
<1>35. CASE Observe
  BY <1>35 DEF Observe, Calls, process, cleanup, links
<1>36. CASE Lock
  BY <1>36 DEF Lock, process, cleanup, links
<1>37. CASE DropClose
  BY <1>37 DEF DropClose, process, cleanup, links
<1>38. CASE DropSession
  BY <1>38 DEF DropSession, Calls, process, cleanup, links
<1>39. CASE UNCHANGED vars
  BY <1>39 DEF vars
<1> QED
  BY <1>1, <1>2, <1>3, <1>4, <1>5, <1>6, <1>7, <1>8, <1>9, <1>10, <1>11, <1>12, <1>13, <1>14, <1>15, <1>16, <1>17, <1>18, <1>19, <1>20, <1>21, <1>22, <1>23, <1>24, <1>25, <1>26, <1>27, <1>28, <1>29, <1>30, <1>31, <1>32, <1>33, <1>34, <1>35, <1>36, <1>37, <1>38, <1>39 DEF Next, System, Cleanup, Works, Runs, Uses

(* The process runs only what the actor waits for or has given up on.      *)
LEMMA RunningStep == TypeOK /\ Recorded /\ Ordered /\ Running /\ [Next]_vars => Running'
<1> SUFFICES ASSUME TypeOK /\ Recorded /\ Ordered /\ Running, [Next]_vars PROVE Running'
  OBVIOUS
<1> USE DEF TypeOK, Os, Owner, Actor, Caller, Channel, OneShot, Valid, Invs, Recorded, Ordered, Running, InHand
<1>1. CASE Dies
  BY <1>1 DEF Dies, process, cleanup, links
<1>2. CASE Fork
  BY <1>2 DEF Fork, process, cleanup, links
<1>3. CASE MembersExit
  BY <1>3 DEF MembersExit, process, cleanup, links
<1>4. CASE RemovalEnds
  BY <1>4 DEF RemovalEnds, process, cleanup, links
<1>5. CASE Invalidate
  BY <1>5 DEF Invalidate, process, cleanup, links
<1>6. CASE Signal
  <2>1. /\ os'.seen = os.seen /\ os'.done = os.done /\ os'.running = os.running
        /\ os'.child = os.child /\ UNCHANGED <<actor, channel, replies, caller, observed>>
    BY <1>6, SignalEffect
  <2> QED
    BY <2>1
<1>7. CASE Reap
  BY <1>7 DEF Reap, Terminating, process, cleanup, links
<1>8. CASE ReapFails
  BY <1>8 DEF ReapFails, Return, Answered, Dropped, Terminating, process, cleanup, links
<1>9. CASE Confirm
  BY <1>9 DEF Confirm, Return, Answered, Dropped, Terminating, process, cleanup, links
<1>10. CASE StartRemoval
  BY <1>10 DEF StartRemoval, Terminating, process, cleanup, links
<1>11. CASE EndRemoval
  BY <1>11 DEF EndRemoval, Return, Answered, Dropped, Terminating, process, cleanup, links
<1>12. CASE BecomesReady
  BY <1>12 DEF BecomesReady, Goes, process, cleanup, links
<1>13. CASE StartupFails
  BY <1>13 DEF StartupFails, Terminates, process, cleanup, links
<1>14. CASE Receive
  BY <1>14 DEF Receive, process, cleanup, links
<1>15. CASE Disconnected
  BY <1>15 DEF Disconnected, Terminates, process, cleanup, links
<1>16. CASE Unsolicited
  BY <1>16 DEF Unsolicited, Terminates, process, cleanup, links
<1>17. CASE WriteAdmitted
  BY <1>17 DEF WriteAdmitted, Reaches, Goes, process, cleanup, links
<1>18. CASE CheckPlain
  BY <1>18 DEF CheckPlain, Goes, process, cleanup, links
<1>19. CASE WritePlain
  BY <1>19 DEF WritePlain, Reaches, Goes, process, cleanup, links
<1>20. CASE Request
  BY <1>20 DEF Request, process, cleanup, links
<1>21. CASE HandlerReplies
  BY <1>21 DEF HandlerReplies, Goes, process, cleanup, links
<1>22. CASE Result
  BY <1>22 DEF Result, Goes, process, cleanup, links
<1>23. CASE Judge
  <2>1. actor.pc = "judge" /\ (Retires \/ Answers)
    BY <1>23, JudgeEffect
  <2>2. CASE Retires
    BY <2>1, <2>2 DEF Retires
  <2>3. CASE Answers
    BY <2>1, <2>3 DEF Answers
  <2> QED
    BY <2>1, <2>2, <2>3
<1>24. CASE InvocationFails
  BY <1>24 DEF InvocationFails, Terminates, process, cleanup, links
<1>25. CASE Closing
  BY <1>25 DEF Closing, Terminates, process, cleanup, links
<1>26. CASE Panic
  BY <1>26 DEF Panic, Answered, process, cleanup, links
<1>27. CASE Startup
  BY <1>27 DEF Startup, Calls, process, cleanup, links
<1>28. CASE DropStart
  BY <1>28 DEF DropStart, Calls, Answered, process, cleanup, links
<1>29. CASE Execute
  BY <1>29 DEF Execute, Calls, Told, process, cleanup, links
<1>30. CASE Send
  BY <1>30 DEF Send, Calls, Told, process, cleanup, links
<1>31. CASE TakeReply
  BY <1>31 DEF TakeReply, Calls, Told, process, cleanup, links
<1>32. CASE DropExecute
  BY <1>32 DEF DropExecute, Calls, Answered, process, cleanup, links
<1>33. CASE Close
  BY <1>33 DEF Close, Calls, process, cleanup, links
<1>34. CASE SendClose
  BY <1>34 DEF SendClose, Calls, process, cleanup, links
<1>35. CASE Observe
  BY <1>35 DEF Observe, Calls, process, cleanup, links
<1>36. CASE Lock
  BY <1>36 DEF Lock, process, cleanup, links
<1>37. CASE DropClose
  BY <1>37 DEF DropClose, process, cleanup, links
<1>38. CASE DropSession
  BY <1>38 DEF DropSession, Calls, process, cleanup, links
<1>39. CASE UNCHANGED vars
  BY <1>39 DEF vars
<1> QED
  BY <1>1, <1>2, <1>3, <1>4, <1>5, <1>6, <1>7, <1>8, <1>9, <1>10, <1>11, <1>12, <1>13, <1>14, <1>15, <1>16, <1>17, <1>18, <1>19, <1>20, <1>21, <1>22, <1>23, <1>24, <1>25, <1>26, <1>27, <1>28, <1>29, <1>30, <1>31, <1>32, <1>33, <1>34, <1>35, <1>36, <1>37, <1>38, <1>39 DEF Next, System, Cleanup, Works, Runs, Uses

(* What a oneshot holds stays true.                                        *)
LEMMA RepliedStep == TypeOK /\ Ordered /\ Running /\ Replied /\ Locked /\ [Next]_vars => Replied'
<1> SUFFICES ASSUME TypeOK /\ Ordered /\ Running /\ Replied /\ Locked, [Next]_vars PROVE Replied'
  OBVIOUS
<1> USE DEF TypeOK, Os, Owner, Actor, Caller, Channel, OneShot, Valid, Invs, Ordered, Running, Replied, InHand, Locked
<1>1. CASE Dies
  BY <1>1 DEF Dies, process, cleanup, links
<1>2. CASE Fork
  BY <1>2 DEF Fork, process, cleanup, links
<1>3. CASE MembersExit
  BY <1>3 DEF MembersExit, process, cleanup, links
<1>4. CASE RemovalEnds
  BY <1>4 DEF RemovalEnds, process, cleanup, links
<1>5. CASE Invalidate
  BY <1>5 DEF Invalidate, process, cleanup, links
<1>6. CASE Signal
  <2>1. /\ os'.seen = os.seen /\ os'.done = os.done /\ os'.running = os.running
        /\ os'.child = os.child /\ UNCHANGED <<actor, channel, replies, caller, observed>>
    BY <1>6, SignalEffect
  <2> QED
    BY <2>1
<1>7. CASE Reap
  BY <1>7 DEF Reap, Terminating, process, cleanup, links
<1>8. CASE ReapFails
  <2>1. Left \/ GoesOn
    BY <1>8, ReturnEffect DEF ReapFails, Terminating
  <2>2. CASE Left
    BY <2>2, <1>8 DEF Left, ReapFails
  <2>3. CASE GoesOn
    BY <2>3, <1>8 DEF GoesOn, ReapFails
  <2> QED
    BY <2>1, <2>2, <2>3
<1>9. CASE Confirm
  <2>1. Left \/ GoesOn \/ UNCHANGED <<actor, links, caller>>
    BY <1>9, ReturnEffect DEF Confirm, Terminating
  <2>2. CASE Left
    BY <2>2, <1>9 DEF Left, Confirm
  <2>3. CASE GoesOn
    BY <2>3, <1>9 DEF GoesOn, Confirm
  <2>4. CASE UNCHANGED <<actor, links, caller>>
    BY <2>4, <1>9 DEF Confirm, links
  <2> QED
    BY <2>1, <2>2, <2>3, <2>4
<1>10. CASE StartRemoval
  BY <1>10 DEF StartRemoval, Terminating, process, cleanup, links
<1>11. CASE EndRemoval
  <2>1. Left \/ GoesOn
    BY <1>11, ReturnEffect DEF EndRemoval, Terminating
  <2>2. CASE Left
    BY <2>2, <1>11 DEF Left, EndRemoval
  <2>3. CASE GoesOn
    BY <2>3, <1>11 DEF GoesOn, EndRemoval
  <2> QED
    BY <2>1, <2>2, <2>3
<1>12. CASE BecomesReady
  BY <1>12 DEF BecomesReady, Goes, process, cleanup, links
<1>13. CASE StartupFails
  BY <1>13 DEF StartupFails, Terminates, process, cleanup, links
<1>14. CASE Receive
  BY <1>14 DEF Receive, process, cleanup, links
<1>15. CASE Disconnected
  BY <1>15 DEF Disconnected, Terminates, process, cleanup, links
<1>16. CASE Unsolicited
  BY <1>16 DEF Unsolicited, Terminates, process, cleanup, links
<1>17. CASE WriteAdmitted
  BY <1>17 DEF WriteAdmitted, Reaches, Goes, process, cleanup, links
<1>18. CASE CheckPlain
  BY <1>18 DEF CheckPlain, Goes, process, cleanup, links
<1>19. CASE WritePlain
  BY <1>19 DEF WritePlain, Reaches, Goes, process, cleanup, links
<1>20. CASE Request
  BY <1>20 DEF Request, process, cleanup, links
<1>21. CASE HandlerReplies
  BY <1>21 DEF HandlerReplies, Goes, process, cleanup, links
<1>22. CASE Result
  BY <1>22 DEF Result, Goes, process, cleanup, links
<1>23. CASE Judge
  <2>1. actor.pc = "judge" /\ (Retires \/ Answers)
    BY <1>23, JudgeEffect
  <2>2. CASE Retires
    BY <2>1, <2>2 DEF Retires
  <2>3. CASE Answers
    BY <2>1, <2>3 DEF Answers
  <2> QED
    BY <2>1, <2>2, <2>3
<1>24. CASE InvocationFails
  BY <1>24 DEF InvocationFails, Terminates, process, cleanup, links
<1>25. CASE Closing
  BY <1>25 DEF Closing, Terminates, process, cleanup, links
<1>26. CASE Panic
  BY <1>26 DEF Panic, Answered, process, cleanup, links
<1>27. CASE Startup
  BY <1>27 DEF Startup, Calls, process, cleanup, links
<1>28. CASE DropStart
  BY <1>28 DEF DropStart, Calls, Answered, process, cleanup, links
<1>29. CASE Execute
  BY <1>29 DEF Execute, Calls, Told, process, cleanup, links
<1>30. CASE Send
  <2>1. caller.pc = "sending" /\ (Refused \/ Accepted)
    BY <1>30, SendEffect
  <2>2. CASE Refused
    BY <2>1, <2>2 DEF Refused
  <2>3. CASE Accepted
    BY SMTT(30), <2>1, <2>3 DEF Accepted
  <2> QED
    BY <2>1, <2>2, <2>3
<1>31. CASE TakeReply
  BY <1>31 DEF TakeReply, Calls, Told, process, cleanup, links
<1>32. CASE DropExecute
  BY <1>32 DEF DropExecute, Calls, Answered, process, cleanup, links
<1>33. CASE Close
  BY <1>33 DEF Close, Calls, process, cleanup, links
<1>34. CASE SendClose
  BY <1>34 DEF SendClose, Calls, process, cleanup, links
<1>35. CASE Observe
  BY <1>35 DEF Observe, Calls, process, cleanup, links
<1>36. CASE Lock
  BY <1>36 DEF Lock, process, cleanup, links
<1>37. CASE DropClose
  BY <1>37 DEF DropClose, process, cleanup, links
<1>38. CASE DropSession
  BY <1>38 DEF DropSession, Calls, process, cleanup, links
<1>39. CASE UNCHANGED vars
  BY <1>39 DEF vars
<1> QED
  BY <1>1, <1>2, <1>3, <1>4, <1>5, <1>6, <1>7, <1>8, <1>9, <1>10, <1>11, <1>12, <1>13, <1>14, <1>15, <1>16, <1>17, <1>18, <1>19, <1>20, <1>21, <1>22, <1>23, <1>24, <1>25, <1>26, <1>27, <1>28, <1>29, <1>30, <1>31, <1>32, <1>33, <1>34, <1>35, <1>36, <1>37, <1>38, <1>39 DEF Next, System, Cleanup, Works, Runs, Uses

(* Observations stay with their invocation.                                *)
LEMMA ObservedStep == TypeOK /\ Ordered /\ Running /\ Replied /\ Observed /\ Locked /\ [Next]_vars => Observed'
<1> SUFFICES ASSUME TypeOK /\ Ordered /\ Running /\ Replied /\ Observed /\ Locked, [Next]_vars PROVE Observed'
  OBVIOUS
<1> USE DEF TypeOK, Os, Owner, Actor, Caller, Channel, OneShot, Valid, Invs, Ordered, Running, Replied, Observed, InHand, Locked
<1>1. CASE Dies
  BY <1>1 DEF Dies, process, cleanup, links
<1>2. CASE Fork
  BY <1>2 DEF Fork, process, cleanup, links
<1>3. CASE MembersExit
  BY <1>3 DEF MembersExit, process, cleanup, links
<1>4. CASE RemovalEnds
  BY <1>4 DEF RemovalEnds, process, cleanup, links
<1>5. CASE Invalidate
  BY <1>5 DEF Invalidate, process, cleanup, links
<1>6. CASE Signal
  <2>1. /\ os'.seen = os.seen /\ os'.done = os.done /\ os'.running = os.running
        /\ os'.child = os.child /\ UNCHANGED <<actor, channel, replies, caller, observed>>
    BY <1>6, SignalEffect
  <2> QED
    BY <2>1
<1>7. CASE Reap
  BY <1>7 DEF Reap, Terminating, process, cleanup, links
<1>8. CASE ReapFails
  <2>1. Left \/ GoesOn
    BY <1>8, ReturnEffect DEF ReapFails, Terminating
  <2>2. CASE Left
    BY <2>2, <1>8 DEF Left, ReapFails
  <2>3. CASE GoesOn
    BY <2>3, <1>8 DEF GoesOn, ReapFails
  <2> QED
    BY <2>1, <2>2, <2>3
<1>9. CASE Confirm
  <2>1. Left \/ GoesOn \/ UNCHANGED <<actor, links, caller>>
    BY <1>9, ReturnEffect DEF Confirm, Terminating
  <2>2. CASE Left
    BY <2>2, <1>9 DEF Left, Confirm
  <2>3. CASE GoesOn
    BY <2>3, <1>9 DEF GoesOn, Confirm
  <2>4. CASE UNCHANGED <<actor, links, caller>>
    BY <2>4, <1>9 DEF Confirm, links
  <2> QED
    BY <2>1, <2>2, <2>3, <2>4
<1>10. CASE StartRemoval
  BY <1>10 DEF StartRemoval, Terminating, process, cleanup, links
<1>11. CASE EndRemoval
  <2>1. Left \/ GoesOn
    BY <1>11, ReturnEffect DEF EndRemoval, Terminating
  <2>2. CASE Left
    BY <2>2, <1>11 DEF Left, EndRemoval
  <2>3. CASE GoesOn
    BY <2>3, <1>11 DEF GoesOn, EndRemoval
  <2> QED
    BY <2>1, <2>2, <2>3
<1>12. CASE BecomesReady
  BY <1>12 DEF BecomesReady, Goes, process, cleanup, links
<1>13. CASE StartupFails
  BY <1>13 DEF StartupFails, Terminates, process, cleanup, links
<1>14. CASE Receive
  BY <1>14 DEF Receive, process, cleanup, links
<1>15. CASE Disconnected
  BY <1>15 DEF Disconnected, Terminates, process, cleanup, links
<1>16. CASE Unsolicited
  BY <1>16 DEF Unsolicited, Terminates, process, cleanup, links
<1>17. CASE WriteAdmitted
  BY <1>17 DEF WriteAdmitted, Reaches, Goes, process, cleanup, links
<1>18. CASE CheckPlain
  BY <1>18 DEF CheckPlain, Goes, process, cleanup, links
<1>19. CASE WritePlain
  BY <1>19 DEF WritePlain, Reaches, Goes, process, cleanup, links
<1>20. CASE Request
  BY <1>20 DEF Request, process, cleanup, links
<1>21. CASE HandlerReplies
  BY <1>21 DEF HandlerReplies, Goes, process, cleanup, links
<1>22. CASE Result
  BY <1>22 DEF Result, Goes, process, cleanup, links
<1>23. CASE Judge
  <2>1. actor.pc = "judge" /\ (Retires \/ Answers)
    BY <1>23, JudgeEffect
  <2>2. CASE Retires
    BY <2>1, <2>2 DEF Retires
  <2>3. CASE Answers
    BY <2>1, <2>3 DEF Answers
  <2> QED
    BY <2>1, <2>2, <2>3
<1>24. CASE InvocationFails
  BY <1>24 DEF InvocationFails, Terminates, process, cleanup, links
<1>25. CASE Closing
  BY <1>25 DEF Closing, Terminates, process, cleanup, links
<1>26. CASE Panic
  BY <1>26 DEF Panic, Answered, process, cleanup, links
<1>27. CASE Startup
  BY <1>27 DEF Startup, Calls, process, cleanup, links
<1>28. CASE DropStart
  BY <1>28 DEF DropStart, Calls, Answered, process, cleanup, links
<1>29. CASE Execute
  BY <1>29 DEF Execute, Calls, Told, process, cleanup, links
<1>30. CASE Send
  <2>1. caller.pc = "sending" /\ (Refused \/ Accepted)
    BY <1>30, SendEffect
  <2>2. CASE Refused
    BY <2>1, <2>2 DEF Refused
  <2>3. CASE Accepted
    BY <2>1, <2>3 DEF Accepted
  <2> QED
    BY <2>1, <2>2, <2>3
<1>31. CASE TakeReply
  BY <1>31 DEF TakeReply, Calls, Told, process, cleanup, links
<1>32. CASE DropExecute
  BY <1>32 DEF DropExecute, Calls, Answered, process, cleanup, links
<1>33. CASE Close
  BY <1>33 DEF Close, Calls, process, cleanup, links
<1>34. CASE SendClose
  BY <1>34 DEF SendClose, Calls, process, cleanup, links
<1>35. CASE Observe
  BY <1>35 DEF Observe, Calls, process, cleanup, links
<1>36. CASE Lock
  BY <1>36 DEF Lock, process, cleanup, links
<1>37. CASE DropClose
  BY <1>37 DEF DropClose, process, cleanup, links
<1>38. CASE DropSession
  BY <1>38 DEF DropSession, Calls, process, cleanup, links
<1>39. CASE UNCHANGED vars
  BY <1>39 DEF vars
<1> QED
  BY <1>1, <1>2, <1>3, <1>4, <1>5, <1>6, <1>7, <1>8, <1>9, <1>10, <1>11, <1>12, <1>13, <1>14, <1>15, <1>16, <1>17, <1>18, <1>19, <1>20, <1>21, <1>22, <1>23, <1>24, <1>25, <1>26, <1>27, <1>28, <1>29, <1>30, <1>31, <1>32, <1>33, <1>34, <1>35, <1>36, <1>37, <1>38, <1>39 DEF Next, System, Cleanup, Works, Runs, Uses

-----------------------------------------------------------------------------
SInv == Ownership /\ Conversation

LEMMA Initially == Init => SInv
<1> SUFFICES ASSUME Init PROVE SInv
  OBVIOUS
<1>1. MaxInvocations \in Nat /\ MaxRequests \in Nat /\ 0 \in 0..MaxInvocations /\ 0 \in 0..MaxRequests
  BY SessionAssumption DEF SessionAssumption
<1>2. TypeOK
  BY <1>1 DEF Init, TypeOK, Os, Owner, Actor, Caller, Channel, OneShot, Valid
<1>3. Locked /\ Recorded /\ Removed
  BY DEF Init, Locked, Recorded, Removed
<1>4. Ordered
  BY <1>1 DEF Init, Ordered, InHand, Invs
<1>5. Running /\ Replied /\ Observed
  BY DEF Init, Running, Replied, Observed, InHand
<1> QED
  BY <1>2, <1>3, <1>4, <1>5 DEF SInv, Ownership, Conversation

LEMMA Inductive == SInv /\ [Next]_vars => SInv'
  BY TypeStep, LockedStep, RecordedStep, RemovedStep, OrderedStep, RunningStep, RepliedStep,
     ObservedStep DEF SInv, Ownership, Conversation

(* How far the cleanup of a session has come is recorded in every state,   *)
(* whoever was dropped, cancelled or panicked on the way, and which        *)
(* invocation is where is known to its actor, channel and caller alike.    *)
THEOREM SessionInvariant == Spec => []SInv
  BY Initially, Inductive, PTL DEF Spec

(* Nothing of a process, its group or its directory is forgotten.          *)
LEMMA Remembers == SInv => NothingForgotten /\ CloseIsTrue /\ SignalledOnce
<1> SUFFICES ASSUME SInv PROVE NothingForgotten /\ CloseIsTrue /\ SignalledOnce
  OBVIOUS
<1> USE DEF SInv, Ownership, TypeOK, Os, Owner, Locked, Recorded, Removed
<1>1. NothingForgotten
  BY DEF NothingForgotten
<1>2. CloseIsTrue
  BY DEF CloseIsTrue
<1>3. SignalledOnce
  BY DEF SignalledOnce, Terminating
<1> QED
  BY <1>1, <1>2, <1>3

(* A process is reused only after it answered, and answers are true.       *)
LEMMA Truthful == SInv => ReuseIsClean /\ AnswersAreTrue
<1> SUFFICES ASSUME SInv PROVE ReuseIsClean /\ AnswersAreTrue
  OBVIOUS
<1>1. ReuseIsClean
  <2>1. ASSUME NEW k \in os.seen, NEW j \in 1..(k - 1), j \in os.seen PROVE replies[j] = "ok"
    <3>1. k \in 1..actor.inv /\ actor.inv \in Nat /\ k \in Nat
      BY DEF SInv, Conversation, Ordered, TypeOK, Os, Actor
    <3>2. j # actor.inv
      BY <3>1
    <3> QED
      BY <2>1, <3>2 DEF SInv, Conversation, Replied
  <2>2. actor.pc = "idle" => os.running = 0
    BY DEF SInv, Conversation, Running
  <2> QED
    BY <2>1, <2>2 DEF ReuseIsClean
<1>2. AnswersAreTrue
  <2> SUFFICES ASSUME NEW k \in Invs
               PROVE  /\ caller.told[k] = "ok" => k \in os.done
                      /\ caller.told[k] = "ok" /\ caller.inv = k /\ caller.pc = "held" => observed \in {0, k}
                      /\ caller.told[k] = "err" /\ os.running = k => termination \in {"err", "lost"}
    BY DEF AnswersAreTrue
  <2>1. caller.told[k] = "ok" => k \in os.done
    BY DEF SInv, Conversation, Replied
  <2>2. caller.told[k] = "ok" /\ caller.inv = k => observed \in {0, k}
    BY DEF SInv, Conversation, Replied, Observed
  <2>3. ASSUME caller.told[k] = "err", os.running = k PROVE termination \in {"err", "lost"}
    <3>1. k # 0 /\ k \in os.seen /\ os.child = "alive"
      BY <2>3, SessionAssumption DEF SInv, Conversation, Running, Invs, SessionAssumption
    <3>2. replies[k] # "unused"
      BY <3>1 DEF SInv, Conversation, Ordered
    <3>3. actor.pc = "gone"
      BY <2>3, <3>2 DEF SInv, Conversation, Replied
    <3>4. termination # "none" /\ termination # "ok"
      BY <3>1, <3>3 DEF SInv, Ownership, Locked, Recorded, Removed
    <3> QED
      BY <3>4 DEF SInv, Ownership, TypeOK
  <2> QED
    BY <2>1, <2>2, <2>3
<1> QED
  BY <1>1, <1>2

(* A session of a subprocess is sound in every reachable state, for every  *)
(* number of invocations and of runtime requests: while anything of it is  *)
(* left it is on record, success of close is true, its group is signalled  *)
(* at most once and before its number is free, a process is reused only    *)
(* after it has answered in time, and callers are told the truth.          *)
THEOREM SessionSoundCorrect == Spec => []SessionSound
<1>1. SInv => SessionSound
  BY Remembers, Truthful DEF SInv, Ownership, SessionSound
<1> QED
  BY <1>1, SessionInvariant, PTL
==============================================================================
