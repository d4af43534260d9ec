----------------------- MODULE QueueConcurrencyProofs -----------------------
(***************************************************************************)
(* Proofs about queue concurrency: the counters of a policy are the holds  *)
(* that exist, and what a hold says of its attempt is true, for any number *)
(* of attempts, any policies and any timing.  The inductive invariant adds *)
(* to HoldsAccounted what ties the rows of one attempt together.           *)
(***************************************************************************)
EXTENDS QueueConcurrency, FiniteSetTheorems, TLAPS

Executing(work) == work.stage \in {"granted", "running"}

(* Whether an attempt row may still be granted its start.                  *)
MayStart(attempt) == attempt.state = "active" /\ ~attempt.reported /\ attempt.deadline > 0

(* The attempt and the worker's execution of it.                           *)
AttemptSound(attempt, work) ==
    /\ Executing(work) => attempt.started /\ attempt.state # "none"
    /\ attempt.state = "none" => ~attempt.started /\ work.stage = "idle"
    /\ attempt.quiescence = "confirmed" => attempt.state = "ended" /\ work.stage = "quiescent"
    /\ attempt.denied => attempt.state = "ended" /\ ~attempt.started

(* The hold on its own.                                                    *)
HoldSound(h) ==
    /\ h.state = "none" => h = NoHold
    /\ h.state = "released" <=> h.release_kind # "none"
    /\ h.force # Unlimited => h.grace # Unlimited

(* What a hold says of its attempt and of the execution.                   *)
Backed(attempt, h, work) ==
    /\ attempt.state = "none" => h = NoHold
    /\ h.state = "reserved" => attempt.state = "active" /\ ~attempt.started
    /\ h.state \in {"running", "uncertain"} => attempt.started
    /\ h.state = "released" => ~MayStart(attempt)
    /\ h.release_kind \in {"confirmed", "never_started"} => ~Executing(work)

(* In an enrolled queue what lives or executes is held, in others nothing. *)
Held(attempt, h, work, enrolled) ==
    IF enrolled THEN attempt.state = "active" \/ Executing(work) => h # NoHold
                ELSE h = NoHold

RowSound(attempt, h, work, enrolled) ==
    /\ AttemptSound(attempt, work) /\ HoldSound(h)
    /\ Backed(attempt, h, work) /\ Held(attempt, h, work, enrolled)

RowsSound == \A a \in Attempts : RowSound(attempts[a], holds[a], works[a], Enrolled)

CountedPolicy == [revision : Nat, maximum : Limit, timeout : Time \ {0},
                  grace : Time \ {0}, occupied : Int, uncertain : Int]

(* The types without the counters, whose type follows from CountersMatch.  *)
RowTypes ==
    /\ policy \in CountedPolicy
    /\ attempts \in [Attempts -> Attempt]
    /\ holds \in [Attempts -> Hold]
    /\ works \in [Attempts -> Work]

QInv == RowTypes /\ CountersMatch /\ RowsSound

-----------------------------------------------------------------------------
OpenSet      == {a \in Attempts : Open(holds[a])}
UncertainSet == {a \in Attempts : holds[a].state = "uncertain"}

(* Sets of attempts are finite, so they can be counted.                    *)
LEMMA Countable ==
    ASSUME NEW S \in SUBSET Attempts
    PROVE  /\ IsFiniteSet(S) /\ Cardinality(S) \in Nat
           /\ \A a \in Attempts :
                 /\ a \notin S => Cardinality(S \cup {a}) = Cardinality(S) + 1
                 /\ a \in S => Cardinality(S \ {a}) = Cardinality(S) - 1
<1>1. IsFiniteSet(S)
  BY QueueAssumption, FS_Subset
<1>2. Cardinality(S) \in Nat
  BY <1>1, FS_CardinalityType
<1>3. ASSUME NEW a \in Attempts, a \notin S PROVE Cardinality(S \cup {a}) = Cardinality(S) + 1
  BY <1>1, <1>3, FS_AddElement
<1>4. ASSUME NEW a \in Attempts, a \in S PROVE Cardinality(S \ {a}) = Cardinality(S) - 1
  BY <1>1, <1>4, FS_RemoveElement
<1>. QED BY <1>1, <1>2, <1>3, <1>4

(* The invariant implies the types and the parts of HoldsAccounted.        *)
LEMMA Accounted == QInv => HoldsAccounted
<1>. SUFFICES ASSUME QInv PROVE HoldsAccounted
  OBVIOUS
<1>1. TypeOK
  <2>1. OpenSet \in SUBSET Attempts /\ UncertainSet \in SUBSET Attempts
    BY DEF OpenSet, UncertainSet
  <2>2. policy.occupied \in Nat /\ policy.uncertain \in Nat
    BY <2>1, Countable DEF QInv, CountersMatch, OpenSet, UncertainSet
  <2>. QED BY <2>2 DEF QInv, RowTypes, CountedPolicy, TypeOK, Policy
<1>2. ReleaseIsProven
  BY DEF QInv, RowsSound, RowSound, Backed, HoldSound, ReleaseIsProven, Executing, MayStart,
         Dispatchable
<1>3. ExecutionIsCounted
  <2>. SUFFICES ASSUME NEW a \in Attempts, Enrolled, Executing(works[a])
                PROVE  Open(holds[a]) \/ holds[a].release_kind \in {"operator", "timeout"}
    BY DEF ExecutionIsCounted, Executing
  <2>1. holds[a] \in Hold /\ HoldSound(holds[a]) /\ holds[a] # NoHold
        /\ holds[a].release_kind \notin {"confirmed", "never_started"}
    BY DEF QInv, RowTypes, RowsSound, RowSound, Backed, Held
  <2>. QED BY <2>1 DEF HoldSound, Open, Hold, ReleaseKind
<1>4. LiveIsHeld
  BY DEF QInv, RowsSound, RowSound, Held, LiveIsHeld
<1>5. ReservedIsUnstarted
  BY DEF QInv, RowsSound, RowSound, Backed, ReservedIsUnstarted
<1>. QED BY <1>1, <1>2, <1>3, <1>4, <1>5 DEF QInv, HoldsAccounted

-----------------------------------------------------------------------------
(* Initially no attempt exists and nothing is counted.                     *)
LEMMA InitSound == Init => QInv
<1>. SUFFICES ASSUME Init PROVE QInv
  OBVIOUS
<1>1. RowTypes
  BY DEF Init, RowTypes, CountedPolicy, NoPolicy, NoAttempt, NoHold, Attempt, Hold, Work, Limit, Time, Unlimited,
         HoldState, ReleaseKind
<1>2. OpenSet = {} /\ UncertainSet = {}
  BY DEF Init, OpenSet, UncertainSet, Open, NoHold
<1>3. CountersMatch
  BY <1>2, FS_EmptySet DEF Init, CountersMatch, OpenSet, UncertainSet, NoPolicy
<1>4. RowsSound
  BY DEF Init, RowsSound, RowSound, AttemptSound, HoldSound, Backed, Held, Executing, MayStart,
         NoPolicy, NoAttempt, NoHold, Enrolled, Unlimited
<1>. QED BY <1>1, <1>3, <1>4 DEF QInv

(* ldg_queue_transition keeps the counters equal to the holds: each move   *)
(* is counted once, whatever the hold was before.                          *)
LEMMA TransitionCounts ==
    ASSUME RowTypes, CountersMatch, NEW a \in Attempts, NEW h, NEW state, NEW kind,
           h.state = holds[a].state, state \in HoldState \/ state = h.state,
           Transition(a, h, state, kind), Moved(h, state, kind) \in Hold
    PROVE  CountersMatch'
<1>. DEFINE new == Moved(h, state, kind)
<1>1. /\ holds \in [Attempts -> Hold]
      /\ holds'[a] = new /\ \A x \in Attempts : x # a => holds'[x] = holds[x]
      /\ policy' = Counted(policy, h, state)
  BY DEF RowTypes, Transition
<1>2. /\ OpenSet \in SUBSET Attempts /\ UncertainSet \in SUBSET Attempts
      /\ policy.occupied = Cardinality(OpenSet) /\ policy.uncertain = Cardinality(UncertainSet)
      /\ policy.occupied \in Nat /\ policy.uncertain \in Nat
  <2>1. OpenSet \in SUBSET Attempts /\ UncertainSet \in SUBSET Attempts
    BY DEF OpenSet, UncertainSet
  <2>2. policy.occupied = Cardinality(OpenSet) /\ policy.uncertain = Cardinality(UncertainSet)
    BY DEF CountersMatch, OpenSet, UncertainSet
  <2>. QED BY <2>1, <2>2, Countable
<1>3. CASE ~Moves(h, state)
  <2>1. new = h /\ policy' = policy
    BY <1>1, <1>3 DEF Moved, Counted
  <2>2. \A x \in Attempts : holds'[x].state = holds[x].state
    BY <1>1, <2>1
  <2>3. OpenSet' = OpenSet /\ UncertainSet' = UncertainSet
    BY <2>2 DEF OpenSet, UncertainSet, Open
  <2>. QED BY <1>2, <2>1, <2>3 DEF CountersMatch, OpenSet, UncertainSet
<1>4. CASE Moves(h, state)
  <2>1. /\ new.state = state /\ a \in OpenSet
        /\ state \in HoldState /\ state # h.state /\ h.state \in {"reserved", "running", "uncertain"}
    <3>1. holds[a].state \in HoldState \cup {"none"}
      BY <1>1 DEF Hold
    <3>2. Open(holds[a]) /\ state # h.state /\ state \in HoldState
      BY <1>4 DEF Moves, Open
    <3>3. new = [h EXCEPT !.state = state, !.release_kind = kind]
      BY <1>4 DEF Moved
    <3>4. new.state = state
      BY <1>4, <3>3 DEF Moved, Hold
    <3>. QED BY <3>1, <3>2, <3>4 DEF OpenSet, Open, HoldState
  <2>2. /\ policy'.occupied = policy.occupied - Bit(state = "released")
        /\ policy'.uncertain = policy.uncertain - Bit(h.state = "uncertain")
                                                + Bit(state = "uncertain")
    BY <1>1, <1>4 DEF Counted, RowTypes, CountedPolicy
  <2>3. policy'.occupied = Cardinality(OpenSet')
    <3>1. CASE state = "released"
      <4>1. OpenSet' = OpenSet \ {a}
        BY <1>1, <2>1, <3>1 DEF OpenSet, Open
      <4>. QED BY <1>2, <2>1, <2>2, <3>1, <4>1, Countable DEF Bit
    <3>2. CASE state # "released"
      <4>1. OpenSet' = OpenSet
        BY <1>1, <2>1, <3>2 DEF OpenSet, Open, HoldState
      <4>. QED BY <1>2, <2>2, <3>2, <4>1 DEF Bit
    <3>. QED BY <3>1, <3>2
  <2>4. policy'.uncertain = Cardinality(UncertainSet')
    <3>1. CASE h.state = "uncertain"
      <4>1. a \in UncertainSet /\ UncertainSet' = UncertainSet \ {a}
        BY <1>1, <2>1, <3>1 DEF UncertainSet
      <4>. QED BY <1>2, <2>1, <2>2, <3>1, <4>1, Countable DEF Bit
    <3>2. CASE state = "uncertain"
      <4>1. a \notin UncertainSet /\ UncertainSet' = UncertainSet \cup {a}
        BY <1>1, <2>1, <3>2 DEF UncertainSet
      <4>. QED BY <1>2, <2>1, <2>2, <3>2, <4>1, Countable DEF Bit
    <3>3. CASE h.state # "uncertain" /\ state # "uncertain"
      <4>1. UncertainSet' = UncertainSet
        BY <1>1, <2>1, <3>3 DEF UncertainSet
      <4>. QED BY <1>2, <2>2, <3>3, <4>1 DEF Bit
    <3>. QED BY <3>1, <3>2, <3>3
  <2>. QED BY <2>3, <2>4 DEF CountersMatch, OpenSet, UncertainSet
<1>. QED BY <1>3, <1>4

-----------------------------------------------------------------------------
(* What one step may do to a hold, and to the occupancy: the bodies of     *)
(* HoldsAdvance and ForcedReleases for one hold.                           *)
Advance(h, new) ==
    /\ Rank(h) =< Rank(new)
    /\ h.state = "released" => new.release_kind = h.release_kind
    /\ new.release_kind # h.release_kind =>
          /\ new.release_kind = "operator" => h.state = "uncertain"
          /\ new.release_kind = "timeout" => h.stopped /\ h.grace # Unlimited /\ h.force = 0

Grows ==
    Enrolled /\ policy'.occupied > policy.occupied =>
        policy.maximum = Unlimited \/ policy'.occupied =< policy.maximum

Stands == (\A a \in Attempts : Advance(holds[a], holds'[a])) /\ Grows

(* A hold that keeps its state and release advances.                       *)
LEMMA SameAdvances ==
    ASSUME NEW h \in Hold, NEW new \in Hold,
           new.state = h.state, new.release_kind = h.release_kind
    PROVE  Advance(h, new)
BY DEF Advance, Rank, Hold, HoldState

(* A transition moves nothing of the policy but its counters, and never    *)
(* raises occupancy.                                                       *)
LEMMA TransitionPolicy ==
    ASSUME RowTypes, CountersMatch, NEW a \in Attempts, NEW h, NEW state, NEW kind,
           Transition(a, h, state, kind)
    PROVE  /\ policy'.revision = policy.revision /\ policy'.maximum = policy.maximum
           /\ policy'.timeout = policy.timeout /\ policy'.grace = policy.grace
           /\ policy' \in CountedPolicy
           /\ Enrolled' = Enrolled
           /\ Grows
<1>1. policy' = Counted(policy, h, state)
  BY DEF Transition
<1>2. policy.occupied \in Nat
  <2>1. OpenSet \in SUBSET Attempts
    BY DEF OpenSet
  <2>. QED BY <2>1, Countable DEF CountersMatch, OpenSet
<1>3. /\ policy'.revision = policy.revision /\ policy'.maximum = policy.maximum
      /\ policy'.timeout = policy.timeout /\ policy'.grace = policy.grace
      /\ policy'.occupied \in {policy.occupied, policy.occupied - 1}
      /\ policy' \in CountedPolicy
  <2>1. CASE ~Moves(h, state)
    BY <1>1, <1>2, <2>1 DEF Counted, RowTypes
  <2>2. CASE Moves(h, state)
    <3>. DEFINE o == policy.occupied - Bit(state = "released")
                u == policy.uncertain - Bit(h.state = "uncertain") + Bit(state = "uncertain")
    <3>1. policy' = [policy EXCEPT !.occupied = o, !.uncertain = u]
      BY <1>1, <2>2 DEF Counted
    <3>2. policy \in CountedPolicy /\ policy.uncertain \in Int
      BY DEF RowTypes, CountedPolicy
    <3>3. o \in Int /\ u \in Int /\ o \in {policy.occupied, policy.occupied - 1}
      BY <1>2, <3>2 DEF Bit
    <3>. HIDE DEF o, u
    <3>. QED BY <3>1, <3>2, <3>3 DEF CountedPolicy
  <2>. QED BY <2>1, <2>2
<1>4. Grows
  BY <1>2, <1>3 DEF Grows
<1>. QED BY <1>3, <1>4 DEF Enrolled

(* Writing the rows of one attempt soundly keeps all rows sound.           *)
LEMMA OneRow ==
    ASSUME RowTypes, RowsSound, NEW a \in Attempts, Enrolled' = Enrolled,
           NEW attempt \in Attempt, NEW h \in Hold, NEW work \in Work,
           attempts' = [attempts EXCEPT ![a] = attempt], holds' = [holds EXCEPT ![a] = h],
           works' = [works EXCEPT ![a] = work],
           RowSound(attempt, h, work, Enrolled), Advance(holds[a], h)
    PROVE  /\ attempts' \in [Attempts -> Attempt] /\ holds' \in [Attempts -> Hold]
           /\ works' \in [Attempts -> Work]
           /\ RowsSound'
           /\ \A x \in Attempts : Advance(holds[x], holds'[x])
<1>1. /\ attempts \in [Attempts -> Attempt] /\ holds \in [Attempts -> Hold]
      /\ works \in [Attempts -> Work]
  BY DEF RowTypes
<1>2. /\ attempts' \in [Attempts -> Attempt] /\ holds' \in [Attempts -> Hold]
      /\ works' \in [Attempts -> Work]
  BY <1>1
<1>3. ASSUME NEW x \in Attempts
      PROVE  RowSound(attempts[x], holds[x], works[x], Enrolled)' /\ Advance(holds[x], holds'[x])
  <2>1. CASE x = a
    BY <1>1, <2>1
  <2>2. CASE x # a
    <3>1. attempts'[x] = attempts[x] /\ holds'[x] = holds[x] /\ works'[x] = works[x]
      BY <1>1, <2>2
    <3>2. RowSound(attempts[x], holds[x], works[x], Enrolled)
      BY DEF RowsSound
    <3>3. Advance(holds[x], holds'[x])
      BY <1>1, <3>1, SameAdvances
    <3>4. RowSound(attempts'[x], holds'[x], works'[x], Enrolled')
      BY <3>1, <3>2
    <3>. QED BY <3>3, <3>4
  <2>. QED BY <2>1, <2>2
<1>. QED BY <1>2, <1>3 DEF RowsSound

(* A transaction that moves one hold, and keeps its row sound, keeps the   *)
(* whole invariant.                                                        *)
LEMMA TransitionSound ==
    ASSUME QInv, NEW a \in Attempts, NEW h, NEW state, NEW kind,
           h.state = holds[a].state, state \in HoldState \/ state = h.state,
           Transition(a, h, state, kind),
           NEW attempt \in Attempt, NEW work \in Work, Moved(h, state, kind) \in Hold,
           attempts' = [attempts EXCEPT ![a] = attempt], works' = [works EXCEPT ![a] = work],
           RowSound(attempt, Moved(h, state, kind), work, Enrolled),
           Advance(holds[a], Moved(h, state, kind))
    PROVE  QInv' /\ Stands
<1>1. RowTypes /\ CountersMatch /\ RowsSound
  BY DEF QInv
<1>2. CountersMatch'
  BY <1>1, TransitionCounts
<1>3. /\ policy'.revision = policy.revision /\ policy'.maximum = policy.maximum
      /\ policy'.timeout = policy.timeout /\ policy'.grace = policy.grace
      /\ policy' \in CountedPolicy
      /\ Enrolled' = Enrolled
      /\ Grows
  BY <1>1, TransitionPolicy
<1>4. holds' = [holds EXCEPT ![a] = Moved(h, state, kind)]
  BY DEF Transition
<1>5. /\ attempts' \in [Attempts -> Attempt] /\ holds' \in [Attempts -> Hold]
      /\ works' \in [Attempts -> Work]
      /\ RowsSound'
      /\ \A x \in Attempts : Advance(holds[x], holds'[x])
  BY <1>1, <1>3, <1>4, OneRow
<1>6. RowTypes'
  BY <1>1, <1>3, <1>5 DEF RowTypes
<1>. QED BY <1>2, <1>3, <1>5, <1>6 DEF QInv, Stands

(* The same for a step that leaves policy and holds alone.                 *)
LEMMA QuietSound ==
    ASSUME QInv, NEW a \in Attempts, UNCHANGED <<policy, holds>>,
           NEW attempt \in Attempt, NEW work \in Work,
           attempts' = [attempts EXCEPT ![a] = attempt], works' = [works EXCEPT ![a] = work],
           RowSound(attempt, holds[a], work, Enrolled)
    PROVE  QInv' /\ Stands
<1>1. RowTypes /\ CountersMatch /\ RowsSound /\ holds \in [Attempts -> Hold]
  BY DEF QInv, RowTypes
<1>2. holds' = [holds EXCEPT ![a] = holds[a]] /\ Enrolled' = Enrolled
  BY <1>1 DEF Enrolled
<1>3. Advance(holds[a], holds[a])
  BY <1>1, SameAdvances
<1>4. /\ attempts' \in [Attempts -> Attempt] /\ holds' \in [Attempts -> Hold]
      /\ works' \in [Attempts -> Work]
      /\ RowsSound'
      /\ \A x \in Attempts : Advance(holds[x], holds'[x])
  BY <1>1, <1>2, <1>3, OneRow
<1>5. RowTypes' /\ CountersMatch'
  BY <1>1, <1>4 DEF RowTypes, CountersMatch
<1>6. Grows
  <2>1. OpenSet \in SUBSET Attempts
    BY DEF OpenSet
  <2>2. policy.occupied \in Nat
    BY <1>1, <2>1, Countable DEF CountersMatch, OpenSet
  <2>. QED BY <2>2 DEF Grows
<1>. QED BY <1>4, <1>5, <1>6 DEF QInv, Stands

-----------------------------------------------------------------------------
(* The fields of a hold that ldg_queue_transition leaves behind.           *)
LEMMA MovedFields ==
    ASSUME NEW h \in Hold, NEW state \in HoldState \cup {"none"},
           NEW kind \in ReleaseKind \cup {"none"}
    PROVE  LET new == Moved(h, state, kind) IN
           /\ new \in Hold
           /\ new.deadline = h.deadline /\ new.grace = h.grace
           /\ new.stopped = h.stopped /\ new.force = h.force
           /\ IF Moves(h, state) THEN new.state = state /\ new.release_kind = kind
                                 ELSE new = h
BY DEF Moved, Hold

(* An update of an attempt row that only moves it forward, together with   *)
(* the trigger it fires.                                                   *)
LEMMA UpdateSound ==
    ASSUME QInv, NEW a \in Attempts, NEW new \in Attempt, NEW work \in Work,
           attempts[a].state = "active", new.state # "none",
           attempts[a].started => new.started,
           MayStart(new) => MayStart(attempts[a]),
           Executing(work) => Executing(works[a]) \/ MayStart(attempts[a]),
           AttemptSound(new, work),
           Update(a, new), works' = [works EXCEPT ![a] = work]
    PROVE  QInv' /\ Stands
<1>. DEFINE h == holds[a]
            old == attempts[a]
<1>1. /\ h \in Hold /\ old \in Attempt /\ works[a] \in Work
      /\ RowSound(old, h, works[a], Enrolled)
  BY DEF QInv, RowTypes, RowsSound
<1>2. attempts' = [attempts EXCEPT ![a] = new]
  BY DEF Update
<1>3. CASE ~(Enrolled /\ <<old.started, old.state, old.quiescence>>
                             # <<new.started, new.state, new.quiescence>>)
  <2>1. UNCHANGED <<policy, holds>>
    BY <1>3 DEF Update
  <2>2. RowSound(new, h, work, Enrolled)
    <3>1. CASE ~Enrolled
      BY <1>1, <3>1 DEF RowSound, Backed, Held, NoHold
    <3>2. CASE Enrolled
      <4>1. old.started = new.started /\ old.state = new.state /\ old.quiescence = new.quiescence
        BY <1>3, <3>2
      <4>. QED BY <1>1, <3>2, <4>1 DEF RowSound, Backed, Held, HoldSound
    <3>. QED BY <3>1, <3>2
  <2>. QED BY <1>1, <1>2, <2>1, <2>2, QuietSound
<1>4. CASE Enrolled /\ <<old.started, old.state, old.quiescence>>
                            # <<new.started, new.state, new.quiescence>>
  <2>. DEFINE state == Asked(h, new)
              kind == AskedKind(h, new)
              moved == Moved(h, state, kind)
  <2>1. Transition(a, h, state, kind) /\ h # NoHold
    <3>1. ~ConfirmsDenial(old, new)
      BY <1>1 DEF RowSound, AttemptSound, ConfirmsDenial
    <3>. QED BY <1>4, <3>1 DEF Update, Raises
  <2>2. /\ state \in HoldState \/ state = h.state
        /\ state \in HoldState \cup {"none"} /\ kind \in ReleaseKind \cup {"none"}
    BY <1>1 DEF Asked, AskedKind, Hold, HoldState, ReleaseKind
  <2>3. /\ moved \in Hold
        /\ moved.deadline = h.deadline /\ moved.grace = h.grace
        /\ moved.stopped = h.stopped /\ moved.force = h.force
        /\ IF Moves(h, state) THEN moved.state = state /\ moved.release_kind = kind
                              ELSE moved = h
    BY <1>1, <2>2, MovedFields
  <2>4. RowSound(new, moved, work, Enrolled)
    <3>1. HoldSound(h) /\ Backed(old, h, works[a]) /\ h.state # "none"
      BY <1>1, <2>1 DEF RowSound, HoldSound
    <3>2. CASE ~Moves(h, state)
      <4>1. moved = h
        BY <2>3, <3>2
      <4>2. h.state = "released" \/ h.state = state
        BY <3>1, <3>2 DEF Moves, Open
      <4>3. Backed(new, h, work)
        BY <3>1, <4>2 DEF Backed, Asked, HoldSound
      <4>. QED BY <1>4, <2>1, <3>1, <4>1, <4>3 DEF RowSound, Held
    <3>3. CASE Moves(h, state)
      <4>1. moved.state = state /\ moved.release_kind = kind
        BY <2>3, <3>3
      <4>2. state # h.state /\ h.state # "released" /\ h.release_kind = "none"
        BY <3>1, <3>3 DEF Moves, Open, HoldSound
      <4>3. HoldSound(moved)
        BY <2>3, <3>1, <4>1, <4>2 DEF HoldSound, Asked, AskedKind
      <4>4. Backed(new, moved, work)
        BY <4>1, <4>2 DEF Backed, Asked, AskedKind, AttemptSound, MayStart, Executing
      <4>5. moved # NoHold
        BY <3>1, <4>1, <4>2 DEF NoHold, Asked
      <4>. QED BY <1>4, <4>3, <4>4, <4>5 DEF RowSound, Held
    <3>. QED BY <3>2, <3>3
  <2>5. Advance(h, moved)
    <3>1. HoldSound(h) /\ Backed(old, h, works[a])
      BY <1>1 DEF RowSound
    <3>2. CASE ~Moves(h, state)
      BY <1>1, <2>3, <3>2, SameAdvances
    <3>3. CASE Moves(h, state)
      <4>1. h.state \in {"reserved", "running", "uncertain"}
        BY <1>1, <3>3 DEF Moves, Open, Hold, HoldState
      <4>2. state = "running" => h.state = "reserved"
        <5>. SUFFICES ASSUME state = "running", h.state = "uncertain" PROVE FALSE
          BY <3>3, <4>1 DEF Moves
        <5>1. new.started /\ new.state = "active" /\ new.quiescence = "unconfirmed"
          BY DEF Asked, Attempt
        <5>2. old.started /\ old.quiescence = "unconfirmed"
          BY <1>1, <3>1 DEF Backed, RowSound, AttemptSound, Attempt
        <5>. QED BY <1>1, <1>4, <5>1, <5>2 DEF Attempt
      <4>3. Rank(h) =< Rank(moved)
        <5>1. state # "reserved" /\ state \in HoldState /\ state # h.state
          BY <1>1, <2>2, <3>3, <4>1 DEF Asked, Moves
        <5>. QED BY <2>3, <3>3, <4>1, <4>2, <5>1 DEF Rank, HoldState
      <4>4. kind \in {"none", "confirmed", "never_started"}
        BY DEF AskedKind
      <4>. QED BY <2>3, <3>3, <4>1, <4>3, <4>4 DEF Advance
    <3>. QED BY <3>2, <3>3
  <2>. QED BY <1>1, <1>2, <2>1, <2>2, <2>3, <2>4, <2>5, TransitionSound
<1>. QED BY <1>3, <1>4

-----------------------------------------------------------------------------
(* The rows of one attempt, taken out of the invariant.                    *)
LEMMA Row ==
    ASSUME QInv, NEW a \in Attempts
    PROVE  /\ attempts[a] \in Attempt /\ holds[a] \in Hold /\ works[a] \in Work
           /\ AttemptSound(attempts[a], works[a]) /\ HoldSound(holds[a])
           /\ Backed(attempts[a], holds[a], works[a])
           /\ Held(attempts[a], holds[a], works[a], Enrolled)
           /\ attempts \in [Attempts -> Attempt] /\ works \in [Attempts -> Work]
BY DEF QInv, RowTypes, RowsSound, RowSound

(* Actions that go through an update of the attempt row.                   *)
LEMMA DispatchSound == ASSUME QInv, NEW a \in Attempts, Dispatch(a) PROVE QInv' /\ Stands
<1>. DEFINE new == [attempts[a] EXCEPT !.started = TRUE]
<1>1. /\ attempts[a] \in Attempt /\ works[a] \in Work /\ AttemptSound(attempts[a], works[a])
      /\ works \in [Attempts -> Work]
  BY Row
<1>2. PICK work \in Work : /\ works' = [works EXCEPT ![a] = work]
                           /\ work.stage \in {"granted", "idle"}
  <2>1. works[a].stage = "idle"
    BY DEF Dispatch
  <2>2. CASE works' = [works EXCEPT ![a].stage = "granted"]
    <3>1. [works[a] EXCEPT !.stage = "granted"] \in Work
      BY <1>1 DEF Work
    <3>2. works' = [works EXCEPT ![a] = [works[a] EXCEPT !.stage = "granted"]]
      BY <1>1, <2>2
    <3>. QED BY <1>1, <3>1, <3>2 DEF Work
  <2>3. CASE UNCHANGED works
    <3>1. works' = [works EXCEPT ![a] = works[a]]
      BY <1>1, <2>3
    <3>. QED BY <1>1, <2>1, <3>1
  <2>. QED BY <2>2, <2>3 DEF Dispatch
<1>3. /\ MayStart(attempts[a]) /\ attempts[a].state = "active" /\ Update(a, new)
  BY DEF Dispatch, Dispatchable, MayStart
<1>4. /\ new \in Attempt /\ new.started /\ new.state = "active"
      /\ new.quiescence = attempts[a].quiescence /\ new.denied = attempts[a].denied
  BY <1>1, <1>3 DEF Attempt
<1>5. AttemptSound(new, work)
  BY <1>1, <1>2, <1>3, <1>4 DEF AttemptSound
<1>. HIDE DEF new
<1>. QED BY <1>1, <1>2, <1>3, <1>4, <1>5, UpdateSound

(* settle keeps the books.                                                 *)
LEMMA SettleSound ==
    ASSUME QInv, NEW a \in Attempts, NEW started \in BOOLEAN,
           NEW q \in {"confirmed", "unconfirmed"}, Settle(a, started, q)
    PROVE  QInv' /\ Stands
<1>. DEFINE new == [attempts[a] EXCEPT !.reported = TRUE, !.quiescence = q,
                        !.started = attempts[a].started \/ started,
                        !.state = IF q = "confirmed" THEN "ended" ELSE attempts[a].state]
<1>1. /\ attempts[a] \in Attempt /\ works[a] \in Work /\ AttemptSound(attempts[a], works[a])
      /\ works \in [Attempts -> Work]
  BY Row
<1>2. /\ attempts[a].state = "active" /\ Update(a, new) /\ works' = works
      /\ q = "confirmed" => works[a].stage = "quiescent"
  BY DEF Settle
<1>3. /\ new \in Attempt /\ new.reported /\ new.quiescence = q
      /\ attempts[a].started => new.started
      /\ new.state = IF q = "confirmed" THEN "ended" ELSE "active"
      /\ new.denied = attempts[a].denied
  BY <1>1, <1>2 DEF Attempt
<1>4. AttemptSound(new, works[a]) /\ ~MayStart(new)
  BY <1>1, <1>2, <1>3 DEF AttemptSound, Executing, MayStart
<1>5. works' = [works EXCEPT ![a] = works[a]]
  BY <1>1, <1>2
<1>. HIDE DEF new
<1>. QED BY <1>1, <1>2, <1>3, <1>4, <1>5, UpdateSound

(* A confirmed cleanup keeps the books.                                    *)
LEMMA ConfirmQuiescenceSound ==
    ASSUME QInv, NEW a \in Attempts, ConfirmQuiescence(a) PROVE QInv' /\ Stands
<1>. DEFINE new == [attempts[a] EXCEPT !.quiescence = "confirmed", !.state = "ended"]
<1>1. /\ attempts[a] \in Attempt /\ works[a] \in Work /\ AttemptSound(attempts[a], works[a])
      /\ works \in [Attempts -> Work]
  BY Row
<1>2. /\ attempts[a].state = "active" /\ Update(a, new) /\ works' = works
      /\ works[a].stage = "quiescent"
  BY DEF ConfirmQuiescence
<1>3. /\ new \in Attempt /\ new.state = "ended" /\ new.started = attempts[a].started
      /\ new.denied = attempts[a].denied
  BY <1>1, <1>2 DEF Attempt
<1>4. AttemptSound(new, works[a]) /\ ~MayStart(new)
  BY <1>1, <1>2, <1>3 DEF AttemptSound, Executing, MayStart
<1>5. works' = [works EXCEPT ![a] = works[a]]
  BY <1>1, <1>2
<1>. HIDE DEF new
<1>. QED BY <1>1, <1>2, <1>3, <1>4, <1>5, UpdateSound

(* An expired attempt keeps the books.                                     *)
LEMMA ExpireSound == ASSUME QInv, NEW a \in Attempts, Expire(a) PROVE QInv' /\ Stands
<1>. DEFINE new == [attempts[a] EXCEPT !.state = "ended"]
<1>1. /\ attempts[a] \in Attempt /\ works[a] \in Work /\ AttemptSound(attempts[a], works[a])
      /\ works \in [Attempts -> Work]
  BY Row
<1>2. attempts[a].state = "active" /\ Update(a, new) /\ works' = works
  BY DEF Expire
<1>3. /\ new \in Attempt /\ new.state = "ended" /\ new.started = attempts[a].started
      /\ new.quiescence = attempts[a].quiescence /\ new.denied = attempts[a].denied
  BY <1>1, <1>2 DEF Attempt
<1>4. AttemptSound(new, works[a]) /\ ~MayStart(new)
  BY <1>1, <1>2, <1>3 DEF AttemptSound, Executing, MayStart
<1>5. works' = [works EXCEPT ![a] = works[a]]
  BY <1>1, <1>2
<1>. HIDE DEF new
<1>. QED BY <1>1, <1>2, <1>3, <1>4, <1>5, UpdateSound

(* A start that the budget refuses ends the attempt and releases its hold. *)
LEMMA DenySound == ASSUME QInv, NEW a \in Attempts, Deny(a) PROVE QInv' /\ Stands
<1>. DEFINE new == [attempts[a] EXCEPT !.state = "ended", !.denied = TRUE]
<1>1. /\ attempts[a] \in Attempt /\ works[a] \in Work /\ AttemptSound(attempts[a], works[a])
      /\ works \in [Attempts -> Work]
  BY Row
<1>2. /\ attempts[a].state = "active" /\ ~attempts[a].started
      /\ Update(a, new) /\ works' = works
  BY DEF Deny, Dispatchable
<1>3. /\ new \in Attempt /\ new.state = "ended" /\ new.started = attempts[a].started
      /\ new.quiescence = attempts[a].quiescence
  BY <1>1, <1>2 DEF Attempt
<1>4. AttemptSound(new, works[a]) /\ ~MayStart(new)
  BY <1>1, <1>2, <1>3 DEF AttemptSound, Executing, MayStart
<1>5. works' = [works EXCEPT ![a] = works[a]]
  BY <1>1, <1>2
<1>. HIDE DEF new
<1>. QED BY <1>1, <1>2, <1>3, <1>4, <1>5, UpdateSound

(* The certified cleanup of a refused start finds its hold released, or    *)
(* none where the queue enrolled after the refusal: no hold moves.         *)
LEMMA ConfirmDeniedSound == ASSUME QInv, NEW a \in Attempts, ConfirmDenied(a) PROVE QInv' /\ Stands
<1>. DEFINE new == [attempts[a] EXCEPT !.quiescence = "confirmed"]
            h   == holds[a]
<1>1. /\ attempts[a] \in Attempt /\ h \in Hold /\ works[a] \in Work
      /\ AttemptSound(attempts[a], works[a]) /\ HoldSound(h)
      /\ Backed(attempts[a], h, works[a])
      /\ Held(attempts[a], h, works[a], Enrolled)
      /\ works \in [Attempts -> Work] /\ holds \in [Attempts -> Hold]
  BY Row DEF QInv, RowTypes
<1>2. /\ attempts[a].denied /\ works[a].stage = "quiescent"
      /\ Update(a, new) /\ works' = works
  BY DEF ConfirmDenied
<1>3. attempts[a].state = "ended" /\ ~attempts[a].started
  BY <1>1, <1>2 DEF AttemptSound
<1>4. ~Open(h)
  BY <1>1, <1>3 DEF Backed, Open, Hold, HoldState
<1>5. UNCHANGED <<policy, holds>>
  <2>1. \A state, kind : Moved(h, state, kind) = h /\ Counted(policy, h, state) = policy
    BY <1>4 DEF Moved, Counted, Moves
  <2>2. CASE Transition(a, h, Asked(h, new), AskedKind(h, new))
    BY <1>1, <2>1, <2>2 DEF Transition
  <2>. QED BY <1>2, <2>2 DEF Update
<1>6. /\ new \in Attempt /\ new.state = "ended" /\ ~new.started
      /\ new.reported = attempts[a].reported /\ new.deadline = attempts[a].deadline
  BY <1>1, <1>3 DEF Attempt
<1>7. RowSound(new, h, works[a], Enrolled)
  <2>1. AttemptSound(new, works[a])
    BY <1>1, <1>2, <1>3, <1>6 DEF AttemptSound, Executing
  <2>2. Backed(new, h, works[a]) /\ Held(new, h, works[a], Enrolled)
    BY <1>1, <1>3, <1>6 DEF Backed, Held, MayStart
  <2>. QED BY <1>1, <2>1, <2>2 DEF RowSound
<1>8. /\ attempts' = [attempts EXCEPT ![a] = new]
      /\ works' = [works EXCEPT ![a] = works[a]]
  BY <1>1, <1>2 DEF Update
<1>. HIDE DEF new
<1>. QED BY <1>1, <1>5, <1>6, <1>7, <1>8, QuietSound

(* A repeated claim changes only what the worker knows of the hold.        *)
LEMMA ReplayClaimSound == ASSUME QInv, NEW a \in Attempts, ReplayClaim(a) PROVE QInv' /\ Stands
<1>. DEFINE work == [works[a] EXCEPT !.closes = holds[a] # NoHold]
<1>1. /\ attempts[a] \in Attempt /\ holds[a] \in Hold /\ works[a] \in Work
      /\ AttemptSound(attempts[a], works[a]) /\ HoldSound(holds[a])
      /\ Backed(attempts[a], holds[a], works[a])
      /\ Held(attempts[a], holds[a], works[a], Enrolled)
      /\ attempts \in [Attempts -> Attempt] /\ works \in [Attempts -> Work]
  BY Row
<1>2. /\ UNCHANGED <<policy, holds>> /\ works' = [works EXCEPT ![a] = work]
      /\ attempts' = [attempts EXCEPT ![a] = attempts[a]]
  BY <1>1 DEF ReplayClaim
<1>3. work \in Work /\ work.stage = works[a].stage
  BY <1>1 DEF Work
<1>4. RowSound(attempts[a], holds[a], work, Enrolled)
  BY <1>1, <1>3 DEF RowSound, AttemptSound, Backed, Held, Executing
<1>. HIDE DEF work
<1>. QED BY <1>1, <1>2, <1>3, <1>4, QuietSound

(* Actions of the worker alone.                                            *)
LEMMA WorkerSound ==
    ASSUME QInv, NEW a \in Attempts, Invoke(a) \/ Quiesce(a) PROVE QInv' /\ Stands
<1>. DEFINE stage == IF Invoke(a) THEN "running" ELSE "quiescent"
            work  == [works[a] EXCEPT !.stage = stage]
<1>1. /\ attempts[a] \in Attempt /\ holds[a] \in Hold /\ works[a] \in Work
      /\ AttemptSound(attempts[a], works[a]) /\ HoldSound(holds[a])
      /\ Backed(attempts[a], holds[a], works[a])
      /\ Held(attempts[a], holds[a], works[a], Enrolled)
      /\ attempts \in [Attempts -> Attempt] /\ works \in [Attempts -> Work]
  BY Row
<1>2. UNCHANGED <<policy, attempts, holds>> /\ works' = [works EXCEPT ![a].stage = stage]
  BY DEF Invoke, Quiesce
<1>3. works' = [works EXCEPT ![a] = work] /\ attempts' = [attempts EXCEPT ![a] = attempts[a]]
  BY <1>1, <1>2
<1>4. work \in Work /\ work.stage = stage
  BY <1>1 DEF Work
<1>5. IF Invoke(a) THEN Executing(works[a]) ELSE attempts[a].state # "none"
  BY DEF Invoke, Quiesce, Executing
<1>6. RowSound(attempts[a], holds[a], work, Enrolled)
  <2>1. Executing(work) => Executing(works[a])
    BY <1>4, <1>5 DEF Executing
  <2>2. AttemptSound(attempts[a], work)
    BY <1>1, <1>4, <1>5, <2>1 DEF AttemptSound, Executing
  <2>. QED BY <1>1, <2>1, <2>2 DEF RowSound, Backed, Held
<1>. HIDE DEF work
<1>. QED BY <1>1, <1>2, <1>3, <1>4, <1>6, QuietSound

-----------------------------------------------------------------------------
(* Releases and stops: the attempt is fenced and an open hold moves.       *)
LEMMA FencedSound ==
    ASSUME QInv, NEW a \in Attempts, NEW h \in Hold, NEW state \in {"uncertain", "released"},
           NEW kind \in ReleaseKind \cup {"none"},
           h.state = holds[a].state, h.release_kind = holds[a].release_kind, Open(h),
           h.force # Unlimited => h.grace # Unlimited,
           attempts' = [attempts EXCEPT ![a] = Fenced(attempts[a])], works' = works,
           Transition(a, h, state, kind),
           state = "released" <=> kind # "none",
           state = "uncertain" => h.state # "reserved",
           kind = "confirmed" => works[a].stage = "quiescent",
           kind = "never_started" => h.state = "reserved",
           kind = "operator" => h.state = "uncertain",
           kind = "timeout" =>
               holds[a].stopped /\ holds[a].grace # Unlimited /\ holds[a].force = 0
    PROVE  QInv' /\ Stands
<1>. DEFINE new == Fenced(attempts[a])
            moved == Moved(h, state, kind)
<1>1. /\ attempts[a] \in Attempt /\ holds[a] \in Hold /\ works[a] \in Work
      /\ AttemptSound(attempts[a], works[a]) /\ HoldSound(holds[a])
      /\ Backed(attempts[a], holds[a], works[a])
      /\ Held(attempts[a], holds[a], works[a], Enrolled)
      /\ attempts \in [Attempts -> Attempt] /\ works \in [Attempts -> Work]
  BY Row
<1>2. /\ attempts' = [attempts EXCEPT ![a] = new]
      /\ works' = [works EXCEPT ![a] = works[a]]
  <2>1. attempts' = [attempts EXCEPT ![a] = new]
    BY Zenon
  <2>. QED BY <1>1, <2>1
<1>3. /\ new \in Attempt /\ new.state = attempts[a].state /\ new.started = attempts[a].started
      /\ new.quiescence = attempts[a].quiescence /\ new.denied = attempts[a].denied
      /\ ~MayStart(new)
  BY <1>1 DEF Fenced, Attempt, MayStart
<1>4. state \in HoldState /\ state \in HoldState \cup {"none"}
  BY DEF HoldState
<1>5. /\ moved \in Hold
      /\ moved.deadline = h.deadline /\ moved.grace = h.grace
      /\ moved.stopped = h.stopped /\ moved.force = h.force
      /\ IF Moves(h, state) THEN moved.state = state /\ moved.release_kind = kind
                            ELSE moved = h
  BY <1>4, MovedFields
<1>6. /\ h.state \in {"reserved", "running", "uncertain"} /\ h.release_kind = "none"
      /\ moved.state = state /\ moved.release_kind = kind
  <2>1. h.state \in {"reserved", "running", "uncertain"}
    BY DEF Open, Hold, HoldState
  <2>2. h.release_kind = "none"
    BY <1>1, <2>1 DEF HoldSound
  <2>. QED BY <1>5, <2>1, <2>2 DEF Moves
<1>7. RowSound(new, moved, works[a], Enrolled)
  <2>1. AttemptSound(new, works[a])
    BY <1>1, <1>3 DEF AttemptSound
  <2>2. HoldSound(moved)
    BY <1>5, <1>6 DEF HoldSound
  <2>3. Backed(new, moved, works[a])
    <3>1. attempts[a].state # "none"
      BY <1>1, <1>6 DEF Backed, NoHold
    <3>2. state = "uncertain" => new.started
      BY <1>1, <1>3, <1>6 DEF Backed
    <3>3. kind \in {"confirmed", "never_started"} => ~Executing(works[a])
      BY <1>1, <1>6 DEF Backed, AttemptSound, Executing
    <3>. QED BY <1>3, <1>6, <3>1, <3>2, <3>3 DEF Backed
  <2>4. Held(new, moved, works[a], Enrolled)
    <3>1. holds[a] # NoHold /\ moved # NoHold
      BY <1>6 DEF NoHold
    <3>. QED BY <1>1, <3>1 DEF Held
  <2>. QED BY <2>1, <2>2, <2>3, <2>4 DEF RowSound
<1>8. Advance(holds[a], moved)
  <2>1. Rank(holds[a]) =< Rank(moved)
    BY <1>6 DEF Rank
  <2>. QED BY <1>6, <2>1 DEF Advance
<1>9. moved \in Hold /\ new \in Attempt /\ works[a] \in Work
  BY <1>1, <1>3, <1>5
<1>. HIDE DEF new
<1>. QED BY ZenonT(60), <1>2, <1>7, <1>8, <1>4, <1>9, TransitionSound

(* The reconciler closes a hold.                                           *)
LEMMA CloseHoldSound == ASSUME QInv, NEW a \in Attempts, CloseHold(a) PROVE QInv' /\ Stands
<1>1. holds[a] \in Hold /\ HoldSound(holds[a])
  BY Row
<1>2. holds[a].force # Unlimited => holds[a].grace # Unlimited
  BY <1>1 DEF HoldSound
<1>3. /\ Open(holds[a]) /\ works[a].stage = "quiescent"
      /\ attempts' = [attempts EXCEPT ![a] = Fenced(attempts[a])] /\ works' = works
      /\ Transition(a, holds[a], "released", "confirmed")
  BY DEF CloseHold
<1>4. "confirmed" \in ReleaseKind \cup {"none"}
  BY DEF ReleaseKind
<1>. QED BY <1>1, <1>2, <1>3, <1>4, FencedSound

(* The reconciler releases a hold.                                         *)
LEMMA ReleaseHoldSound == ASSUME QInv, NEW a \in Attempts, ReleaseHold(a) PROVE QInv' /\ Stands
<1>1. holds[a] \in Hold /\ HoldSound(holds[a])
  BY Row
<1>2. holds[a].force # Unlimited => holds[a].grace # Unlimited
  BY <1>1 DEF HoldSound
<1>3. /\ Open(holds[a]) /\ holds[a].state = "uncertain"
      /\ attempts' = [attempts EXCEPT ![a] = Fenced(attempts[a])] /\ works' = works
      /\ Transition(a, holds[a], "released", "operator")
  BY DEF ReleaseHold, Open
<1>4. "operator" \in ReleaseKind \cup {"none"}
  BY DEF ReleaseKind
<1>. QED BY <1>1, <1>2, <1>3, <1>4, FencedSound

(* A timeout releases a hold by force.                                     *)
LEMMA ForceHoldSound == ASSUME QInv, NEW a \in Attempts, ForceHold(a) PROVE QInv' /\ Stands
<1>1. holds[a] \in Hold /\ HoldSound(holds[a])
  BY Row
<1>2. holds[a].force # Unlimited => holds[a].grace # Unlimited
  BY <1>1 DEF HoldSound
<1>3. /\ Open(holds[a]) /\ holds[a].stopped /\ holds[a].force = 0 /\ holds[a].grace # Unlimited
      /\ attempts' = [attempts EXCEPT ![a] = Fenced(attempts[a])] /\ works' = works
      /\ Transition(a, holds[a], "released", "timeout")
  BY <1>2 DEF ForceHold, Unlimited
<1>4. "timeout" \in ReleaseKind \cup {"none"}
  BY DEF ReleaseKind
<1>. QED BY <1>1, <1>2, <1>3, <1>4, FencedSound

(* An operator asks a hold to stop.                                        *)
LEMMA StopHoldSound == ASSUME QInv, NEW a \in Attempts, StopHold(a) PROVE QInv' /\ Stands
<1>. DEFINE stop == [holds[a] EXCEPT !.stopped = TRUE, !.force = holds[a].grace]
<1>1. holds[a] \in Hold /\ Open(holds[a])
      /\ attempts' = [attempts EXCEPT ![a] = Fenced(attempts[a])] /\ works' = works
  BY Row DEF StopHold
<1>2. /\ stop \in Hold /\ stop.state = holds[a].state
      /\ stop.release_kind = holds[a].release_kind
      /\ stop.force # Unlimited => stop.grace # Unlimited
      /\ Open(stop)
  BY <1>1 DEF Hold, Open
<1>3. IF holds[a].state = "reserved"
      THEN Transition(a, stop, "released", "never_started")
      ELSE Transition(a, stop, "uncertain", "none")
  BY DEF StopHold
<1>4. "never_started" \in ReleaseKind \cup {"none"}
  BY DEF ReleaseKind
<1>. HIDE DEF stop
<1>5. CASE holds[a].state = "reserved"
  BY <1>1, <1>2, <1>3, <1>4, <1>5, FencedSound
<1>6. CASE holds[a].state # "reserved"
  BY <1>1, <1>2, <1>3, <1>6, FencedSound
<1>. QED BY <1>5, <1>6

-----------------------------------------------------------------------------
(* A new hold holds nothing of the past.                                   *)
LEMMA NewHoldFields ==
    ASSUME NEW state \in {"reserved", "running", "uncertain"}, NEW p,
           p.timeout \in Time, p.grace \in Time
    PROVE  LET h == NewHold(state, p) IN
           /\ h \in Hold /\ h.state = state /\ h.release_kind = "none" /\ h.force = Unlimited
           /\ HoldSound(h) /\ h # NoHold /\ Open(h) /\ Advance(NoHold, h)
BY DEF NewHold, Hold, HoldState, HoldSound, NoHold, Open, Advance, Rank, Unlimited, Time

(* A claim takes capacity.                                                 *)
LEMMA ClaimSound == ASSUME QInv, NEW a \in Attempts, Claim(a) PROVE QInv' /\ Stands
<1>. DEFINE new  == [NoAttempt EXCEPT !.state = "active",
                         !.deadline = Least(AttemptTimeout, policy.timeout)]
            work == [works[a] EXCEPT !.closes = Enrolled]
            h    == NewHold("reserved", policy)
<1>1. /\ attempts[a] \in Attempt /\ holds[a] \in Hold /\ works[a] \in Work
      /\ AttemptSound(attempts[a], works[a]) /\ HoldSound(holds[a])
      /\ Backed(attempts[a], holds[a], works[a])
      /\ Held(attempts[a], holds[a], works[a], Enrolled)
      /\ attempts \in [Attempts -> Attempt] /\ works \in [Attempts -> Work]
  BY Row
<1>2. /\ attempts[a].state = "none" /\ Gate
      /\ attempts' = [attempts EXCEPT ![a] = new]
      /\ works' = [works EXCEPT ![a].closes = Enrolled]
      /\ IF Enrolled
         THEN holds' = [holds EXCEPT ![a] = h] /\ policy' = [policy EXCEPT !.occupied = @ + 1]
         ELSE UNCHANGED <<holds, policy>>
  BY DEF Claim
<1>3. holds[a] = NoHold /\ works[a].stage = "idle"
  BY <1>1, <1>2 DEF Backed, AttemptSound
<1>4. works' = [works EXCEPT ![a] = work] /\ work \in Work /\ work.stage = "idle"
  <2>1. Enrolled \in BOOLEAN
    BY DEF Enrolled
  <2>2. work \in Work /\ work.stage = "idle"
    BY <1>1, <1>3, <2>1 DEF Work
  <2>3. works' = [works EXCEPT ![a] = work]
    BY <1>1, <1>2
  <2>. QED BY <2>2, <2>3
<1>5. RowTypes /\ CountersMatch /\ RowsSound /\ policy \in CountedPolicy
  BY DEF QInv, RowTypes
<1>6. /\ new \in Attempt /\ new.state = "active" /\ ~new.started /\ ~new.denied
      /\ new.quiescence = "unconfirmed"
  <2>1. Least(AttemptTimeout, policy.timeout) \in Nat
    BY <1>5, QueueAssumption DEF CountedPolicy, Time, Least, Unlimited
  <2>. QED BY <2>1 DEF NoAttempt, Attempt
<1>7. AttemptSound(new, work)
  BY <1>4, <1>6 DEF AttemptSound, Executing
<1>. HIDE DEF new, work
<1>8. CASE ~Enrolled
  <2>1. RowSound(new, holds[a], work, Enrolled)
    BY <1>1, <1>3, <1>6, <1>7, <1>8 DEF RowSound, Backed, Held, NoHold
  <2>. QED BY <1>2, <1>4, <1>6, <1>8, <2>1, QuietSound
<1>9. CASE Enrolled
  <2>1. /\ h \in Hold /\ h.state = "reserved" /\ h.release_kind = "none"
        /\ HoldSound(h) /\ h # NoHold /\ Open(h) /\ Advance(NoHold, h)
    <3>1. policy.timeout \in Time /\ policy.grace \in Time
      BY <1>5 DEF CountedPolicy
    <3>. QED BY <3>1, NewHoldFields
  <2>. HIDE DEF h
  <2>2. /\ policy' \in CountedPolicy /\ policy'.revision = policy.revision
        /\ policy'.maximum = policy.maximum
        /\ policy'.occupied = policy.occupied + 1 /\ policy'.uncertain = policy.uncertain
    BY <1>2, <1>5, <1>9 DEF CountedPolicy
  <2>3. Enrolled' = Enrolled
    BY <2>2 DEF Enrolled
  <2>4. RowSound(new, h, work, Enrolled)
    BY <1>6, <1>7, <1>9, <2>1 DEF RowSound, Backed, Held
  <2>5. /\ attempts' \in [Attempts -> Attempt] /\ holds' \in [Attempts -> Hold]
        /\ works' \in [Attempts -> Work]
        /\ RowsSound'
        /\ \A x \in Attempts : Advance(holds[x], holds'[x])
    BY <1>2, <1>3, <1>4, <1>5, <1>6, <1>9, <2>1, <2>3, <2>4, OneRow
  <2>6. CountersMatch'
    <3>1. /\ holds \in [Attempts -> Hold] /\ holds'[a] = h
          /\ \A x \in Attempts : x # a => holds'[x] = holds[x]
      BY <1>2, <1>5, <1>9 DEF RowTypes
    <3>2. OpenSet' = OpenSet \cup {a} /\ a \notin OpenSet /\ UncertainSet' = UncertainSet
      BY <1>3, <2>1, <3>1 DEF OpenSet, UncertainSet, Open, NoHold
    <3>3. OpenSet \in SUBSET Attempts
      BY DEF OpenSet
    <3>4. Cardinality(OpenSet') = Cardinality(OpenSet) + 1
      BY <3>2, <3>3, Countable
    <3>. QED BY <1>5, <2>2, <3>2, <3>4 DEF CountersMatch, OpenSet, UncertainSet
  <2>7. Grows
    BY <1>2, <1>5, <2>2 DEF Gate, Grows, CountedPolicy, Limit, Unlimited
  <2>. QED BY <2>2, <2>5, <2>6, <2>7 DEF QInv, RowTypes, Stands
<1>. QED BY <1>8, <1>9

(* A first policy adopts exactly the attempts that may still use capacity. *)
LEMMA PutPolicySound == ASSUME QInv, NEW p \in Policies, PutPolicy(p) PROVE QInv' /\ Stands
<1>. DEFINE record == [NoPolicy EXCEPT !.revision = policy.revision + 1,
                           !.maximum = p.maximum, !.timeout = p.timeout, !.grace = p.grace]
            adopted == {a \in Attempts : Adoptable(a)}
            doubtful == {a \in adopted : AdoptedState(a) = "uncertain"}
<1>1. /\ RowTypes /\ CountersMatch /\ RowsSound /\ policy \in CountedPolicy
      /\ attempts \in [Attempts -> Attempt] /\ holds \in [Attempts -> Hold]
      /\ works \in [Attempts -> Work]
  BY DEF QInv, RowTypes
<1>2. p.maximum \in Limit /\ p.timeout \in Time \ {0} /\ p.grace \in Time \ {0}
  BY QueueAssumption
<1>3. attempts' = attempts /\ works' = works
  BY DEF PutPolicy
<1>4. CASE Enrolled
  <2>1. /\ policy' = [record EXCEPT !.occupied = policy.occupied, !.uncertain = policy.uncertain]
        /\ holds' = holds
    BY <1>4 DEF PutPolicy
  <2>2. /\ policy' \in CountedPolicy /\ policy'.revision = policy.revision + 1
        /\ policy'.occupied = policy.occupied /\ policy'.uncertain = policy.uncertain
    <3>1. policy' = [revision |-> policy.revision + 1, maximum |-> p.maximum,
                     timeout |-> p.timeout, grace |-> p.grace,
                     occupied |-> policy.occupied, uncertain |-> policy.uncertain]
      BY <2>1 DEF NoPolicy
    <3>. QED BY <1>1, <1>2, <3>1 DEF CountedPolicy
  <2>3. Enrolled'
    BY <1>1, <2>2 DEF Enrolled, CountedPolicy
  <2>4. RowsSound'
    BY <1>1, <1>3, <1>4, <2>1, <2>3 DEF RowsSound
  <2>5. CountersMatch'
    BY <1>1, <2>1, <2>2 DEF CountersMatch
  <2>6. RowTypes'
    BY <1>1, <1>3, <2>1, <2>2 DEF RowTypes
  <2>7. Stands
    <3>1. Grows
      BY <1>1, <2>2 DEF Grows, CountedPolicy
    <3>. QED BY <1>1, <2>1, <3>1, SameAdvances DEF Stands
  <2>. QED BY <2>4, <2>5, <2>6, <2>7 DEF QInv
<1>5. CASE ~Enrolled
  <2>1. /\ policy' = [record EXCEPT !.occupied = Cardinality(adopted),
                                    !.uncertain = Cardinality(doubtful)]
        /\ holds' = [a \in Attempts |->
                         IF a \in adopted THEN NewHold(AdoptedState(a), p) ELSE holds[a]]
    BY <1>5 DEF PutPolicy
  <2>2. \A a \in Attempts : holds[a] = NoHold
    BY <1>1, <1>5 DEF RowsSound, RowSound, Held
  <2>3. Cardinality(adopted) \in Nat /\ Cardinality(doubtful) \in Nat
    <3>1. adopted \in SUBSET Attempts /\ doubtful \in SUBSET Attempts
      OBVIOUS
    <3>. QED BY <3>1, Countable
  <2>4. /\ policy' \in CountedPolicy /\ policy'.revision = policy.revision + 1
        /\ policy'.occupied = Cardinality(adopted) /\ policy'.uncertain = Cardinality(doubtful)
    <3>. HIDE DEF adopted, doubtful
    <3>1. policy' = [revision |-> policy.revision + 1, maximum |-> p.maximum,
                     timeout |-> p.timeout, grace |-> p.grace,
                     occupied |-> Cardinality(adopted), uncertain |-> Cardinality(doubtful)]
      BY <2>1 DEF NoPolicy
    <3>. QED BY <1>1, <1>2, <2>3, <3>1 DEF CountedPolicy
  <2>5. Enrolled'
    BY <1>1, <2>4 DEF Enrolled, CountedPolicy
  <2>6. ASSUME NEW a \in Attempts
        PROVE  /\ IF a \in adopted
                  THEN /\ AdoptedState(a) \in {"reserved", "running", "uncertain"}
                       /\ holds'[a].state = AdoptedState(a) /\ Open(holds[a])'
                  ELSE holds'[a] = NoHold
               /\ holds'[a] \in Hold
               /\ RowSound(attempts[a], holds'[a], works[a], TRUE)
               /\ Advance(holds[a], holds'[a])
    <3>1. /\ attempts[a] \in Attempt /\ works[a] \in Work
          /\ AttemptSound(attempts[a], works[a]) /\ holds[a] = NoHold
      BY <1>1, <2>2 DEF RowsSound, RowSound
    <3>2. CASE a \in adopted
      <4>1. AdoptedState(a) \in {"reserved", "running", "uncertain"}
        BY DEF AdoptedState
      <4>. DEFINE h == NewHold(AdoptedState(a), p)
      <4>2. holds'[a] = h
        BY <2>1, <3>2
      <4>3. /\ h \in Hold /\ h.state = AdoptedState(a) /\ h.release_kind = "none"
            /\ HoldSound(h) /\ h # NoHold /\ Open(h) /\ Advance(NoHold, h)
        BY <1>2, <4>1, NewHoldFields
      <4>. HIDE DEF h
      <4>4. Backed(attempts[a], h, works[a])
        BY <3>1, <3>2, <4>3 DEF Backed, Adoptable, AdoptedState
      <4>5. RowSound(attempts[a], h, works[a], TRUE)
        BY <3>1, <4>3, <4>4 DEF RowSound, Held
      <4>. QED BY <3>1, <3>2, <4>1, <4>2, <4>3, <4>5 DEF Open
    <3>3. CASE a \notin adopted
      <4>1. holds'[a] = NoHold /\ NoHold \in Hold
        BY <1>1, <2>1, <3>1, <3>3
      <4>2. attempts[a].state # "active" /\ ~Executing(works[a])
        BY <3>1, <3>3 DEF Adoptable, AttemptSound, Executing, Attempt, Work
      <4>3. RowSound(attempts[a], NoHold, works[a], TRUE)
        BY <3>1, <4>2 DEF RowSound, HoldSound, Backed, Held, NoHold
      <4>. QED BY <3>1, <3>3, <4>1, <4>3, SameAdvances
    <3>. QED BY <3>2, <3>3
  <2>7. RowsSound'
    BY <1>3, <2>5, <2>6 DEF RowsSound
  <2>8. holds' \in [Attempts -> Hold]
    BY <2>1, <2>6
  <2>9. CountersMatch'
    <3>1. OpenSet' = adopted
      <4>1. ASSUME NEW a \in Attempts PROVE Open(holds[a])' <=> a \in adopted
        <5>1. ~Open(NoHold)
          BY DEF Open, NoHold
        <5>. HIDE DEF adopted
        <5>2. CASE a \in adopted
          BY <2>6, <5>2
        <5>3. CASE a \notin adopted
          <6>1. holds'[a] = NoHold
            BY <2>6, <5>3
          <6>. QED BY <5>1, <5>3, <6>1
        <5>. QED BY <5>2, <5>3
      <4>. QED BY <4>1 DEF OpenSet
    <3>2. UncertainSet' = doubtful
      <4>1. ASSUME NEW a \in Attempts
            PROVE  holds'[a].state = "uncertain" <=> a \in adopted /\ AdoptedState(a) = "uncertain"
        <5>. HIDE DEF adopted
        <5>1. CASE a \in adopted
          BY <2>6, <5>1
        <5>2. CASE a \notin adopted
          <6>1. holds'[a] = NoHold
            BY <2>6, <5>2
          <6>. QED BY <5>2, <6>1 DEF NoHold
        <5>. QED BY <5>1, <5>2
      <4>. QED BY <4>1 DEF UncertainSet
    <3>. QED BY <2>4, <3>1, <3>2 DEF CountersMatch, OpenSet, UncertainSet
  <2>10. RowTypes'
    BY <1>1, <1>3, <2>4, <2>8 DEF RowTypes
  <2>11. Stands
    BY <1>5, <2>6 DEF Stands, Grows
  <2>. QED BY <2>7, <2>9, <2>10, <2>11 DEF QInv
<1>. QED BY <1>4, <1>5

(* What is left of a time, if it is limited at all.                        *)
LEMMA LessTime ==
    ASSUME NEW n \in Time PROVE Less(n) \in Time /\ (Less(n) = Unlimited <=> n = Unlimited)
BY DEF Time, Less, Unlimited

(* Time only shortens deadlines.                                           *)
LEMMA TickSound == ASSUME QInv, Tick PROVE QInv' /\ Stands
<1>1. /\ RowTypes /\ CountersMatch /\ RowsSound /\ policy \in CountedPolicy
      /\ attempts \in [Attempts -> Attempt] /\ holds \in [Attempts -> Hold]
      /\ works \in [Attempts -> Work] /\ UNCHANGED <<policy, works>>
  BY DEF QInv, RowTypes, Tick
<1>2. ASSUME NEW a \in Attempts
      PROVE  /\ attempts'[a] \in Attempt /\ holds'[a] \in Hold
             /\ holds'[a].state = holds[a].state
             /\ RowSound(attempts'[a], holds'[a], works[a], Enrolled)
             /\ Advance(holds[a], holds'[a])
  <2>1. /\ attempts'[a] = [attempts[a] EXCEPT !.deadline = Less(attempts[a].deadline)]
        /\ holds'[a] = [holds[a] EXCEPT !.deadline = Less(holds[a].deadline),
                                        !.force = Less(holds[a].force)]
        /\ attempts[a] \in Attempt /\ holds[a] \in Hold
        /\ RowSound(attempts[a], holds[a], works[a], Enrolled)
    BY <1>1 DEF Tick, RowsSound
  <2>2. /\ attempts'[a] \in Attempt /\ attempts'[a].state = attempts[a].state
        /\ attempts'[a].started = attempts[a].started
        /\ attempts'[a].reported = attempts[a].reported
        /\ attempts'[a].quiescence = attempts[a].quiescence
        /\ attempts'[a].deadline > 0 => attempts[a].deadline > 0
    BY <2>1 DEF Attempt, Less, Unlimited
  <2>3. /\ holds'[a] \in Hold /\ holds'[a].state = holds[a].state
        /\ holds'[a].grace = holds[a].grace /\ holds'[a].stopped = holds[a].stopped
        /\ holds'[a].release_kind = holds[a].release_kind
        /\ holds'[a].force = Unlimited <=> holds[a].force = Unlimited
    <3>1. /\ Less(holds[a].deadline) \in Time /\ Less(holds[a].force) \in Time
          /\ Less(holds[a].force) = Unlimited <=> holds[a].force = Unlimited
      BY <2>1, LessTime DEF Hold
    <3>. QED BY <2>1, <3>1 DEF Hold
  <2>4. holds'[a] = NoHold <=> holds[a] = NoHold
    <3>1. ASSUME holds[a] = NoHold PROVE holds'[a] = NoHold
      <4>1. Less(Unlimited) = Unlimited
        BY DEF Less
      <4>2. NoHold.deadline = Unlimited /\ NoHold.force = Unlimited
        BY DEF NoHold
      <4>3. holds'[a] = [NoHold EXCEPT !.deadline = Unlimited, !.force = Unlimited]
        BY <2>1, <3>1, <4>1, <4>2
      <4>. QED BY <4>3 DEF NoHold
    <3>2. ASSUME holds'[a] = NoHold PROVE holds[a] = NoHold
      <4>1. holds[a].state = "none"
        BY <2>3, <3>2 DEF NoHold
      <4>. QED BY <2>1, <4>1 DEF RowSound, HoldSound
    <3>. QED BY <3>1, <3>2
  <2>5. RowSound(attempts'[a], holds'[a], works[a], Enrolled)
    <3>1. AttemptSound(attempts'[a], works[a])
      BY <2>1, <2>2 DEF RowSound, AttemptSound
    <3>2. HoldSound(holds'[a])
      BY <2>1, <2>3, <2>4 DEF RowSound, HoldSound
    <3>3. Backed(attempts'[a], holds'[a], works[a])
      BY <2>1, <2>2, <2>3, <2>4 DEF RowSound, Backed, MayStart
    <3>4. Held(attempts'[a], holds'[a], works[a], Enrolled)
      BY <2>1, <2>2, <2>4 DEF RowSound, Held
    <3>. QED BY <3>1, <3>2, <3>3, <3>4 DEF RowSound
  <2>. QED BY <2>1, <2>2, <2>3, <2>5, SameAdvances
<1>3. attempts' \in [Attempts -> Attempt] /\ holds' \in [Attempts -> Hold]
  BY <1>2 DEF Tick
<1>4. RowsSound'
  BY <1>1, <1>2 DEF RowsSound, Enrolled
<1>5. CountersMatch'
  BY <1>1, <1>2 DEF CountersMatch, Open
<1>6. RowTypes'
  BY <1>1, <1>3 DEF RowTypes
<1>7. Stands
  BY <1>1, <1>2 DEF Stands, Grows, CountedPolicy
<1>. QED BY <1>4, <1>5, <1>6, <1>7 DEF QInv

-----------------------------------------------------------------------------
(* Every step of the queue's transactions keeps the invariant and does     *)
(* only what ReleasesStand allows.                                         *)
LEMMA StepSound == QInv /\ [Next]_vars => QInv' /\ (Stands \/ UNCHANGED vars)
<1>. SUFFICES ASSUME QInv, [Next]_vars PROVE QInv' /\ (Stands \/ UNCHANGED vars)
  OBVIOUS
<1>1. CASE Tick
  BY <1>1, TickSound
<1>2. ASSUME NEW p \in Policies, PutPolicy(p) PROVE QInv' /\ Stands
  BY <1>2, PutPolicySound
<1>3. ASSUME NEW a \in Attempts,
             \/ Claim(a) \/ ReplayClaim(a) \/ Deny(a) \/ ConfirmDenied(a)
             \/ Dispatch(a) \/ Invoke(a) \/ Quiesce(a)
             \/ \E started \in BOOLEAN, q \in {"confirmed", "unconfirmed"} : Settle(a, started, q)
             \/ ConfirmQuiescence(a) \/ Expire(a)
             \/ CloseHold(a) \/ ReleaseHold(a)
             \/ StopHold(a) \/ ForceHold(a)
      PROVE  QInv' /\ Stands
  BY <1>3, ClaimSound, ReplayClaimSound, DenySound, ConfirmDeniedSound, DispatchSound, WorkerSound, SettleSound, ConfirmQuiescenceSound,
     ExpireSound, CloseHoldSound, ReleaseHoldSound, StopHoldSound, ForceHoldSound
<1>4. CASE UNCHANGED vars
  <2>1. UNCHANGED <<policy, attempts, holds, works>>
    BY <1>4 DEF vars
  <2>. QED BY <1>4, <2>1 DEF QInv, RowTypes, CountersMatch, RowsSound, Enrolled
<1>. QED BY <1>1, <1>2, <1>3, <1>4 DEF Next

(* The inductive invariant of the queue's books.                           *)
THEOREM QueueInvariant == Spec => []QInv
<1>1. Init => QInv
  BY InitSound
<1>2. QInv /\ [Next]_vars => QInv'
  BY StepSound
<1>. QED BY <1>1, <1>2, PTL DEF Spec

(* The counters are the holds that exist, proven releases are proven, and  *)
(* what executes in an enrolled queue is counted or accounted for.         *)
THEOREM HoldsAccountedCorrect == Spec => []HoldsAccounted
BY QueueInvariant, Accounted, PTL

(* Holds only advance, no claim passes the maximum, an operator releases   *)
(* only uncertain holds and the timeout only after stop and grace.         *)
THEOREM ReleasesStandCorrect == Spec => ReleasesStand
<1>1. QInv /\ [Next]_vars =>
          [/\ \A a \in Attempts :
                 /\ Rank(holds[a]) =< Rank(holds'[a])
                 /\ holds[a].state = "released" =>
                        holds'[a].release_kind = holds[a].release_kind
           /\ Enrolled /\ policy'.occupied > policy.occupied =>
                 policy.maximum = Unlimited \/ policy'.occupied =< policy.maximum]_vars
  BY StepSound DEF Stands, Advance, Grows
<1>2. QInv /\ [Next]_vars =>
          [\A a \in Attempts :
              holds'[a].release_kind # holds[a].release_kind =>
                  /\ holds'[a].release_kind = "operator" => holds[a].state = "uncertain"
                  /\ holds'[a].release_kind = "timeout" =>
                         holds[a].stopped /\ holds[a].grace # Unlimited /\ holds[a].force = 0]_vars
  BY StepSound DEF Stands, Advance
<1>. QED BY QueueInvariant, <1>1, <1>2, PTL DEF Spec, ReleasesStand, HoldsAdvance, ForcedReleases

=============================================================================
