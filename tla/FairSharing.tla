----------------------------- MODULE FairSharing -----------------------------
(***************************************************************************)
(* Weighted sharing of one resource's offers: groups of queues, a durable  *)
(* cursor that interleaves their visits, and the reclassification of the   *)
(* backlog when the groups change.  Whether there is capacity for an offer *)
(* is TaskAdmission's matter: here every offer finds capacity.             *)
(***************************************************************************)
EXTENDS Integers, Sequences, FiniteSets, SequencesExt

CONSTANTS
    Queues,         \* origin queues of requests
    Sharings,       \* ResourceFairSharing values operators may set
    MaxRows,        \* bound: request rows at a time
    MaxEdits        \* bound: accepted policy revisions

Unshared == [groups |-> <<>>, default |-> 0]    \* no fair_sharing: plain FIFO

(* ResourceFairSharing::validate: at least one group, positive weights, no *)
(* queue in two groups, a default that exists.  A group's name is its      *)
(* position.                                                               *)
WellFormed(s) ==
    /\ s.default \in DOMAIN s.groups
    /\ \A i \in DOMAIN s.groups :
          /\ s.groups[i].weight \in 1..1000
          /\ s.groups[i].queues \subseteq Queues
          /\ \A j \in DOMAIN s.groups \ {i} : s.groups[i].queues \cap s.groups[j].queues = {}

SharingAssumption ==
    /\ MaxRows \in Nat /\ MaxEdits \in Nat
    /\ \A s \in Sharings : s = Unshared \/ WellFormed(s)

VARIABLES
    sharing,    \* the policy's fair_sharing
    cursor,     \* fair_round and fair_group_index of the resource
    rows,       \* live requests in the order of request_seq: queue, group, state
    edits,      \* accepted revisions
    served,     \* observer: offers to each group in the cycle under way
    missed      \* observer: offers to others while a group kept waiting

vars == <<sharing, cursor, rows, edits, served, missed>>

Groups == DOMAIN sharing.groups
NoGroup == 0

(* group, group_for: the group that lists the queue, else the default one. *)
GroupFor(s, q) ==
    IF s = Unshared THEN NoGroup
    ELSE IF \E i \in DOMAIN s.groups : q \in s.groups[i].queues
    THEN CHOOSE i \in DOMAIN s.groups : q \in s.groups[i].queues
    ELSE s.default

(* divisor: the greatest common divisor of the weights.                    *)
Divisor(s) ==
    LET weights == {s.groups[i].weight : i \in DOMAIN s.groups}
        common  == {d \in 1..Max(weights) : \A w \in weights : w % d = 0}
    IN  Max(common)

Share(s, i) == s.groups[i].weight \div Divisor(s)

Start == [round |-> 0, index |-> 0]

(* Mutant of NextVisit: the group just visited is due in the same round.   *)
NextVisitAgain(i, share) ==
    IF cursor.round = 0 THEN <<0, 1, i>>
    ELSE IF share >= cursor.round /\ i >= cursor.index THEN <<0, cursor.round, i>>
    ELSE IF share > cursor.round THEN <<0, cursor.round + 1, i>>
    ELSE <<1, 1, i>>

(* next_visit: the round in which group i is due next, as a triple whose   *)
(* lexicographic order is the order of visits.                             *)
NextVisit(i, share) ==
    IF cursor.round = 0 THEN <<0, 1, i>>
    ELSE IF share >= cursor.round /\ i > cursor.index THEN <<0, cursor.round, i>>
    ELSE IF share > cursor.round THEN <<0, cursor.round + 1, i>>
    ELSE <<1, 1, i>>

Before(v, w) ==
    \/ v[1] < w[1]
    \/ v[1] = w[1] /\ v[2] < w[2]
    \/ v[1] = w[1] /\ v[2] = w[2] /\ v[3] < w[3]

WaitingRows(i) == {n \in DOMAIN rows : rows[n].group = i /\ rows[n].state = "waiting"}
Eligible       == {i \in Groups : WaitingRows(i) # {}}

(* head: the oldest waiting row of the eligible group that is due first.   *)
DueGroup == CHOOSE i \in Eligible : \A j \in Eligible \ {i} :
                Before(NextVisit(i, Share(sharing, i)), NextVisit(j, Share(sharing, j)))
DueRow   == Min(WaitingRows(DueGroup))

Init ==
    /\ sharing \in Sharings
    /\ cursor = Start
    /\ rows = <<>>
    /\ edits = 0
    /\ served = [i \in Groups |-> 0]
    /\ missed = [i \in Groups |-> 0]

(* register: a new row, with the group its queue has under the policy.     *)
Register(q) ==
    /\ Len(rows) < MaxRows
    /\ rows' = Append(rows, [queue |-> q, group |-> GroupFor(sharing, q), state |-> "waiting"])
    /\ UNCHANGED <<sharing, cursor, edits, served, missed>>

(* winner and record: an offer to the head of the due group, and the       *)
(* cursor moves with it.  record refuses a row whose group is not the one  *)
(* its queue has.  The observers follow the cycles whose offers all had    *)
(* every group to choose from.                                             *)
Offer ==
    LET i == DueGroup
        visit == NextVisit(i, Share(sharing, i))
        whole == Eligible = Groups
    IN
    /\ Eligible # {}
    /\ GroupFor(sharing, rows[DueRow].queue) = i
    /\ cursor' = [round |-> visit[2], index |-> i]
    /\ rows' = [rows EXCEPT ![DueRow].state = "offered"]
    /\ missed' = [j \in Groups |-> IF j = i \/ j \notin Eligible THEN 0 ELSE missed[j] + 1]
    /\ served' = IF ~whole THEN [j \in Groups |-> 0]
                 ELSE IF visit[1] = 1 \/ cursor.round = 0
                 THEN [j \in Groups |-> IF j = i THEN 1 ELSE 0]
                 ELSE [served EXCEPT ![i] = @ + 1]
    /\ UNCHANGED <<sharing, edits>>

(* Without sharing the oldest waiting row is offered and no cursor moves.  *)
OfferFifo ==
    /\ sharing = Unshared
    /\ \E n \in DOMAIN rows :
          /\ rows[n].state = "waiting"
          /\ \A k \in 1..(n - 1) : rows[k].state # "waiting"
          /\ rows' = [rows EXCEPT ![n].state = "offered"]
    /\ UNCHANGED <<sharing, cursor, edits, served, missed>>

(* An offer lapses and its row waits again in its old place; a row that    *)
(* started, was cancelled or expired is no candidate any more.             *)
Repark(n) ==
    /\ rows[n].state = "offered"
    /\ rows' = [rows EXCEPT ![n].state = "waiting"]
    /\ UNCHANGED <<sharing, cursor, edits, served, missed>>

Leave(n) ==
    /\ rows' = RemoveAt(rows, n)
    /\ missed' = [i \in Groups |->
           IF WaitingRows(i) \subseteq {n} THEN 0 ELSE missed[i]]
    /\ UNCHANGED <<sharing, cursor, edits, served>>

(* reclassify: every live row carries the group of its queue again; there  *)
(* is nothing to do when sharing ends.                                     *)
Reclassified(s) ==
    [n \in DOMAIN rows |->
        IF s = Unshared THEN rows[n]
        ELSE [rows[n] EXCEPT !.group = GroupFor(s, rows[n].queue)]]

(* same_rotation: an edit that leaves groups, relative shares and queues   *)
(* as they are keeps the cursor and the rows.                              *)
SameRotation(s) ==
    IF Unshared \in {s, sharing} THEN s = sharing
    ELSE /\ s.default = sharing.default /\ Len(s.groups) = Len(sharing.groups)
         /\ \A i \in Groups :
               /\ Share(s, i) = Share(sharing, i)
               /\ i # s.default => s.groups[i].queues = sharing.groups[i].queues

(* put_resource_once, as far as sharing goes; the offers of the old epoch  *)
(* lapse one by one.                                                       *)
PutResource(s) ==
    /\ edits < MaxEdits
    /\ edits' = edits + 1
    /\ sharing' = s
    /\ IF SameRotation(s)
       THEN UNCHANGED <<cursor, rows, served, missed>>
       ELSE /\ cursor' = Start
            /\ rows' = Reclassified(s)
            /\ served' = [i \in DOMAIN s.groups |-> 0]
            /\ missed' = [i \in DOMAIN s.groups |-> 0]

Next ==
    \/ \E q \in Queues : Register(q)
    \/ Offer \/ OfferFifo
    \/ \E n \in DOMAIN rows : Repark(n) \/ Leave(n)
    \/ \E s \in Sharings : PutResource(s)

Spec == Init /\ [][Next]_vars

------------------------------------------------------------------------------
(* Types; the cursor stays inside the shares of the policy in force, which *)
(* loading a resource row (resource_row) insists on.                       *)
TypeOK ==
    /\ sharing \in Sharings
    /\ \A n \in DOMAIN rows :
          rows[n].queue \in Queues /\ rows[n].state \in {"waiting", "offered"}
    /\ \/ cursor = Start
       \/ cursor.index \in Groups /\ cursor.round \in 1..Share(sharing, cursor.index)

(* Within one cycle over groups that all have backlog no group gets more   *)
(* offers than its share (next_visit), so none is crowded out.             *)
SharesRespected ==
    \A i \in Groups : served[i] =< Share(sharing, i)

CycleLength == FoldSeq(LAMBDA g, n : n + g.weight, 0, sharing.groups) \div Divisor(sharing)

(* A group that keeps a request waiting is passed over at most once around *)
(* the cycle, whoever comes, leaves or returns in the meantime.            *)
NobodyStarves ==
    \A i \in Groups : missed[i] < CycleLength

(* While sharing is on, each live row carries the group its queue has now: *)
(* record refuses any other row, and as it would stay the head of its      *)
(* group the resource would offer nothing any more.                        *)
GroupsAreCurrent ==
    sharing # Unshared =>
        \A n \in DOMAIN rows : rows[n].group = GroupFor(sharing, rows[n].queue)

(* Queues share the resource by their weights and none is left behind.     *)
SharingSound == TypeOK /\ SharesRespected /\ NobodyStarves /\ GroupsAreCurrent

==============================================================================
