------------------------------ MODULE MCSharing ------------------------------
(***************************************************************************)
(* Who is served, and when: two tasks that compete for one slot with a     *)
(* rate (TaskAdmission with its fairness), and queues that share a         *)
(* resource by weight (FairSharing).  A behaviour stays in its scenario.   *)
(***************************************************************************)
EXTENDS TaskAdmission

CONSTANTS Queues, Sharings, MaxRows, MaxEdits

VARIABLES scenario, sharing, cursor, rows, edits, served, missed

OneSlot == {[enabled |-> TRUE, max_occupancy |-> 1, numerator |-> 1, period |-> 1, burst |-> 1,
             offer_timeout |-> 1]}

Sharing == INSTANCE FairSharing

Of(w1, q1, w2, q2, w3, q3, default) ==
    [groups |-> <<[weight |-> w1, queues |-> q1], [weight |-> w2, queues |-> q2],
                  [weight |-> w3, queues |-> q3]>>, default |-> default]

(* None; uneven weights, the same ones doubled, and queues that change     *)
(* their group, in one case with the shares unchanged.                     *)
SomeSharings ==
    {[groups |-> <<>>, default |-> 0], Of(1, {"a"}, 3, {"b"}, 2, {}, 3), Of(2, {"a"}, 6, {"b"}, 4, {}, 3),
     Of(1, {"b"}, 3, {"a"}, 2, {}, 3), Of(1, {"a", "c"}, 1, {}, 2, {"b"}, 2)}

ASSUME Sharing!SharingAssumption

sharingVars == <<sharing, cursor, rows, edits, served, missed>>

MCInit ==
    /\ scenario \in {"slot", "shares"} /\ Init /\ Sharing!Init
    /\ scenario = "slot" => sharing = Sharing!Unshared

MCNext ==
    /\ \/ scenario = "slot" /\ Next /\ UNCHANGED sharingVars
       \/ scenario = "shares" /\ Sharing!Next /\ UNCHANGED vars
    /\ UNCHANGED scenario

(* Without a task nothing that Fairness speaks of is enabled.              *)
MCSpec == MCInit /\ [][MCNext]_<<scenario, vars, sharingVars>> /\ Fairness

(* Queues share the resource by their weights and none is left behind.     *)
SharingSound == Sharing!SharingSound
==============================================================================
