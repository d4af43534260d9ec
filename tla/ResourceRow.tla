----------------------------- MODULE ResourceRow -----------------------------
(***************************************************************************)
(* What a governed resource can give, as operators on its row: occupancy   *)
(* and rate credit.  Tasks and workflow runs share the row and this        *)
(* arithmetic.  Times are what is left until a moment.                     *)
(***************************************************************************)
EXTENDS Integers

None == -1              \* an absent time, due or source

Least(S) == IF S = {} THEN None ELSE CHOOSE x \in S : \A y \in S : x =< y

Full(p)    == p.burst * p.period           \* a rate's capacity; 0 without rate
Metered(p) == p.period > 0
Tokens(r)  == r.credit \div r.policy.period

(* Mutant of Capacity: an invocation whose end is unknown is not counted.  *)
CapacityKnown(r) ==
    LET room == r.policy.max_occupancy - (r.offered + r.started - r.unknown)
    IN  IF ~r.policy.enabled \/ room < 0 THEN 0
        ELSE IF ~Metered(r.policy) THEN room
        ELSE Least({room, Tokens(r) - r.offered})

(* admission_offer_capacity.                                               *)
Capacity(r) ==
    LET room == r.policy.max_occupancy - (r.offered + r.started)
    IN  IF ~r.policy.enabled \/ room < 0 THEN 0
        ELSE IF ~Metered(r.policy) THEN room
        ELSE Least({room, Tokens(r) - r.offered})

(* next_admission_refill: when time alone makes one more offer possible.   *)
NextRefill(r) ==
    LET p       == r.policy
        missing == (r.offered + 1) * p.period - r.credit
    IN  IF ~Metered(p) \/ ~p.enabled \/ r.offered + r.started >= p.max_occupancy
              \/ r.offered >= p.burst
        THEN {}
        ELSE IF missing =< 0 THEN {0}
        ELSE {(missing + p.numerator - 1) \div p.numerator}

(* change_admission_rate, after the refill.                                *)
Converted(old, p, credit) ==
    IF ~Metered(p) \/ ~Metered(old) THEN 0
    ELSE Least({(credit * p.period) \div old.period, Full(p)})
==============================================================================
