------------------------- MODULE TaskAdmissionProofs -------------------------
(***************************************************************************)
(* Proofs about TaskAdmission, for any number of tasks, generations,       *)
(* policies and revisions: the counters of the resource are its requests,  *)
(* every offer keeps its token, and requests, attempts, workers and the    *)
(* line agree with each other whatever order Start, Close, expiry,         *)
(* cancellation, policy edits and the scheduler come in.                   *)
(***************************************************************************)
EXTENDS TaskAdmission, FiniteSetTheorems, WellFoundedInduction, TLAPS

(* What the counters of a resource row r count among requests f.           *)
Offering(r, a) == Unstarted(a) /\ a.revision = r.revision
Unknown(a)     == a.state = "unknown_occupied"

Counted(r, f) ==
    /\ r.offered = Cardinality({o \in Occurrences : Offering(r, f[o])})
    /\ r.started = Cardinality({o \in Occurrences : Occupied(f[o])})
    /\ r.unknown = Cardinality({o \in Occurrences : Unknown(f[o])})

(* Every offer has its token, and the bucket does not run over.            *)
Backed(r) == r.credit =< Full(r.policy) /\ r.offered * r.policy.period =< r.credit

(* No offer is of a policy epoch that is still to come.                    *)
Epochs == \A o \in Occurrences : requests[o].revision =< resource.revision

(* How far a task has come.                                                *)
TaskFits(k) ==
    /\ k.state = "none" => k.generation = 0 /\ ~k.ready
    /\ k.state = "queued" => k.generation < MaxGeneration
    /\ k.state = "active" => k.generation > 0

(* The request of the generation a task is about to have.                  *)
NextFits(k, a) ==
    /\ k.state = "queued" => a.state \in {"waiting", "offered"} /\ (k.ready <=> a.state = "offered")
    /\ k.state = "done" => a.state \in {"none", "closed_before_start"}
    /\ k.state \notin {"queued", "done"} => a.state = "none"

(* Request a, attempt x and worker w of generation g fit their task k.     *)
Fits(k, g, a, x, w) ==
    /\ Valid(a) /\ (a.state = "none" => a = NoRequest)
    /\ a.source = x.started
    /\ x.state = "active" <=> k.state = "active" /\ g = k.generation
    /\ x.state = "deferred" => ~x.started
    /\ w \in {"granted", "running"} => Occupied(a) \/ a.state = "administratively_released"
    /\ g =< k.generation => a.owner /\ a.state # "none"
    /\ g > k.generation => x = NoAttempt /\ w = "none" /\ ~a.owner
    /\ g = k.generation + 1 => NextFits(k, a)
    /\ g > k.generation + 1 => a.state = "none"

Rows ==
    /\ \A t \in Tasks : TaskFits(tasks[t])
    /\ \A o \in Occurrences : Fits(tasks[o[1]], o[2], requests[o], attempts[o], workers[o])

(* The line is of what waits, each once.                                   *)
InLine(s, o) == \E i \in DOMAIN s : s[i] = o
Once(s)      == \A i, j \in DOMAIN s : s[i] = s[j] => i = j

Line == Once(line) /\ \A o \in Occurrences : InLine(line, o) <=> requests[o].state = "waiting"

(* The books of the resource.                                              *)
Books == Counted(resource, requests) /\ Backed(resource) /\ Epochs

AInv == TypeOK /\ Books /\ Rows /\ Line

-----------------------------------------------------------------------------
(* Arithmetic.                                                             *)

(* A set of naturals has a least element.                                  *)
LEMMA Smallest ==
    ASSUME NEW S \in SUBSET Nat, S # {}
    PROVE  \E x \in S : \A y \in S : x =< y
<1>1. IsWellFoundedOn(OpToRel(<, Nat), Nat)
  BY NatLessThanWellFounded
<1>2. PICK x \in S : \A y \in S : ~(<<y, x>> \in OpToRel(<, Nat))
  BY <1>1, WFMin
<1>3. \A y \in S : ~(y < x)
  BY <1>2 DEF OpToRel
<1> QED BY <1>3

(* What Least returns: a due time, or the smaller of two numbers.          *)
LEMMA LeastTime ==
    ASSUME NEW S \in SUBSET Nat
    PROVE  Least(S) \in Nat \cup {None}
<1>1. CASE S = {}
  BY <1>1 DEF Least
<1>2. CASE S # {}
  BY <1>2, Smallest DEF Least
<1> QED BY <1>1, <1>2

LEMMA LeastPair ==
    ASSUME NEW m \in Int, NEW n \in Int
    PROVE  /\ Least({m, n}) \in {m, n}
           /\ Least({m, n}) =< m /\ Least({m, n}) =< n
<1>1. \E x \in {m, n} : \A y \in {m, n} : x =< y
  OBVIOUS
<1>2. /\ (CHOOSE x \in {m, n} : \A y \in {m, n} : x =< y) \in {m, n}
      /\ \A y \in {m, n} : (CHOOSE x \in {m, n} : \A z \in {m, n} : x =< z) =< y
  BY <1>1
<1>3. Least({m, n}) = CHOOSE x \in {m, n} : \A y \in {m, n} : x =< y
  BY DEF Least
<1> QED BY <1>2, <1>3

LEMMA Division ==
    ASSUME NEW m \in Nat, NEW n \in Nat, n > 0
    PROVE  m \div n \in Nat /\ n * (m \div n) =< m
OBVIOUS

LEMMA Product ==
    ASSUME NEW m \in Nat, NEW n \in Nat
    PROVE  m * n \in Nat
OBVIOUS

LEMMA ProductLess ==
    ASSUME NEW m \in Nat, NEW n \in Nat, m > 0
    PROVE  (m - 1) * n = m * n - n /\ n =< m * n
<1>1. (m - 1) * n = m * n - n
  OBVIOUS
<1>2. (m - 1) * n \in Nat
  BY Product
<1> QED BY <1>1, <1>2

LEMMA WholeTokens ==
    ASSUME NEW m \in Nat, NEW n \in Nat, NEW c \in Nat, n > 0, (c \div n) - m > 0
    PROVE  (m + 1) * n =< c
OBVIOUS

(* Fields of policies and rows.                                            *)
LEMMA PolicyFields ==
    ASSUME NEW p \in Policies
    PROVE  /\ p.enabled \in BOOLEAN /\ p.max_occupancy \in Nat
           /\ p.numerator \in Nat /\ p.period \in Nat /\ p.burst \in Nat
           /\ p.period > 0 => p.numerator > 0 /\ p.burst > 0
           /\ p.offer_timeout \in Nat
           /\ Full(p) \in Nat
<1>1. /\ p.enabled \in BOOLEAN /\ p.max_occupancy \in Nat
      /\ p.numerator \in Nat /\ p.period \in Nat /\ p.burst \in Nat
      /\ p.period > 0 => p.numerator > 0 /\ p.burst > 0
      /\ p.offer_timeout \in Nat
  BY AdmissionAssumption
<1>2. p.burst * p.period \in Nat
  BY <1>1, Product
<1> QED BY <1>1, <1>2 DEF Full

(* An offer within the capacity has room and a token.                      *)
LEMMA CapacityGives ==
    ASSUME NEW r \in Resource, Capacity(r) > 0
    PROVE  /\ r.offered + r.started < r.policy.max_occupancy
           /\ (r.offered + 1) * r.policy.period =< r.credit
<1> DEFINE room == r.policy.max_occupancy - (r.offered + r.started)
<1>0. /\ r.policy \in Policies /\ r.credit \in Nat /\ r.offered \in Nat /\ r.started \in Nat
  BY DEF Resource
<1>p. /\ r.policy.max_occupancy \in Nat /\ r.policy.period \in Nat
  BY <1>0, PolicyFields
<1>1. ~(~r.policy.enabled \/ room < 0)
  BY DEF Capacity
<1>2. CASE ~Metered(r.policy)
  <2>1. room > 0
    BY <1>1, <1>2 DEF Capacity
  <2>2. r.policy.period = 0
    BY <1>2, <1>p DEF Metered
  <2>3. (r.offered + 1) * 0 = 0
    BY <1>0
  <2> QED BY <2>1, <2>2, <2>3, <1>0, <1>p
<1>3. CASE Metered(r.policy)
  <2>1. Capacity(r) = Least({room, Tokens(r) - r.offered})
    BY <1>1, <1>3 DEF Capacity
  <2>2. r.policy.period > 0
    BY <1>3 DEF Metered
  <2>3. Tokens(r) \in Nat
    BY <2>2, <1>0, <1>p, Division DEF Tokens
  <2>4. room > 0 /\ Tokens(r) - r.offered > 0
    <3>1. room \in Int /\ Tokens(r) - r.offered \in Int
      BY <2>3, <1>0, <1>p
    <3>2. Capacity(r) =< room /\ Capacity(r) =< Tokens(r) - r.offered /\ Capacity(r) \in Int
      BY <3>1, <2>1, LeastPair
    <3> HIDE DEF room
    <3> QED BY <3>1, <3>2
  <2>5. (r.offered + 1) * r.policy.period =< r.credit
    BY <2>2, <2>3, <2>4, <1>0, <1>p, WholeTokens DEF Tokens
  <2> QED BY <2>4, <2>5, <1>0, <1>p
<1> QED BY <1>2, <1>3

(* The time of a refill is a time.                                         *)
LEMMA RefillTime ==
    ASSUME NEW r \in Resource
    PROVE  NextRefill(r) \in SUBSET Nat
<1> DEFINE p == r.policy
           missing == (r.offered + 1) * p.period - r.credit
<1>0. p \in Policies /\ r.credit \in Nat /\ r.offered \in Nat
  BY DEF Resource
<1>1. p.period \in Nat /\ p.numerator \in Nat /\ (p.period > 0 => p.numerator > 0)
  BY <1>0, PolicyFields
<1>2. missing \in Int
  BY <1>0, <1>1, Product
<1>3. ASSUME Metered(p), ~(missing =< 0)
      PROVE  (missing + p.numerator - 1) \div p.numerator \in Nat
  <2>1. p.numerator > 0
    BY <1>1, <1>3 DEF Metered
  <2> HIDE DEF missing
  <2>2. missing + p.numerator - 1 \in Nat
    BY <1>1, <1>2, <1>3, <2>1
  <2> QED BY <1>1, <2>1, <2>2, Division
<1>4. NextRefill(r) \in {{}, {0}} \/ (Metered(p) /\ ~(missing =< 0)
         /\ NextRefill(r) = {(missing + p.numerator - 1) \div p.numerator})
  BY DEF NextRefill
<1> QED BY <1>3, <1>4

(* An edit of the rate keeps the credit within the new bucket.             *)
LEMMA ConvertedFits ==
    ASSUME NEW old \in Policies, NEW p \in Policies, NEW credit \in Nat
    PROVE  Converted(old, p, credit) \in Nat /\ Converted(old, p, credit) =< Full(p)
<1>0. Full(p) \in Nat /\ p.period \in Nat /\ old.period \in Nat
  BY PolicyFields
<1>1. CASE ~Metered(p) \/ ~Metered(old)
  BY <1>0, <1>1 DEF Converted
<1>2. CASE Metered(p) /\ Metered(old)
  <2>1. old.period > 0
    BY <1>2 DEF Metered
  <2>2. credit * p.period \in Nat
    BY <1>0, Product
  <2>3. (credit * p.period) \div old.period \in Nat
    BY <1>0, <2>1, <2>2, Division
  <2>4. Converted(old, p, credit) = Least({(credit * p.period) \div old.period, Full(p)})
    BY <1>2 DEF Converted
  <2>5. \A q \in Nat : Least({q, Full(p)}) \in Nat /\ Least({q, Full(p)}) =< Full(p)
    <3> TAKE q \in Nat
    <3>0. q \in Int /\ Full(p) \in Int
      BY <1>0
    <3>1. Least({q, Full(p)}) \in {q, Full(p)} /\ Least({q, Full(p)}) =< Full(p)
      BY <3>0, LeastPair
    <3> QED BY <3>1, <1>0
  <2> QED BY <2>3, <2>4, <2>5
<1> QED BY <1>1, <1>2

(* The scheduler's next look at the resource is a time, or never.          *)
LEMMA DueTime ==
    ASSUME NEW r \in Resource, NEW f \in [Occurrences -> Request]
    PROVE  Least(Dues(r, f)) \in Nat \cup {None}
<1>1. \A o \in Occurrences : /\ f[o].expires \in Nat
                             /\ f[o].check \in Nat \cup {None}
                             /\ f[o].available \in Nat \cup {None}
  BY DEF Request
<1>2. NextRefill(r) \subseteq Nat
  BY RefillTime
<1>3. Dues(r, f) \in SUBSET Nat
  BY <1>1, <1>2 DEF Dues
<1> QED BY <1>3, LeastTime

-----------------------------------------------------------------------------
(* Counting.                                                               *)

One(b) == IF b THEN 1 ELSE 0

LEMMA OccurrencesFinite == IsFiniteSet(Occurrences)
<1>1. IsFiniteSet(Tasks) /\ MaxGeneration \in Nat
  BY AdmissionAssumption
<1>2. IsFiniteSet(1..MaxGeneration)
  BY <1>1, FS_Interval
<1> QED BY <1>1, <1>2, FS_Product DEF Occurrences

(* Sets that differ at one element at most.                                *)
LEMMA CountOne ==
    ASSUME NEW A, NEW B, NEW o, IsFiniteSet(A), IsFiniteSet(B), A \ {o} = B \ {o}
    PROVE  /\ Cardinality(A) \in Nat /\ Cardinality(B) \in Nat
           /\ Cardinality(B) = Cardinality(A) - One(o \in A) + One(o \in B)
           /\ o \in A => Cardinality(A) > 0
<1>1. /\ Cardinality(A) \in Nat /\ Cardinality(B) \in Nat
      /\ Cardinality(A \ {o}) = IF o \in A THEN Cardinality(A) - 1 ELSE Cardinality(A)
      /\ Cardinality(B \ {o}) = IF o \in B THEN Cardinality(B) - 1 ELSE Cardinality(B)
  BY FS_CardinalityType, FS_RemoveElement
<1>2. o \in A => Cardinality(A) > 0
  <2>1. o \in A => A # {}
    OBVIOUS
  <2>2. Cardinality(A) = 0 <=> A = {}
    BY FS_EmptySet
  <2> QED BY <1>1, <2>1, <2>2
<1>3. Cardinality(A \ {o}) = Cardinality(B \ {o})
  OBVIOUS
<1> QED BY <1>1, <1>2, <1>3 DEF One

(* A change of one request from a to b is booked in the row.               *)
Booked(r, a, q, b) ==
    /\ q.revision = r.revision
    /\ q.offered = r.offered - One(Offering(r, a)) + One(Offering(r, b))
    /\ q.started = r.started - One(Occupied(a)) + One(Occupied(b))
    /\ q.unknown = r.unknown - One(Unknown(a)) + One(Unknown(b))

(* Counters that count what they claim.                                    *)
LEMMA CountHas ==
    ASSUME NEW r, NEW f, Counted(r, f), NEW o \in Occurrences
    PROVE  /\ Offering(r, f[o]) => r.offered > 0
           /\ Occupied(f[o]) => r.started > 0
           /\ Unknown(f[o]) => r.unknown > 0
<1> DEFINE A == {e \in Occurrences : Offering(r, f[e])}
           B == {e \in Occurrences : Occupied(f[e])}
           C == {e \in Occurrences : Unknown(f[e])}
<1>1. IsFiniteSet(A) /\ IsFiniteSet(B) /\ IsFiniteSet(C)
  BY OccurrencesFinite, FS_Subset
<1>2. /\ o \in A <=> Offering(r, f[o])
      /\ o \in B <=> Occupied(f[o])
      /\ o \in C <=> Unknown(f[o])
  OBVIOUS
<1>3. r.offered = Cardinality(A) /\ r.started = Cardinality(B) /\ r.unknown = Cardinality(C)
  BY DEF Counted
<1> HIDE DEF A, B, C
<1>4. /\ o \in A => Cardinality(A) > 0
      /\ o \in B => Cardinality(B) > 0
      /\ o \in C => Cardinality(C) > 0
  BY <1>1, CountOne
<1> QED BY <1>2, <1>3, <1>4

LEMMA Recount ==
    ASSUME NEW r, NEW f \in [Occurrences -> Request], Counted(r, f),
           NEW o \in Occurrences, NEW q, NEW b, Booked(r, f[o], q, b)
    PROVE  Counted(q, [f EXCEPT ![o] = b])
<1> DEFINE g == [f EXCEPT ![o] = b]
           A(h) == {e \in Occurrences : Offering(r, h[e])}
           B(h) == {e \in Occurrences : Occupied(h[e])}
           C(h) == {e \in Occurrences : Unknown(h[e])}
<1>1. g[o] = b /\ \A e \in Occurrences : e # o => g[e] = f[e]
  OBVIOUS
<1>2. /\ IsFiniteSet(A(f)) /\ IsFiniteSet(B(f)) /\ IsFiniteSet(C(f))
      /\ IsFiniteSet(A(g)) /\ IsFiniteSet(B(g)) /\ IsFiniteSet(C(g))
  BY OccurrencesFinite, FS_Subset
<1> HIDE DEF g
<1>3. A(f) \ {o} = A(g) \ {o} /\ B(f) \ {o} = B(g) \ {o} /\ C(f) \ {o} = C(g) \ {o}
  BY <1>1
<1>4. /\ (o \in A(f)) = Offering(r, f[o]) /\ (o \in A(g)) = Offering(r, b)
      /\ (o \in B(f)) = Occupied(f[o]) /\ (o \in B(g)) = Occupied(b)
      /\ (o \in C(f)) = Unknown(f[o]) /\ (o \in C(g)) = Unknown(b)
  BY <1>1 DEF Offering, Unstarted, Occupied, Unknown
<1>5. r.offered = Cardinality(A(f)) /\ r.started = Cardinality(B(f)) /\ r.unknown = Cardinality(C(f))
  BY DEF Counted
<1>6. A(g) = {e \in Occurrences : Offering(q, g[e])}
  BY DEF Booked, Offering
<1> HIDE DEF A, B, C
<1>7. /\ Cardinality(A(g)) = Cardinality(A(f)) - One(o \in A(f)) + One(o \in A(g))
      /\ Cardinality(B(g)) = Cardinality(B(f)) - One(o \in B(f)) + One(o \in B(g))
      /\ Cardinality(C(g)) = Cardinality(C(f)) - One(o \in C(f)) + One(o \in C(g))
  BY <1>2, <1>3, CountOne
<1>8. q.offered = Cardinality(A(g)) /\ q.started = Cardinality(B(g)) /\ q.unknown = Cardinality(C(g))
  BY <1>4, <1>5, <1>7 DEF Booked
<1> QED BY <1>6, <1>8 DEF Counted, B, C, g

-----------------------------------------------------------------------------
(* What the operations on a request do to it and to the books.             *)

(* Request a may be changed against row r: what it counts for is counted.  *)
Stands(r, a) ==
    /\ r \in Resource /\ a \in Request /\ Backed(r) /\ a.revision =< r.revision
    /\ Offering(r, a) => r.offered > 0
    /\ Occupied(a) => r.started > 0
    /\ Unknown(a) => r.unknown > 0

(* More room is taken only by an offer, within the policy.                 *)
Within(r, q) ==
    q.offered + q.started > r.offered + r.started =>
        q.offered + q.started =< r.policy.max_occupancy /\ q.started = r.started

(* The row q books the change of a to b and gives nothing it does not      *)
(* have.                                                                   *)
Moved(r, a, q, b) ==
    /\ q \in Resource /\ b \in Request /\ b.revision =< r.revision
    /\ q.policy = r.policy /\ Booked(r, a, q, b) /\ Backed(q)
    /\ Within(r, q)

(* Who owns a request and what was said of it.                             *)
Keeps(a, b) ==
    /\ b.owner = a.owner /\ b.source = a.source /\ b.start = a.start
    /\ b.close = a.close /\ b.denied = a.denied

LEMMA ResourceFields ==
    ASSUME NEW r \in Resource
    PROVE  /\ r.revision \in 1..(MaxRevisions + 1) /\ r.revision \in Nat
           /\ r.policy \in Policies /\ r.credit \in Nat
           /\ r.offered \in Nat /\ r.started \in Nat /\ r.unknown \in Nat
           /\ r.due \in Nat \cup {None}
           /\ r.policy.period \in Nat
<1>1. /\ r.revision \in 1..(MaxRevisions + 1)
      /\ r.policy \in Policies /\ r.credit \in Nat
      /\ r.offered \in Nat /\ r.started \in Nat /\ r.unknown \in Nat
      /\ r.due \in Nat \cup {None}
  BY DEF Resource
<1>2. MaxRevisions \in Nat
  BY AdmissionAssumption
<1> QED BY <1>1, <1>2, PolicyFields

LEMMA WithinLess ==
    ASSUME NEW r \in Resource, NEW q \in Resource, q.offered + q.started =< r.offered + r.started
    PROVE  Within(r, q)
BY ResourceFields DEF Within

(* The due time is no part of the books.                                   *)
LEMMA DueMoves ==
    ASSUME NEW r \in Resource, NEW a, NEW q, NEW b, Moved(r, a, q, b), NEW d \in Nat \cup {None}
    PROVE  Moved(r, a, [q EXCEPT !.due = d], b)
<1> DEFINE z == [q EXCEPT !.due = d]
<1>1. /\ z \in Resource /\ z.revision = q.revision /\ z.policy = q.policy /\ z.credit = q.credit
      /\ z.offered = q.offered /\ z.started = q.started /\ z.unknown = q.unknown
  BY DEF Moved, Resource
<1> HIDE DEF z
<1>2. Booked(r, a, z, b)
  BY <1>1 DEF Moved, Booked
<1>3. Backed(z)
  BY <1>1 DEF Moved, Backed
<1>4. Moved(r, a, z, b)
  BY <1>1, <1>2, <1>3 DEF Moved, Within
<1> QED BY <1>4 DEF z

LEMMA WokenMoves ==
    ASSUME NEW r \in Resource, NEW a, NEW q, NEW b, Moved(r, a, q, b)
    PROVE  Moved(r, a, Woken(q), b)
<1>1. 0 \in Nat \cup {None}
  OBVIOUS
<1> QED BY <1>1, DueMoves DEF Woken

(* A change that counts for the same.                                      *)
LEMMA SameMoves ==
    ASSUME NEW r, NEW a, Stands(r, a), NEW b \in Request, b.revision =< r.revision,
           Offering(r, b) <=> Offering(r, a),
           Occupied(b) <=> Occupied(a), Unknown(b) <=> Unknown(a)
    PROVE  Moved(r, a, r, b)
<1>1. /\ One(Offering(r, b)) = One(Offering(r, a)) /\ One(Offering(r, a)) \in {0, 1}
      /\ One(Occupied(b)) = One(Occupied(a)) /\ One(Occupied(a)) \in {0, 1}
      /\ One(Unknown(b)) = One(Unknown(a)) /\ One(Unknown(a)) \in {0, 1}
  BY DEF One
<1>2. r \in Resource
  BY DEF Stands
<1>3. Booked(r, a, r, b)
  BY <1>1, <1>2, ResourceFields DEF Booked
<1> QED BY <1>2, <1>3, ResourceFields DEF Moved, Stands, Within

(* release_offer.                                                          *)
LEMMA OfferMoves ==
    ASSUME NEW r, NEW a, Stands(r, a)
    PROVE  LET x == ReleaseOffer(r, a) IN
           /\ Moved(r, a, x.r, x.a) /\ Keeps(a, x.a)
           /\ x.a.state = IF ~Unstarted(a) THEN a.state
                          ELSE IF a.owner THEN "closed_before_start" ELSE "waiting"
<1> DEFINE x == ReleaseOffer(r, a)
<1>0. r \in Resource /\ a \in Request
  BY DEF Stands
<1>1. CASE ~Unstarted(a)
  <2>1. x.r = r /\ x.a = a
    BY <1>1 DEF ReleaseOffer
  <2>2. Moved(r, a, r, a)
    BY <1>0, SameMoves DEF Stands
  <2> HIDE DEF x
  <2>3. Moved(r, a, x.r, x.a) /\ Keeps(a, x.a)
    BY <2>1, <2>2 DEF Keeps
  <2> QED BY <1>1, <2>1, <2>3 DEF x
<1>2. CASE Unstarted(a)
  <2> DEFINE q == x.r  b == x.a
  <2>1. q = Woken(IF a.revision = r.revision THEN [r EXCEPT !.offered = @ - 1] ELSE r)
    BY <1>2 DEF ReleaseOffer, ReleasedOffer
  <2>2. b = [a EXCEPT !.state = IF a.owner THEN "closed_before_start" ELSE "waiting",
                     !.revision = 0, !.expires = 0, !.check = None]
    BY <1>2 DEF ReleaseOffer, ReleasedOffer
  <2> HIDE DEF x
  <2>3. /\ b \in Request /\ b.revision = 0 /\ Keeps(a, b)
        /\ b.state = IF a.owner THEN "closed_before_start" ELSE "waiting"
    <3> DEFINE s == IF a.owner THEN "closed_before_start" ELSE "waiting"
    <3>1. s \in RequestState
      BY DEF RequestState
    <3>2. b = [a EXCEPT !.state = s, !.revision = 0, !.expires = 0, !.check = None]
      BY <2>2
    <3> HIDE DEF s
    <3> HIDE DEF b
    <3>3. b \in Request
      BY <3>1, <3>2, <1>0 DEF Request
    <3>4. b.revision = 0 /\ Keeps(a, b) /\ b.state = s
      BY <3>2, <1>0 DEF Request, Keeps
    <3> QED BY <3>3, <3>4 DEF s
  <2>4. /\ q.revision = r.revision /\ q.policy = r.policy /\ q.credit = r.credit
        /\ q.started = r.started /\ q.unknown = r.unknown
        /\ q.offered = IF a.revision = r.revision THEN r.offered - 1 ELSE r.offered
    BY <2>1, <1>0 DEF Woken, Resource
  <2>5. Offering(r, a) <=> a.revision = r.revision
    BY <1>2 DEF Offering
  <2>6. ~Offering(r, b) /\ ~Occupied(a) /\ ~Occupied(b) /\ ~Unknown(a) /\ ~Unknown(b)
    BY <1>2, <2>3 DEF Offering, Unstarted, Occupied, Unknown
  <2>7. q.offered \in Nat /\ q.offered =< r.offered
    BY <2>4, <2>5, <1>0, ResourceFields DEF Stands
  <2>8. q \in Resource
    <3>1. a.revision = r.revision => r.offered - 1 \in Nat
      BY <2>4, <2>7
    <3> QED BY <2>1, <3>1, <1>0 DEF Woken, Resource
  <2> HIDE DEF q, b
  <2>9. Booked(r, a, q, b)
    BY <2>4, <2>5, <2>6, <1>0, ResourceFields DEF Booked, One
  <2>10. Backed(q)
    <3>0. r.offered \in Nat /\ q.offered \in Nat /\ r.policy.period \in Nat /\ r.credit \in Nat
      BY <1>0, <2>7, ResourceFields
    <3>1. q.offered * r.policy.period =< r.offered * r.policy.period
      <4>1. CASE q.offered = r.offered
        BY <4>1, <3>0, Product
      <4>2. CASE q.offered = r.offered - 1 /\ r.offered > 0
        BY <4>2, <3>0, Product, ProductLess
      <4> QED BY <4>1, <4>2, <2>4, <2>7, <3>0
    <3>2. r.offered * r.policy.period \in Nat /\ q.offered * r.policy.period \in Nat
      BY <3>0, Product
    <3>3. r.offered * r.policy.period =< r.credit /\ r.credit =< Full(r.policy)
      BY DEF Stands, Backed
    <3> QED BY <3>0, <3>1, <3>2, <3>3, <2>4 DEF Backed
  <2>11. b.revision =< r.revision /\ q.offered + q.started =< r.offered + r.started
    BY <2>3, <2>4, <2>7, <1>0, ResourceFields
  <2>12. Moved(r, a, q, b)
    BY <2>3, <2>4, <2>8, <2>9, <2>10, <2>11, <1>0, WithinLess DEF Moved
  <2> QED BY <1>2, <2>3, <2>12 DEF x, q, b
<1> QED BY <1>1, <1>2

(* release_started.                                                        *)
LEMMA StartedMoves ==
    ASSUME NEW r, NEW a, Stands(r, a), NEW s \in {"finished", "administratively_released"}
    PROVE  LET x == ReleaseStarted(r, a, s) IN
           /\ Moved(r, a, x.r, x.a) /\ Keeps(a, x.a)
           /\ x.a.state = IF Occupied(a) THEN s ELSE a.state
<1> DEFINE x == ReleaseStarted(r, a, s)
<1>0. r \in Resource /\ a \in Request
  BY DEF Stands
<1>1. CASE ~Occupied(a)
  <2>1. x.r = r /\ x.a = a
    BY <1>1 DEF ReleaseStarted
  <2>2. Moved(r, a, r, a)
    BY <1>0, SameMoves DEF Stands
  <2> HIDE DEF x
  <2>3. Moved(r, a, x.r, x.a) /\ Keeps(a, x.a)
    BY <2>1, <2>2 DEF Keeps
  <2> QED BY <1>1, <2>1, <2>3 DEF x
<1>2. CASE Occupied(a)
  <2> DEFINE q == x.r  b == x.a  u == IF a.state = "unknown_occupied" THEN r.unknown - 1 ELSE r.unknown
  <2>1. q = Woken([r EXCEPT !.started = @ - 1, !.unknown = u])
    BY <1>2, <1>0 DEF ReleaseStarted, Resource
  <2>2. b = [a EXCEPT !.state = s, !.check = None]
    BY <1>2 DEF ReleaseStarted
  <2> HIDE DEF x
  <2>3. b \in Request /\ b.revision = a.revision /\ Keeps(a, b) /\ b.state = s
    BY <2>2, <1>0 DEF Request, RequestState, Keeps
  <2>4. r.started - 1 \in Nat /\ u \in Nat
    BY <1>0, <1>2, ResourceFields DEF Stands, Unknown
  <2>5. /\ q \in Resource /\ q.revision = r.revision /\ q.policy = r.policy /\ q.credit = r.credit
        /\ q.offered = r.offered /\ q.started = r.started - 1 /\ q.unknown = u
    <3> DEFINE m == [r EXCEPT !.started = @ - 1, !.unknown = u]
    <3> HIDE DEF u
    <3>1. /\ m \in Resource /\ m.revision = r.revision /\ m.policy = r.policy /\ m.credit = r.credit
          /\ m.offered = r.offered /\ m.started = r.started - 1 /\ m.unknown = u
      BY <2>4, <1>0 DEF Resource
    <3>2. q = [m EXCEPT !.due = 0]
      BY <2>1 DEF Woken
    <3> HIDE DEF m, q
    <3> QED BY <3>1, <3>2 DEF Resource
  <2>6. /\ ~Offering(r, a) /\ ~Offering(r, b) /\ ~Occupied(b) /\ ~Unknown(b)
        /\ Unknown(a) <=> a.state = "unknown_occupied"
    BY <1>2, <2>3 DEF Offering, Unstarted, Occupied, Unknown
  <2>7. Booked(r, a, q, b)
    BY <2>5, <2>6, <1>0, <1>2, ResourceFields DEF Booked, One
  <2> HIDE DEF q, b, u
  <2>8. Backed(q)
    BY <2>5 DEF Stands, Backed
  <2>9. b.revision =< r.revision /\ q.offered + q.started =< r.offered + r.started
    BY <2>3, <2>5, <1>0, ResourceFields DEF Stands
  <2>10. Moved(r, a, q, b)
    BY <2>3, <2>5, <2>7, <2>8, <2>9, <1>0, WithinLess DEF Moved
  <2> QED BY <1>2, <2>3, <2>10 DEF x, q, b
<1> QED BY <1>1, <1>2

(* A governed transition of the attempt.                                   *)
LEMMA FollowedMoves ==
    ASSUME NEW r, NEW a, Stands(r, a)
    PROVE  LET x == Followed(r, a) IN
           /\ Moved(r, a, x.r, x.a) /\ Keeps(a, x.a)
           /\ x.a.state =
                IF ~a.source
                THEN IF ~Unstarted(a) THEN a.state
                     ELSE IF a.owner THEN "closed_before_start" ELSE "waiting"
                ELSE IF a.state = "possibly_dispatched" THEN "unknown_occupied" ELSE a.state
<1> DEFINE x == Followed(r, a)
<1>0. r \in Resource /\ a \in Request
  BY DEF Stands
<1>1. CASE ~a.source
  <2>1. x = ReleaseOffer(r, a)
    BY <1>1 DEF Followed
  <2> QED BY <1>1, <2>1, OfferMoves
<1>2. CASE a.source /\ a.state # "possibly_dispatched"
  <2>1. x.r = r /\ x.a = a
    BY <1>2 DEF Followed
  <2>2. Moved(r, a, r, a)
    BY <1>0, SameMoves DEF Stands
  <2> HIDE DEF x
  <2>3. Moved(r, a, x.r, x.a) /\ Keeps(a, x.a)
    BY <2>1, <2>2 DEF Keeps
  <2> QED BY <1>2, <2>1, <2>3 DEF x
<1>3. CASE a.source /\ a.state = "possibly_dispatched"
  <2> DEFINE q == x.r  b == x.a
  <2>1. q = Woken([r EXCEPT !.unknown = @ + 1])
    BY <1>3 DEF Followed
  <2>2. b = [a EXCEPT !.state = "unknown_occupied", !.check = None]
    BY <1>3 DEF Followed
  <2> HIDE DEF x
  <2>3. b \in Request /\ b.revision = a.revision /\ Keeps(a, b) /\ b.state = "unknown_occupied"
    BY <2>2, <1>0 DEF Request, RequestState, Keeps
  <2>4. r.unknown + 1 \in Nat
    BY <1>0, ResourceFields
  <2>5. /\ q \in Resource /\ q.revision = r.revision /\ q.policy = r.policy /\ q.credit = r.credit
        /\ q.offered = r.offered /\ q.started = r.started /\ q.unknown = r.unknown + 1
    <3> DEFINE m == [r EXCEPT !.unknown = @ + 1]
    <3>1. /\ m \in Resource /\ m.revision = r.revision /\ m.policy = r.policy /\ m.credit = r.credit
          /\ m.offered = r.offered /\ m.started = r.started /\ m.unknown = r.unknown + 1
      BY <2>4, <1>0 DEF Resource
    <3>2. q = [m EXCEPT !.due = 0]
      BY <2>1 DEF Woken
    <3> HIDE DEF m, q
    <3> QED BY <3>1, <3>2 DEF Resource
  <2>6. /\ ~Offering(r, a) /\ ~Offering(r, b) /\ Occupied(a) /\ Occupied(b) /\ ~Unknown(a) /\ Unknown(b)
    BY <1>3, <2>3 DEF Offering, Unstarted, Occupied, Unknown
  <2> HIDE DEF q, b
  <2>7. Booked(r, a, q, b)
    BY <2>5, <2>6, <1>0, ResourceFields DEF Booked, One
  <2>8. Backed(q)
    BY <2>5 DEF Stands, Backed
  <2>9. b.revision =< r.revision /\ q.offered + q.started =< r.offered + r.started
    BY <2>3, <2>5, <1>0, ResourceFields DEF Stands
  <2>10. Moved(r, a, q, b)
    BY <2>3, <2>5, <2>7, <2>8, <2>9, <1>0, WithinLess DEF Moved
  <2> QED BY <1>3, <2>3, <2>10 DEF x, q, b
<1> QED BY <1>1, <1>2, <1>3

(* Details of a request that nothing counts.                               *)
LEMMA DetailMoves ==
    ASSUME NEW r \in Resource, NEW a, NEW q, NEW b, Moved(r, a, q, b), NEW c \in Request,
           c.state = b.state, c.revision = b.revision
    PROVE  Moved(r, a, q, c)
<1>1. /\ Offering(r, c) <=> Offering(r, b)
      /\ Occupied(c) <=> Occupied(b)
      /\ Unknown(c) <=> Unknown(b)
  BY DEF Offering, Unstarted, Occupied, Unknown
<1>2. Booked(r, a, q, c)
  BY <1>1 DEF Moved, Booked, One
<1> QED BY <1>2 DEF Moved

(* repark.                                                                 *)
LEMMA ReparkMoves ==
    ASSUME NEW r, NEW a, Stands(r, a)
    PROVE  LET x == Repark(r, a) IN
           /\ Moved(r, a, x.r, x.a) /\ Keeps(a, x.a)
           /\ x.a.state = IF ~Unstarted(a) THEN a.state
                          ELSE IF a.owner THEN "closed_before_start" ELSE "waiting"
<1> DEFINE x == ReleaseOffer(r, a)
           y == Repark(r, a)
<1>0. r \in Resource
  BY DEF Stands
<1>1. /\ Moved(r, a, x.r, x.a) /\ Keeps(a, x.a)
      /\ x.a.state = IF ~Unstarted(a) THEN a.state
                     ELSE IF a.owner THEN "closed_before_start" ELSE "waiting"
  BY OfferMoves
<1>2. CASE x.a.state # "waiting"
  <2>1. y = x
    BY <1>2 DEF Repark
  <2> QED BY <1>1, <2>1
<1>3. CASE x.a.state = "waiting"
  <2>1. y = [x EXCEPT !.a.available = Backoff, !.a.rewaited = TRUE]
    BY <1>3 DEF Repark
  <2>2. x = [r |-> x.r, a |-> x.a]
    BY DEF ReleaseOffer, ReleasedOffer
  <2> HIDE DEF x, y
  <2>3. y.r = x.r /\ y.a = [x.a EXCEPT !.available = Backoff, !.rewaited = TRUE]
    BY <2>1, <2>2
  <2>4. x.a \in Request /\ Backoff \in Nat
    BY <1>1, AdmissionAssumption DEF Moved
  <2>5. /\ y.a \in Request /\ y.a.state = x.a.state /\ y.a.revision = x.a.revision
        /\ Keeps(x.a, y.a)
    BY <2>3, <2>4 DEF Request, Keeps
  <2>6. Moved(r, a, y.r, y.a)
    BY <1>0, <1>1, <2>3, <2>5, DetailMoves
  <2> QED BY <1>1, <2>5, <2>6 DEF Keeps, y
<1> QED BY <1>2, <1>3

-----------------------------------------------------------------------------
(* Frames: what a step that changes one row has to show.                   *)

LEMMA RowTypes ==
    ASSUME TypeOK, NEW o \in Occurrences
    PROVE  /\ o = <<o[1], o[2]>> /\ o[1] \in Tasks /\ o[2] \in 1..MaxGeneration
           /\ resource \in Resource /\ requests[o] \in Request /\ attempts[o] \in Attempt
           /\ workers[o] \in Stage /\ tasks[o[1]] \in Task
BY DEF TypeOK, Occurrences

LEMMA HereStands ==
    ASSUME TypeOK, Books, NEW o \in Occurrences
    PROVE  Stands(resource, requests[o])
<1>1. /\ Offering(resource, requests[o]) => resource.offered > 0
      /\ Occupied(requests[o]) => resource.started > 0
      /\ Unknown(requests[o]) => resource.unknown > 0
  BY CountHas DEF Books
<1> QED BY <1>1, RowTypes DEF Stands, Books, Epochs

(* One request changes, and the row with it.                               *)
LEMMA BooksMove ==
    ASSUME TypeOK, Books, NEW o \in Occurrences, NEW b,
           Moved(resource, requests[o], resource', b), requests' = [requests EXCEPT ![o] = b]
    PROVE  /\ resource' \in Resource /\ requests' \in [Occurrences -> Request]
           /\ Books'
<1>0. resource \in Resource /\ requests \in [Occurrences -> Request]
  BY DEF TypeOK
<1>1. resource' \in Resource /\ b \in Request /\ Backed(resource')
  BY DEF Moved
<1>2. requests' \in [Occurrences -> Request]
  BY <1>0, <1>1
<1>3. Counted(resource', requests')
  BY <1>0, Recount DEF Books, Moved
<1>4. Epochs'
  <2>1. resource'.revision = resource.revision /\ b.revision =< resource.revision
    BY DEF Moved, Booked
  <2> QED BY <1>0, <2>1 DEF Books, Epochs
<1> QED BY <1>1, <1>2, <1>3, <1>4 DEF Books

(* One request changes and another one begins to wait.                     *)
LEMMA BooksRegister ==
    ASSUME TypeOK, Books, NEW o \in Occurrences, NEW b,
           Moved(resource, requests[o], resource', b),
           NEW n \in Occurrences, n # o, requests[n].state = "none",
           NEW w \in Request, w.state = "waiting", w.revision = 0,
           requests' = [requests EXCEPT ![o] = b, ![n] = w]
    PROVE  /\ resource' \in Resource /\ requests' \in [Occurrences -> Request]
           /\ Books'
<1> DEFINE f == [requests EXCEPT ![o] = b]
<1>0. resource \in Resource /\ requests \in [Occurrences -> Request]
  BY DEF TypeOK
<1>1. resource' \in Resource /\ b \in Request /\ Backed(resource')
  BY DEF Moved
<1>2. f \in [Occurrences -> Request] /\ f[n] = requests[n] /\ requests' = [f EXCEPT ![n] = w]
  BY <1>0, <1>1
<1>3. Counted(resource', f)
  BY <1>0, Recount DEF Books, Moved
<1> HIDE DEF f
<1>4. /\ ~Offering(resource', f[n]) /\ ~Occupied(f[n]) /\ ~Unknown(f[n])
      /\ ~Offering(resource', w) /\ ~Occupied(w) /\ ~Unknown(w)
  BY <1>2 DEF Offering, Unstarted, Occupied, Unknown
<1>5. Booked(resource', f[n], resource', w)
  BY <1>1, <1>4, ResourceFields DEF Booked, One
<1>6. Counted(resource', requests')
  <2>1. f \in [Occurrences -> Request]
    BY <1>2
  <2>2. Counted(resource', [f EXCEPT ![n] = w])
    BY <2>1, <1>3, <1>5, Recount
  <2> QED BY <1>2, <2>2
<1>7. Epochs'
  <2>1. resource'.revision = resource.revision /\ b.revision =< resource.revision
    BY DEF Moved, Booked
  <2>2. w.revision =< resource.revision
    BY <1>0, ResourceFields
  <2> QED BY <1>0, <2>1, <2>2 DEF Books, Epochs
<1> QED BY <1>1, <1>2, <1>6, <1>7 DEF Books

(* What Fits asks of a task.                                               *)
LEMMA FitsSame ==
    ASSUME NEW k, NEW m, m.state = k.state, m.generation = k.generation, m.ready = k.ready,
           NEW g, NEW a, NEW x, NEW w
    PROVE  /\ Fits(k, g, a, x, w) <=> Fits(m, g, a, x, w)
           /\ TaskFits(k) <=> TaskFits(m)
BY DEF Fits, NextFits, TaskFits

(* Only occurrence o changes, and nothing Fits asks of its task.           *)
LEMMA RowFrame ==
    ASSUME TypeOK, Rows, NEW o \in Occurrences,
           \A t \in Tasks : /\ tasks'[t].state = tasks[t].state
                            /\ tasks'[t].generation = tasks[t].generation
                            /\ tasks'[t].ready = tasks[t].ready,
           \A e \in Occurrences : e # o =>
               requests'[e] = requests[e] /\ attempts'[e] = attempts[e] /\ workers'[e] = workers[e],
           Fits(tasks[o[1]], o[2], requests'[o], attempts'[o], workers'[o])
    PROVE  Rows'
<1>1. \A t \in Tasks : TaskFits(tasks'[t])
  BY FitsSame DEF Rows
<1>2. ASSUME NEW e \in Occurrences
      PROVE  Fits(tasks'[e[1]], e[2], requests'[e], attempts'[e], workers'[e])
  <2>1. e[1] \in Tasks
    BY RowTypes
  <2>2. Fits(tasks[e[1]], e[2], requests'[e], attempts'[e], workers'[e])
    BY DEF Rows
  <2> QED BY <2>1, <2>2, FitsSame
<1> QED BY <1>1, <1>2 DEF Rows

(* Only occurrences of task t change, and the task.                        *)
LEMMA TaskFrame ==
    ASSUME TypeOK, Rows, NEW t \in Tasks,
           \A u \in Tasks : u # t => tasks'[u] = tasks[u],
           \A e \in Occurrences : e[1] # t =>
               requests'[e] = requests[e] /\ attempts'[e] = attempts[e] /\ workers'[e] = workers[e],
           TaskFits(tasks'[t]),
           \A g \in 1..MaxGeneration :
               Fits(tasks'[t], g, requests'[<<t, g>>], attempts'[<<t, g>>], workers'[<<t, g>>])
    PROVE  Rows'
<1>1. \A u \in Tasks : TaskFits(tasks'[u])
  BY DEF Rows
<1>2. ASSUME NEW e \in Occurrences
      PROVE  Fits(tasks'[e[1]], e[2], requests'[e], attempts'[e], workers'[e])
  <2>1. e = <<e[1], e[2]>> /\ e[1] \in Tasks /\ e[2] \in 1..MaxGeneration
    BY RowTypes
  <2>2. CASE e[1] = t
    BY <2>1, <2>2
  <2>3. CASE e[1] # t
    BY <2>1, <2>3 DEF Rows
  <2> QED BY <2>2, <2>3
<1> QED BY <1>1, <1>2 DEF Rows

(* The line.                                                               *)
LEMMA LineFrame ==
    ASSUME Line, line' = line,
           \A e \in Occurrences : requests'[e].state = "waiting" <=> requests[e].state = "waiting"
    PROVE  Line'
BY DEF Line, InLine, Once

LEMMA AppendIs ==
    ASSUME NEW s \in Seq(Occurrences), NEW o \in Occurrences, ~InLine(s, o), Once(s)
    PROVE  /\ Append(s, o) \in Seq(Occurrences) /\ Once(Append(s, o))
           /\ \A e \in Occurrences : InLine(Append(s, o), e) <=> InLine(s, e) \/ e = o
<1> DEFINE z == Append(s, o)
<1>1. /\ z \in Seq(Occurrences) /\ Len(z) = Len(s) + 1 /\ DOMAIN z = 1..(Len(s) + 1)
      /\ DOMAIN s = 1..Len(s) /\ Len(s) \in Nat
      /\ z[Len(s) + 1] = o /\ \A i \in 1..Len(s) : z[i] = s[i]
  OBVIOUS
<1> HIDE DEF z
<1>2. Once(z)
  BY <1>1 DEF Once, InLine
<1>3. ASSUME NEW e \in Occurrences PROVE InLine(z, e) <=> InLine(s, e) \/ e = o
  BY <1>1 DEF InLine
<1> QED BY <1>1, <1>2, <1>3 DEF z

LEMMA WithoutIs ==
    ASSUME NEW s \in Seq(Occurrences), NEW o \in Occurrences, Once(s)
    PROVE  /\ Without(s, o) \in Seq(Occurrences) /\ Once(Without(s, o))
           /\ \A e \in Occurrences : InLine(Without(s, o), e) <=> InLine(s, e) /\ e # o
<1> DEFINE z == Without(s, o)
           at == CHOOSE i \in DOMAIN s : s[i] = o
<1>1. DOMAIN s = 1..Len(s) /\ Len(s) \in Nat /\ \A i \in 1..Len(s) : s[i] \in Occurrences
  OBVIOUS
<1>2. CASE \A i \in DOMAIN s : s[i] # o
  BY <1>2 DEF Without, InLine
<1>3. CASE ~\A i \in DOMAIN s : s[i] # o
  <2>1. at \in 1..Len(s) /\ s[at] = o
    BY <1>1, <1>3
  <2>2. z = [i \in 1..(Len(s) - 1) |-> IF i < at THEN s[i] ELSE s[i + 1]]
    BY <1>3 DEF Without
  <2> HIDE DEF z, at
  <2>3. /\ DOMAIN z = 1..(Len(s) - 1) /\ Len(s) - 1 \in Nat
        /\ \A i \in 1..(Len(s) - 1) : z[i] = IF i < at THEN s[i] ELSE s[i + 1]
        /\ \A i \in 1..(Len(s) - 1) : i \in 1..Len(s) /\ i + 1 \in 1..Len(s)
    BY <1>1, <2>1, <2>2
  <2>4. z \in [1..(Len(s) - 1) -> Occurrences]
    BY <1>1, <2>2, <2>3
  <2>5. z \in Seq(Occurrences)
    BY <2>3, <2>4
  <2> DEFINE h(i) == IF i < at THEN i ELSE i + 1
  <2>h. /\ \A i \in DOMAIN z : z[i] = s[h(i)] /\ h(i) \in DOMAIN s /\ h(i) # at
        /\ \A i, j \in DOMAIN z : h(i) = h(j) => i = j
    BY <1>1, <2>1, <2>3
  <2> HIDE DEF h
  <2>6. Once(z)
    BY <2>h DEF Once
  <2>7. ASSUME NEW e \in Occurrences PROVE InLine(z, e) => InLine(s, e) /\ e # o
    <3>1. SUFFICES ASSUME NEW i \in DOMAIN z, z[i] = e PROVE InLine(s, e) /\ e # o
      BY DEF InLine
    <3>2. s[h(i)] = e /\ h(i) \in DOMAIN s /\ h(i) # at /\ at \in DOMAIN s
      BY <1>1, <2>1, <2>h, <3>1
    <3>3. e # o
      BY <2>1, <3>2 DEF Once
    <3> QED BY <3>2, <3>3 DEF InLine
  <2>8. ASSUME NEW e \in Occurrences PROVE InLine(s, e) /\ e # o => InLine(z, e)
    <3>1. SUFFICES ASSUME NEW i \in DOMAIN s, s[i] = e, e # o PROVE InLine(z, e)
      BY DEF InLine
    <3>2. CASE i < at
      <4>1. i \in DOMAIN z /\ z[i] = e
        BY <1>1, <2>1, <2>3, <3>1, <3>2
      <4> QED BY <4>1 DEF InLine
    <3>3. CASE i > at
      <4>1. i - 1 \in DOMAIN z /\ z[i - 1] = e
        BY <1>1, <2>1, <2>3, <3>1, <3>3
      <4> QED BY <4>1 DEF InLine
    <3> QED BY <1>1, <2>1, <3>1, <3>2, <3>3
  <2> QED BY <2>5, <2>6, <2>7, <2>8 DEF z
<1> QED BY <1>2, <1>3

(* A step that leaves the books and the line alone.                        *)
LEMMA QuietStep ==
    ASSUME AInv, NEW o \in Occurrences, UNCHANGED <<resource, line, requests, tasks>>,
           attempts' \in [Occurrences -> Attempt], workers' \in [Occurrences -> Stage],
           \A e \in Occurrences : e # o => attempts'[e] = attempts[e] /\ workers'[e] = workers[e],
           Fits(tasks[o[1]], o[2], requests[o], attempts'[o], workers'[o])
    PROVE  AInv' /\ Within(resource, resource')
<1>1. TypeOK'
  BY DEF AInv, TypeOK
<1>2. Books'
  BY DEF AInv, Books, Epochs
<1>3. Rows'
  BY RowFrame DEF AInv
<1>4. Line'
  BY LineFrame DEF AInv
<1>5. Within(resource, resource')
  BY WithinLess, ResourceFields DEF AInv, TypeOK
<1> QED BY <1>1, <1>2, <1>3, <1>4, <1>5 DEF AInv

(* A step that changes request o, and nothing Fits asks of its task.       *)
LEMMA RequestStep ==
    ASSUME AInv, NEW o \in Occurrences, NEW b,
           Moved(resource, requests[o], resource', b), requests' = [requests EXCEPT ![o] = b],
           line' = line, b.state = "waiting" <=> requests[o].state = "waiting",
           tasks' \in [Tasks -> Task],
           \A t \in Tasks : /\ tasks'[t].state = tasks[t].state
                            /\ tasks'[t].generation = tasks[t].generation
                            /\ tasks'[t].ready = tasks[t].ready,
           attempts' \in [Occurrences -> Attempt], workers' \in [Occurrences -> Stage],
           \A e \in Occurrences : e # o => attempts'[e] = attempts[e] /\ workers'[e] = workers[e],
           Fits(tasks[o[1]], o[2], b, attempts'[o], workers'[o])
    PROVE  AInv' /\ Within(resource, resource')
<1>0. TypeOK /\ Books /\ Rows /\ Line /\ requests \in [Occurrences -> Request]
  BY DEF AInv, TypeOK
<1>1. resource' \in Resource /\ requests' \in [Occurrences -> Request] /\ Books'
  BY <1>0, BooksMove
<1>2. TypeOK'
  BY <1>0, <1>1 DEF TypeOK
<1>3. requests'[o] = b /\ \A e \in Occurrences : e # o => requests'[e] = requests[e]
  BY <1>0
<1>4. Rows'
  BY <1>0, <1>3, RowFrame
<1>5. Line'
  BY <1>0, <1>3, LineFrame
<1> QED BY <1>1, <1>2, <1>4, <1>5 DEF AInv, Moved

(* The row of an attempt that has an owner.                                *)
LEMMA FitsOwned ==
    ASSUME NEW k \in Task, NEW g \in Nat, NEW a, NEW x, NEW w, Fits(k, g, a, x, w), a.owner,
           NEW b, NEW y, NEW v, b.owner, b.state # "none", Valid(b), b.source = y.started,
           y.state = x.state, y.state = "deferred" => ~y.started,
           v \in {"granted", "running"} => Occupied(b) \/ b.state = "administratively_released"
    PROVE  Fits(k, g, b, y, v)
<1>1. k.generation \in Nat
  BY AdmissionAssumption DEF Task
<1>2. g =< k.generation
  BY <1>1 DEF Fits
<1> QED BY <1>1, <1>2 DEF Fits

(* What the invariant says of one occurrence.                              *)
LEMMA RowFacts ==
    ASSUME AInv, NEW o \in Occurrences
    PROVE  /\ o = <<o[1], o[2]>> /\ o[1] \in Tasks /\ o[2] \in 1..MaxGeneration /\ o[2] \in Nat
           /\ resource \in Resource /\ requests[o] \in Request /\ attempts[o] \in Attempt
           /\ workers[o] \in Stage /\ tasks[o[1]] \in Task
           /\ Stands(resource, requests[o])
           /\ Fits(tasks[o[1]], o[2], requests[o], attempts[o], workers[o])
           /\ Valid(requests[o]) /\ requests[o].source = attempts[o].started
           /\ TaskFits(tasks[o[1]])
<1>1. Fits(tasks[o[1]], o[2], requests[o], attempts[o], workers[o])
  BY DEF AInv, Rows
<1>2. Valid(requests[o]) /\ requests[o].source = attempts[o].started
  BY <1>1 DEF Fits
<1>3. 1..MaxGeneration \subseteq Nat
  BY AdmissionAssumption
<1> QED BY <1>1, <1>2, <1>3, RowTypes, HereStands DEF AInv, Rows

LEMMA StateTypes ==
    ASSUME AInv
    PROVE  /\ resource \in Resource /\ line \in Seq(Occurrences)
           /\ requests \in [Occurrences -> Request] /\ tasks \in [Tasks -> Task]
           /\ attempts \in [Occurrences -> Attempt] /\ workers \in [Occurrences -> Stage]
BY DEF AInv, TypeOK

(* The worker by itself.                                                   *)
LEMMA WorkKeeps ==
    ASSUME AInv, NEW o \in Occurrences, Work(o)
    PROVE  AInv' /\ Within(resource, resource')
<1>0. PICK stages \in {<<"preparing", "asked">>, <<"preparing", "failed">>,
                       <<"preparing", "quit">>, <<"asked", "quit">>, <<"granted", "quit">>,
                       <<"granted", "running">>, <<"running", "stopped">>, <<"failed", "stopped">>} :
         workers[o] = stages[1] /\ workers' = [workers EXCEPT ![o] = stages[2]]
  BY DEF Work
<1> DEFINE v == stages[2]
<1>1. /\ v \in Stage /\ workers' = [workers EXCEPT ![o] = v]
      /\ v = "running" => workers[o] = "granted"
      /\ v # "granted" /\ workers[o] # "none"
  BY <1>0 DEF Stage
<1> HIDE DEF v
<1>2. UNCHANGED <<resource, line, requests, tasks>> /\ attempts' = attempts
  BY DEF Work
<1>3. workers' \in [Occurrences -> Stage] /\ workers'[o] = v
  BY <1>1, StateTypes
<1>4. Fits(tasks[o[1]], o[2], requests[o], attempts'[o], workers'[o])
  BY <1>1, <1>2, <1>3, RowFacts DEF Fits
<1> QED BY <1>1, <1>2, <1>3, <1>4, QuietStep, StateTypes

LEMMA StartExistingKeeps ==
    ASSUME AInv, NEW o \in Occurrences, StartExisting(o)
    PROVE  AInv' /\ Within(resource, resource')
<1>1. /\ workers' = [workers EXCEPT ![o] = "quit"] /\ workers[o] # "none"
      /\ UNCHANGED <<resource, line, requests, tasks>> /\ attempts' = attempts
  BY DEF StartExisting
<1>2. workers' \in [Occurrences -> Stage] /\ workers'[o] = "quit"
  BY <1>1, StateTypes DEF Stage
<1>3. Fits(tasks[o[1]], o[2], requests[o], attempts'[o], workers'[o])
  BY <1>1, <1>2, RowFacts DEF Fits
<1> QED BY <1>1, <1>2, <1>3, QuietStep, StateTypes

(* The current attempt of an active task.                                  *)
LEMMA ActiveRow ==
    ASSUME AInv, NEW t \in Tasks, tasks[t].state = "active"
    PROVE  /\ Now(t) \in Occurrences /\ Now(t)[1] = t /\ Now(t)[2] = tasks[t].generation
           /\ requests[Now(t)].owner /\ attempts[Now(t)].state = "active"
           /\ requests[Now(t)].state # "none"
<1>1. tasks[t] \in Task /\ TaskFits(tasks[t])
  BY DEF AInv, TypeOK, Rows
<1>2. tasks[t].generation \in 1..MaxGeneration
  BY <1>1, AdmissionAssumption DEF Task, TaskFits
<1>3. Now(t) \in Occurrences /\ Now(t)[1] = t /\ Now(t)[2] = tasks[t].generation
  BY <1>2 DEF Now, Occurrences
<1>4. Fits(tasks[t], tasks[t].generation, requests[Now(t)], attempts[Now(t)], workers[Now(t)])
  BY <1>3, RowFacts
<1>5. tasks[t].generation =< tasks[t].generation
  BY <1>2
<1> QED BY <1>3, <1>4, <1>5 DEF Fits

LEMMA RenewKeeps ==
    ASSUME AInv, NEW t \in Tasks, Renew(t)
    PROVE  AInv' /\ Within(resource, resource')
<1> DEFINE o == Now(t)
<1>1. /\ attempts' = [attempts EXCEPT ![o].lease = Lease] /\ tasks[t].state = "active"
      /\ UNCHANGED <<resource, line, requests, tasks>> /\ workers' = workers
  BY DEF Renew
<1>2. o \in Occurrences /\ o[1] = t /\ requests[o].owner /\ requests[o].state # "none"
  BY <1>1, ActiveRow
<1> HIDE DEF o
<1>3. attempts \in [Occurrences -> Attempt] /\ Lease \in Nat
  BY StateTypes, AdmissionAssumption
<1>4. /\ attempts' \in [Occurrences -> Attempt]
      /\ attempts'[o].state = attempts[o].state /\ attempts'[o].started = attempts[o].started
      /\ \A e \in Occurrences : e # o => attempts'[e] = attempts[e]
  BY <1>1, <1>2, <1>3 DEF Attempt
<1>5. Fits(tasks[o[1]], o[2], requests[o], attempts'[o], workers'[o])
  <2>1. Fits(tasks[o[1]], o[2], requests[o], attempts[o], workers[o])
    BY <1>2, RowFacts
  <2> QED BY <1>1, <1>2, <1>4, <2>1, RowFacts, FitsOwned DEF Fits
<1> QED BY <1>1, <1>2, <1>4, <1>5, QuietStep, StateTypes

-----------------------------------------------------------------------------
(* Steps of one request.                                                   *)

(* What the operations leave of an owned request is valid.                 *)
LEMMA OwnedValid ==
    ASSUME NEW a \in Request, Valid(a), a.owner, NEW b \in Request, Keeps(a, b),
           \/ b.state = a.state
           \/ Unstarted(a) /\ b.state = "closed_before_start"
           \/ a.state = "possibly_dispatched" /\ b.state = "unknown_occupied"
           \/ Occupied(a) /\ b.state = "administratively_released"
    PROVE  Valid(b)
BY DEF Valid, Keeps, Unstarted, Occupied, Request

LEMMA ReplyTypes ==
    ASSUME AInv, NEW o \in Occurrences, ReplyExisting(o)
    PROVE  /\ workers' \in [Occurrences -> Stage]
           /\ \A e \in Occurrences : e # o => workers'[e] = workers[e]
           /\ workers'[o] \in {"granted", "running"} => workers[o] \in {"granted", "running"}
BY StateTypes DEF ReplyExisting, Stage

(* Where the worker of an owned request may still be at work.              *)
LEMMA Invoked ==
    ASSUME AInv, NEW o \in Occurrences, workers[o] \in {"granted", "running"}
    PROVE  Occupied(requests[o]) \/ requests[o].state = "administratively_released"
BY RowFacts DEF Fits

LEMMA StartStaleKeeps ==
    ASSUME AInv, NEW o \in Occurrences, StartStale(o)
    PROVE  AInv' /\ Within(resource, resource')
<1> DEFINE a == requests[o]  x == ReleaseOffer(resource, a)
<1>1. /\ a.state = "preparing" /\ resource' = x.r /\ requests' = [requests EXCEPT ![o] = x.a]
      /\ ReplyExisting(o) /\ UNCHANGED <<line, tasks, attempts>>
  BY DEF StartStale, Set
<1>2. /\ Stands(resource, a) /\ a \in Request /\ Valid(a) /\ a.source = attempts[o].started
      /\ Fits(tasks[o[1]], o[2], a, attempts[o], workers[o]) /\ tasks[o[1]] \in Task /\ o[2] \in Nat
  BY RowFacts
<1>3. a.owner
  BY <1>1, <1>2 DEF Valid
<1>4. /\ Moved(resource, a, x.r, x.a) /\ Keeps(a, x.a) /\ x.a.state = "closed_before_start"
  BY <1>1, <1>2, <1>3, OfferMoves DEF Unstarted
<1> HIDE DEF x
<1>5. x.a \in Request /\ x.a.owner /\ x.a.source = attempts[o].started
  BY <1>2, <1>3, <1>4 DEF Moved, Keeps
<1>6. Valid(x.a)
  BY <1>1, <1>2, <1>3, <1>4, <1>5, OwnedValid DEF Unstarted
<1>7. workers'[o] \notin {"granted", "running"}
  BY <1>1, ReplyTypes, Invoked DEF Occupied
<1>8. attempts[o].state = "deferred" => ~attempts[o].started
  BY <1>2 DEF Fits
<1>9. Fits(tasks[o[1]], o[2], x.a, attempts'[o], workers'[o])
  BY <1>1, <1>2, <1>3, <1>4, <1>5, <1>6, <1>7, <1>8, FitsOwned
<1> QED BY <1>1, <1>4, <1>9, ReplyTypes, RequestStep, StateTypes

LEMMA ReleaseKeeps ==
    ASSUME AInv, NEW o \in Occurrences, Release(o)
    PROVE  AInv' /\ Within(resource, resource')
<1> DEFINE a == requests[o]  x == ReleaseStarted(resource, a, "administratively_released")
<1>1. /\ Occupied(a) /\ resource' = x.r /\ requests' = [requests EXCEPT ![o] = x.a]
      /\ UNCHANGED <<line, tasks, attempts, workers>>
  BY DEF Release, Set
<1>2. /\ Stands(resource, a) /\ a \in Request /\ Valid(a) /\ a.source = attempts[o].started
      /\ Fits(tasks[o[1]], o[2], a, attempts[o], workers[o]) /\ tasks[o[1]] \in Task /\ o[2] \in Nat
  BY RowFacts
<1>3. a.owner
  BY <1>1, <1>2 DEF Valid, Occupied
<1>4. /\ Moved(resource, a, x.r, x.a) /\ Keeps(a, x.a) /\ x.a.state = "administratively_released"
  BY <1>1, <1>2, StartedMoves
<1> HIDE DEF x
<1>5. x.a \in Request /\ x.a.owner /\ x.a.source = attempts[o].started
  BY <1>2, <1>3, <1>4 DEF Moved, Keeps
<1>6. Valid(x.a)
  BY <1>1, <1>2, <1>3, <1>4, <1>5, OwnedValid
<1>8. attempts[o].state = "deferred" => ~attempts[o].started
  BY <1>2 DEF Fits
<1>9. Fits(tasks[o[1]], o[2], x.a, attempts'[o], workers'[o])
  BY <1>1, <1>2, <1>3, <1>4, <1>5, <1>6, <1>8, FitsOwned
<1>10. a.state # "waiting"
  BY <1>1 DEF Occupied
<1> QED BY <1>1, <1>4, <1>9, <1>10, RequestStep, StateTypes

(* refresh_due at the end of a scheduler transaction.                      *)
LEMMA RefreshMoves ==
    ASSUME AInv, NEW o \in Occurrences, NEW x, Moved(resource, requests[o], x.r, x.a),
           SetRefreshed(o, x)
    PROVE  /\ requests' = [requests EXCEPT ![o] = x.a]
           /\ Moved(resource, requests[o], resource', x.a)
<1> DEFINE f == [requests EXCEPT ![o] = x.a]
<1>1. requests' = f /\ resource' = [x.r EXCEPT !.due = Least(Dues(x.r, f))]
  BY DEF SetRefreshed
<1>2. f \in [Occurrences -> Request] /\ x.r \in Resource /\ resource \in Resource
  BY StateTypes DEF Moved
<1> HIDE DEF f
<1>3. Least(Dues(x.r, f)) \in Nat \cup {None}
  BY <1>2, DueTime
<1> QED BY <1>1, <1>2, <1>3, DueMoves DEF f

LEMMA TickStartedKeeps ==
    ASSUME AInv, NEW o \in Occurrences, TickStarted(o)
    PROVE  AInv' /\ Within(resource, resource')
<1> DEFINE a == requests[o]
           live == Current(o) /\ ~tasks[o[1]].cancel /\ attempts[o].lease > 0
           x == IF live THEN [r |-> resource, a |-> [a EXCEPT !.check = attempts[o].lease]]
                ELSE Followed(resource, a)
<1>1. /\ a.state = "possibly_dispatched" /\ SetRefreshed(o, x)
      /\ UNCHANGED <<line, tasks, attempts, workers>>
  BY DEF TickStarted
<1>2. /\ Stands(resource, a) /\ a \in Request /\ Valid(a) /\ a.source = attempts[o].started
      /\ Fits(tasks[o[1]], o[2], a, attempts[o], workers[o]) /\ tasks[o[1]] \in Task /\ o[2] \in Nat
      /\ attempts[o].lease \in Nat
  BY RowFacts DEF Attempt
<1>3. a.owner /\ a.source
  BY <1>1, <1>2 DEF Valid
<1>4. /\ Moved(resource, a, x.r, x.a) /\ Keeps(a, x.a)
      /\ x.a.state \in {"possibly_dispatched", "unknown_occupied"}
  <2>1. CASE live
    <3>1. x.r = resource /\ x.a = [a EXCEPT !.check = attempts[o].lease]
      BY <2>1
    <3> DEFINE b == x.a
    <3> HIDE DEF live, x
    <3>2. b \in Request /\ b.state = a.state /\ b.revision = a.revision /\ Keeps(a, b)
      BY <1>2, <3>1 DEF Request, Keeps
    <3>3. Moved(resource, a, resource, a) /\ resource \in Resource
      BY <1>2, SameMoves DEF Stands
    <3>4. Moved(resource, a, resource, b)
      BY <3>2, <3>3, DetailMoves
    <3> QED BY <1>1, <3>1, <3>2, <3>4
  <2>2. CASE ~live
    <3>1. x = Followed(resource, a)
      BY <2>2
    <3> HIDE DEF live, x
    <3> QED BY <1>1, <1>2, <1>3, <3>1, FollowedMoves
  <2> QED BY <2>1, <2>2
<1> HIDE DEF x
<1>5. x.a \in Request /\ x.a.owner /\ x.a.source = attempts[o].started
  BY <1>2, <1>3, <1>4 DEF Moved, Keeps
<1>6. Valid(x.a) /\ Occupied(x.a)
  BY <1>1, <1>2, <1>3, <1>4, <1>5, OwnedValid DEF Occupied
<1>8. attempts[o].state = "deferred" => ~attempts[o].started
  BY <1>2 DEF Fits
<1>9. Fits(tasks[o[1]], o[2], x.a, attempts'[o], workers'[o])
  BY <1>1, <1>2, <1>3, <1>4, <1>5, <1>6, <1>8, FitsOwned
<1>10. requests' = [requests EXCEPT ![o] = x.a] /\ Moved(resource, a, resource', x.a)
  BY <1>1, <1>4, RefreshMoves
<1> QED BY <1>1, <1>4, <1>9, <1>10, RequestStep, StateTypes

LEMMA TickPromoteKeeps ==
    ASSUME AInv, NEW o \in Occurrences, TickPromote(o)
    PROVE  AInv' /\ Within(resource, resource')
<1> DEFINE a == requests[o]  b == [a EXCEPT !.available = None]  x == [r |-> resource, a |-> b]
<1>1. /\ a.state = "waiting" /\ SetRefreshed(o, x)
      /\ UNCHANGED <<line, tasks, attempts, workers>>
  BY DEF TickPromote
<1>2. /\ Stands(resource, a) /\ a \in Request
      /\ Fits(tasks[o[1]], o[2], a, attempts[o], workers[o])
  BY RowFacts
<1>3. b \in Request /\ b.state = a.state /\ b.revision = a.revision /\ Keeps(a, b)
  BY <1>2 DEF Request, Keeps
<1>4. x.r = resource /\ x.a = b
  OBVIOUS
<1> HIDE DEF x, b
<1>5. Moved(resource, a, resource, a) /\ resource \in Resource
  BY <1>2, SameMoves DEF Stands
<1>6. Moved(resource, a, x.r, x.a)
  BY <1>3, <1>4, <1>5, DetailMoves
<1>7. requests' = [requests EXCEPT ![o] = b] /\ Moved(resource, a, resource', b)
  BY <1>1, <1>4, <1>6, RefreshMoves
<1>8. Fits(tasks[o[1]], o[2], b, attempts'[o], workers'[o])
  BY <1>1, <1>2, <1>3 DEF Fits, NextFits, Valid, Keeps, Occupied
<1> QED BY <1>1, <1>3, <1>7, <1>8, RequestStep, StateTypes

(* The transaction that charges the resource.                              *)
LEMMA ChargeMoves ==
    ASSUME NEW r, NEW a, Stands(r, a), Offering(r, a), NEW b \in Request,
           b.state = "possibly_dispatched", b.revision = 0
    PROVE  Moved(r, a, Woken([r EXCEPT !.offered = @ - 1, !.started = @ + 1,
                                       !.credit = @ - r.policy.period]), b)
<1> DEFINE p == r.policy.period
           m == [r EXCEPT !.offered = @ - 1, !.started = @ + 1, !.credit = @ - r.policy.period]
<1>0. /\ r \in Resource /\ a \in Request /\ r.offered \in Nat /\ r.offered > 0 /\ r.started \in Nat
      /\ r.credit \in Nat /\ p \in Nat /\ r.revision \in Nat /\ r.unknown \in Nat
  BY ResourceFields DEF Stands
<1>1. r.offered * p =< r.credit /\ r.credit =< Full(r.policy)
  BY DEF Stands, Backed
<1>f. Full(r.policy) \in Nat
  BY <1>0, ResourceFields, PolicyFields
<1> HIDE DEF p
<1>2. (r.offered - 1) * p = r.offered * p - p /\ p =< r.offered * p /\ r.offered * p \in Nat
  BY <1>0, Product, ProductLess
<1>3. /\ r.credit - p \in Nat /\ (r.offered - 1) * p =< r.credit - p
      /\ r.credit - p =< Full(r.policy)
  BY <1>0, <1>1, <1>2, <1>f
<1>4. /\ m \in Resource /\ m.revision = r.revision /\ m.policy = r.policy
      /\ m.credit = r.credit - p /\ m.offered = r.offered - 1 /\ m.started = r.started + 1
      /\ m.unknown = r.unknown
  <2>1. r.offered - 1 \in Nat /\ r.started + 1 \in Nat /\ r.credit - r.policy.period \in Nat
    BY <1>0, <1>3 DEF p
  <2>2. m \in Resource
    BY <1>0, <2>1 DEF Resource
  <2>3. /\ m.revision = r.revision /\ m.policy = r.policy /\ m.credit = r.credit - r.policy.period
        /\ m.offered = r.offered - 1 /\ m.started = r.started + 1 /\ m.unknown = r.unknown
    BY <1>0 DEF Resource
  <2> QED BY <2>2, <2>3 DEF p
<1> HIDE DEF m
<1>5. Backed(m)
  BY <1>3, <1>4 DEF Backed, p
<1>6. /\ ~Offering(r, b) /\ ~Occupied(a) /\ Occupied(b) /\ ~Unknown(a) /\ ~Unknown(b)
  BY DEF Offering, Unstarted, Occupied, Unknown
<1>7. Booked(r, a, m, b)
  BY <1>0, <1>4, <1>6 DEF Booked, One
<1>8. Moved(r, a, m, b)
  <2>1. m.offered + m.started =< r.offered + r.started
    BY <1>0, <1>4
  <2> QED BY <1>0, <1>4, <1>5, <1>7, <2>1, WithinLess DEF Moved
<1>9. Moved(r, a, Woken(m), b)
  BY <1>0, <1>8, WokenMoves
<1> QED BY <1>9 DEF m

LEMMA StartGrantedKeeps ==
    ASSUME AInv, NEW o \in Occurrences, StartGranted(o)
    PROVE  AInv' /\ Within(resource, resource')
<1> DEFINE a == requests[o]
           b == [a EXCEPT !.state = "possibly_dispatched", !.source = TRUE, !.start = TRUE,
                          !.revision = 0, !.expires = 0, !.check = attempts[o].lease]
           q == Woken([resource EXCEPT !.offered = @ - 1, !.started = @ + 1,
                                       !.credit = @ - resource.policy.period])
<1>1. /\ Startable(o) /\ resource' = q /\ requests' = [requests EXCEPT ![o] = b]
      /\ attempts' = [attempts EXCEPT ![o].started = TRUE]
      /\ \/ workers' = [workers EXCEPT ![o] = "granted"]
         \/ workers' = workers
      /\ UNCHANGED <<line, tasks>>
  BY DEF StartGranted, Set
<1>2. /\ Stands(resource, a) /\ a \in Request /\ Valid(a) /\ a.source = attempts[o].started
      /\ Fits(tasks[o[1]], o[2], a, attempts[o], workers[o]) /\ tasks[o[1]] \in Task /\ o[2] \in Nat
      /\ attempts[o] \in Attempt /\ attempts[o].lease \in Nat
  BY RowFacts DEF Attempt
<1>3. /\ a.state = "preparing" /\ a.revision = resource.revision /\ a.close = "none"
      /\ attempts[o].state = "active"
  BY <1>1 DEF Startable, Stale, Live
<1>4. a.owner /\ ~a.denied /\ Offering(resource, a)
  BY <1>2, <1>3 DEF Valid, Offering, Unstarted
<1>5. /\ b \in Request /\ b.state = "possibly_dispatched" /\ b.revision = 0 /\ b.source
      /\ b.source = TRUE /\ b.owner = a.owner /\ b.close = a.close /\ b.denied = a.denied
  BY <1>2 DEF Request, RequestState
<1> HIDE DEF b
<1>6. Moved(resource, a, resource', b)
  BY <1>1, <1>2, <1>4, <1>5, ChargeMoves
<1>7. /\ attempts' \in [Occurrences -> Attempt]
      /\ attempts'[o].state = attempts[o].state /\ attempts'[o].started = TRUE
      /\ \A e \in Occurrences : e # o => attempts'[e] = attempts[e]
  BY <1>1, StateTypes DEF Attempt
<1>8. /\ workers' \in [Occurrences -> Stage]
      /\ \A e \in Occurrences : e # o => workers'[e] = workers[e]
  BY <1>1, StateTypes DEF Stage
<1>9. Valid(b) /\ Occupied(b)
  BY <1>3, <1>4, <1>5 DEF Valid, Occupied
<1>10. Fits(tasks[o[1]], o[2], b, attempts'[o], workers'[o])
  BY <1>2, <1>3, <1>4, <1>5, <1>7, <1>9, FitsOwned
<1> QED BY <1>1, <1>3, <1>5, <1>6, <1>7, <1>8, <1>10, RequestStep, StateTypes

-----------------------------------------------------------------------------
(* The end of an attempt.                                                  *)

(* What may become of the current attempt o: its request is changed to b   *)
(* in row q.                                                               *)
Ending(o, q, b) ==
    /\ Moved(resource, requests[o], q, b)
    /\ Valid(b) /\ b.owner /\ b.state # "none" /\ b.source = attempts[o].started
    /\ workers[o] \in {"granted", "running"} =>
           Occupied(b) \/ b.state = "administratively_released"

LEMMA EndingNotWaiting ==
    ASSUME NEW b \in Request, Valid(b), b.owner
    PROVE  b.state \notin {"waiting", "offered"}
BY DEF Valid, Request

(* The worker of o may have an answer, but not one that lets it start.     *)
Answered(o) ==
    /\ workers' \in [Occurrences -> Stage]
    /\ \A e \in Occurrences : e # o => workers'[e] = workers[e]
    /\ workers'[o] \in {"granted", "running"} => workers[o] \in {"granted", "running"}

(* A task that becomes k keeps its requests f, or has another one.         *)
EndedRequests(t, k, f, h) ==
    \/ k.state = "done" /\ h = f
    \/ /\ k.state = "queued"
       /\ \E w \in Request :
            /\ h = [f EXCEPT ![<<t, tasks[t].generation + 1>>] = w]
            /\ w.state = "waiting" /\ Valid(w) /\ ~w.owner /\ ~w.source

(* Rows of the other generations when the current one ends.                *)
LEMMA EndedRows ==
    ASSUME AInv, NEW t \in Tasks, tasks[t].state = "active", NEW q, NEW b, Ending(Now(t), q, b),
           NEW y \in Attempt, y.started = attempts[Now(t)].started, y.state \in {"ended", "deferred"},
           y.state = "deferred" => ~y.started,
           NEW k \in Task, k.generation = tasks[t].generation, k.state \in {"queued", "done"},
           k.state = "queued" => k.generation < MaxGeneration /\ ~k.ready,
           tasks' = [tasks EXCEPT ![t] = k], attempts' = [attempts EXCEPT ![Now(t)] = y],
           Answered(Now(t)),
           NEW f, f = [requests EXCEPT ![Now(t)] = b],
           EndedRequests(t, k, f, requests')
    PROVE  /\ Rows' /\ tasks' \in [Tasks -> Task] /\ attempts' \in [Occurrences -> Attempt]
<1> DEFINE o == Now(t)  g == tasks[t].generation  n == <<t, g + 1>>
<1>0. /\ o \in Occurrences /\ o = <<t, g>> /\ o[1] = t /\ o[2] = g
      /\ requests[o].owner /\ attempts[o].state = "active"
  BY ActiveRow DEF Now
<1>1. g \in 1..MaxGeneration /\ MaxGeneration \in Nat /\ g \in Nat
  BY <1>0, AdmissionAssumption DEF Occurrences
<1>2. /\ tasks' \in [Tasks -> Task] /\ tasks'[t] = k
      /\ \A u \in Tasks : u # t => tasks'[u] = tasks[u]
  BY StateTypes
<1>3. /\ attempts' \in [Occurrences -> Attempt] /\ attempts'[o] = y
      /\ \A e \in Occurrences : e # o => attempts'[e] = attempts[e]
  BY <1>0, StateTypes
<1>4. f \in [Occurrences -> Request] /\ f[o] = b /\ \A e \in Occurrences : e # o => f[e] = requests[e]
  BY <1>0, StateTypes DEF Ending, Moved
<1>5. /\ requests'[o] = b
      /\ \A e \in Occurrences : e # o /\ e # n => requests'[e] = requests[e]
  <2>1. o # n
    BY <1>0, <1>1
  <2> QED BY <1>0, <1>4, <2>1 DEF EndedRequests
<1>6. TaskFits(k)
  BY DEF TaskFits
<1>7. ASSUME NEW h \in 1..MaxGeneration
      PROVE  Fits(k, h, requests'[<<t, h>>], attempts'[<<t, h>>], workers'[<<t, h>>])
  <2> DEFINE e == <<t, h>>
  <2>0. e \in Occurrences /\ e[1] = t /\ e[2] = h /\ h \in Nat
    BY AdmissionAssumption DEF Occurrences
  <2>1. Fits(tasks[t], h, requests[e], attempts[e], workers[e])
    BY <2>0, RowFacts
  <2>2. CASE h = g
    <3>1. Fits(tasks[t], g, requests[o], attempts[o], workers[o])
      BY <1>0, RowFacts
    <3> QED BY <2>2, <1>0, <1>1, <1>3, <1>5, <3>1 DEF Fits, Ending, Answered
  <2>3. CASE h = g + 1
    <3>0. e = n /\ e # o
      BY <2>3, <1>0, <1>1
    <3>1. /\ attempts[e] = NoAttempt /\ workers[e] = "none"
          /\ requests[e] = NoRequest
      BY <2>1, <2>3, <1>1 DEF Fits, NextFits
    <3>2. CASE k.state = "done"
      <4>1. requests'[e] = requests[e]
        BY <3>0, <3>2, <1>4, <2>0 DEF EndedRequests
      <4>2. attempts'[e] = attempts[e] /\ workers'[e] = workers[e]
        BY <3>0, <2>0, <1>3 DEF Answered
      <4>3. NextFits(k, requests[e]) /\ requests[e].state = "none"
        BY <3>1, <3>2 DEF NextFits, NoRequest
      <4>4. attempts[e].state # "active"
        BY <3>1 DEF NoAttempt
      <4> HIDE DEF e, n, o, g
      <4>5. Fits(k, h, requests[e], attempts[e], workers[e])
        BY <3>1, <3>2, <4>3, <4>4, <2>0, <2>1, <2>3, <1>1 DEF Fits, g
      <4> QED BY <4>1, <4>2, <4>5 DEF e
    <3>3. CASE k.state = "queued"
      <4>1. PICK w \in Request : /\ requests' = [f EXCEPT ![n] = w]
                                 /\ w.state = "waiting" /\ Valid(w) /\ ~w.owner /\ ~w.source
        BY <3>3 DEF EndedRequests
      <4>2. requests'[e] = w
        BY <4>1, <3>0, <2>0, <1>4
      <4>3. w.source = FALSE
        BY <4>1 DEF Request
      <4>4. attempts'[e] = NoAttempt /\ NoAttempt.started = FALSE /\ NoAttempt.state = "none"
        BY <3>0, <3>1, <1>3, <2>0 DEF NoAttempt
      <4>5. NextFits(k, w)
        BY <3>3, <4>1 DEF NextFits
      <4> HIDE DEF e, n, o
      <4>6. Fits(k, h, w, NoAttempt, "none")
        <5>1. ~(h =< k.generation) /\ ~(h > k.generation + 1) /\ h # k.generation
          BY <2>3, <1>1
        <5>2. w.source = NoAttempt.started /\ k.state # "active" /\ w.state # "none"
          BY <3>3, <4>1, <4>3, <4>4
        <5> QED BY <4>1, <4>4, <4>5, <5>1, <5>2 DEF Fits
      <4>7. workers'[e] = "none"
        BY <3>0, <3>1, <2>0 DEF Answered, o
      <4> QED BY <4>2, <4>4, <4>6, <4>7 DEF e
    <3> QED BY <3>2, <3>3
  <2>4. CASE h # g /\ h # g + 1
    <3>1. e # o /\ e # n
      BY <2>4, <1>0
    <3>2. requests'[e] = requests[e] /\ attempts'[e] = attempts[e] /\ workers'[e] = workers[e]
      BY <3>1, <2>0, <1>3, <1>5 DEF Answered
    <3> QED BY <3>2, <2>1, <2>4, <2>0, <1>1 DEF Fits
  <2> QED BY <2>2, <2>3, <2>4
<1>8. \A e \in Occurrences : e[1] # t =>
         requests'[e] = requests[e] /\ attempts'[e] = attempts[e] /\ workers'[e] = workers[e]
  BY <1>0, <1>3, <1>5 DEF Answered
<1>9. Rows'
  BY <1>2, <1>6, <1>7, <1>8, TaskFrame DEF AInv
<1> QED BY <1>2, <1>3, <1>9

(* A request as register creates it.                                       *)
LEMMA NewRequest ==
    ASSUME NEW d \in Nat \cup {None}
    PROVE  LET w == [NoRequest EXCEPT !.state = "waiting", !.available = d] IN
           /\ w \in Request /\ w.state = "waiting" /\ w.revision = 0 /\ Valid(w)
           /\ ~w.owner /\ ~w.source /\ w.source = FALSE
BY DEF NoRequest, Request, RequestState, Valid

(* A request that nobody has asked for is in no line.                      *)
LEMMA FreshNotInLine ==
    ASSUME AInv, NEW n \in Occurrences, requests[n].state = "none"
    PROVE  ~InLine(line, n)
BY DEF AInv, Line

LEMMA LineRegister ==
    ASSUME AInv, NEW n \in Occurrences, requests[n].state = "none", line' = Append(line, n),
           requests'[n].state = "waiting",
           \A e \in Occurrences : e # n =>
               (requests'[e].state = "waiting" <=> requests[e].state = "waiting")
    PROVE  line' \in Seq(Occurrences) /\ Line'
<1>1. /\ line' \in Seq(Occurrences) /\ Once(line')
      /\ \A e \in Occurrences : InLine(line', e) <=> InLine(line, e) \/ e = n
  BY FreshNotInLine, AppendIs, StateTypes DEF AInv, Line
<1>2. ASSUME NEW e \in Occurrences PROVE InLine(line', e) <=> requests'[e].state = "waiting"
  BY <1>1 DEF AInv, Line
<1> QED BY <1>1, <1>2 DEF Line

LEMMA AnsweredNothing ==
    ASSUME AInv, NEW o \in Occurrences, workers' = workers
    PROVE  Answered(o)
BY StateTypes DEF Answered

(* The current attempt ends: its task is done, or waits for another one.   *)
LEMMA EndKeeps ==
    ASSUME AInv, NEW t \in Tasks, tasks[t].state = "active", NEW x, Ending(Now(t), x.r, x.a),
           NEW y \in Attempt, y.started = attempts[Now(t)].started, y.state \in {"ended", "deferred"},
           y.state = "deferred" => ~y.started,
           NEW k \in Task, k.generation = tasks[t].generation, k.state \in {"queued", "done"},
           k.state = "queued" => k.generation < MaxGeneration /\ ~k.ready,
           tasks' = [tasks EXCEPT ![t] = k], attempts' = [attempts EXCEPT ![Now(t)] = y],
           Answered(Now(t)),
           \/ k.state = "done" /\ Set(Now(t), x) /\ line' = line
           \/ k.state = "queued" /\ Registered(x, Now(t), t, Backoff)
    PROVE  AInv' /\ Within(resource, resource')
<1> DEFINE o == Now(t)  g == tasks[t].generation  n == <<t, g + 1>>
           q == x.r  b == x.a
           f == [requests EXCEPT ![o] = b]
           w == [NoRequest EXCEPT !.state = "waiting", !.available = Backoff]
<1>0. /\ o \in Occurrences /\ o = <<t, g>> /\ o[1] = t /\ o[2] = g /\ requests[o].owner
  BY ActiveRow DEF Now
<1>1. /\ TypeOK /\ Books /\ Line /\ Moved(resource, requests[o], q, b) /\ resource \in Resource
      /\ requests \in [Occurrences -> Request]
  BY StateTypes DEF AInv, Ending
<1>2. b.state # "waiting" /\ requests[o].state # "waiting"
  BY <1>0, <1>1, RowFacts, EndingNotWaiting DEF Ending, Moved
<1>3. /\ w \in Request /\ w.state = "waiting" /\ w.revision = 0 /\ Valid(w) /\ ~w.owner /\ ~w.source
  <2>1. Backoff \in Nat \cup {None}
    BY AdmissionAssumption
  <2> QED BY <2>1, NewRequest
<1>4. g \in 1..MaxGeneration /\ MaxGeneration \in Nat
  BY <1>0, AdmissionAssumption DEF Occurrences
<1>5. CASE k.state = "done"
  <2>1. resource' = q /\ requests' = f /\ line' = line
    BY <1>5 DEF Set
  <2>2. resource' \in Resource /\ requests' \in [Occurrences -> Request] /\ Books'
    BY <1>0, <1>1, <2>1, BooksMove
  <2>3. Rows' /\ tasks' \in [Tasks -> Task] /\ attempts' \in [Occurrences -> Attempt]
    <3>1. EndedRequests(t, k, f, requests')
      BY <1>5, <2>1 DEF EndedRequests
    <3> QED BY <3>1, EndedRows
  <2>4. TypeOK'
    BY <2>1, <2>2, <2>3, <1>1 DEF TypeOK, Answered
  <2>5. Line'
    BY <2>1, <1>0, <1>1, <1>2, LineFrame
  <2> QED BY <1>1, <2>1, <2>2, <2>3, <2>4, <2>5 DEF AInv, Moved
<1>6. CASE k.state = "queued"
  <2>0. /\ resource' = Woken(q) /\ line' = Append(line, n)
        /\ requests' = [requests EXCEPT ![o] = b, ![n] = w]
    BY <1>0, <1>6 DEF Registered
  <2>1. n \in Occurrences /\ n # o /\ n[1] = t /\ n[2] = g + 1
    BY <1>0, <1>4, <1>6 DEF Occurrences
  <2>2. requests[n].state = "none"
    <3>1. Fits(tasks[t], g + 1, requests[n], attempts[n], workers[n])
      BY <2>1, RowFacts
    <3> QED BY <3>1, <1>4 DEF Fits, NextFits
  <2>3. requests' = [f EXCEPT ![n] = w]
    BY <2>0
  <2> HIDE DEF w, n, o
  <2>4. Moved(resource, requests[o], resource', b)
    BY <1>1, <2>0, WokenMoves
  <2>5. resource' \in Resource /\ requests' \in [Occurrences -> Request] /\ Books'
    BY <1>0, <1>1, <1>3, <2>0, <2>1, <2>2, <2>4, BooksRegister
  <2>6. Rows' /\ tasks' \in [Tasks -> Task] /\ attempts' \in [Occurrences -> Attempt]
    <3>1. \E v \in Request : /\ requests' = [f EXCEPT ![n] = v]
                             /\ v.state = "waiting" /\ Valid(v) /\ ~v.owner /\ ~v.source
      BY <1>3, <2>3
    <3>2. EndedRequests(t, k, f, requests')
      BY <1>6, <3>1 DEF EndedRequests, n
    <3>3. f = [requests EXCEPT ![Now(t)] = b]
      BY DEF o
    <3> HIDE DEF f
    <3> QED BY <3>2, <3>3, EndedRows
  <2>7. /\ requests'[n] = w /\ requests'[o] = b
        /\ \A e \in Occurrences : e # o /\ e # n => requests'[e] = requests[e]
    BY <1>0, <1>1, <2>0, <2>1
  <2>8. line' \in Seq(Occurrences) /\ Line'
    <3>1. \A e \in Occurrences : e # n =>
             (requests'[e].state = "waiting" <=> requests[e].state = "waiting")
      BY <1>2, <2>7
    <3>2. requests'[n].state = "waiting" /\ line' = Append(line, n)
      BY <1>3, <2>0, <2>7
    <3> QED BY <2>1, <2>2, <3>1, <3>2, LineRegister
  <2>9. TypeOK'
    BY <2>5, <2>6, <2>8, <1>1 DEF TypeOK, Answered
  <2> QED BY <2>4, <2>5, <2>6, <2>8, <2>9 DEF AInv, Moved
<1> QED BY <1>5, <1>6

LEMMA FinishKeeps ==
    ASSUME AInv, NEW t \in Tasks, tasks[t].state = "active", NEW x, Ending(Now(t), x.r, x.a),
           NEW z \in Attempt, z.started = attempts[Now(t)].started,
           Finish(t, x, z), workers' = workers
    PROVE  AInv' /\ Within(resource, resource')
<1> DEFINE o == Now(t)  y == [z EXCEPT !.state = "ended", !.lease = 0]
<1>0. tasks[t] \in Task /\ tasks \in [Tasks -> Task] /\ o[2] = tasks[t].generation
  BY StateTypes, ActiveRow
<1>w. Answered(o)
  BY ActiveRow, AnsweredNothing
<1>1. y \in Attempt /\ y.state = "ended" /\ y.started = attempts[Now(t)].started
  BY DEF Attempt
<1>2. attempts' = [attempts EXCEPT ![o] = y]
  BY DEF Finish
<1> HIDE DEF y
<1>3. CASE tasks' = [tasks EXCEPT ![t].state = "done"] /\ Set(o, x) /\ line' = line
  <2> DEFINE k == [tasks[t] EXCEPT !.state = "done"]
  <2>1. k \in Task /\ k.generation = tasks[t].generation /\ k.state = "done"
    BY <1>0 DEF Task
  <2>2. tasks' = [tasks EXCEPT ![t] = k]
    BY <1>3
  <2> HIDE DEF k
  <2> QED BY <1>w, <1>1, <1>2, <1>3, <2>1, <2>2, EndKeeps
<1>4. CASE /\ o[2] < MaxGeneration
           /\ tasks' = [tasks EXCEPT ![t].state = "queued", ![t].ready = FALSE]
           /\ Registered(x, o, t, Backoff)
  <2> DEFINE k == [tasks[t] EXCEPT !.state = "queued", !.ready = FALSE]
  <2>1. k \in Task /\ k.generation = tasks[t].generation /\ k.state = "queued" /\ ~k.ready
    BY <1>0 DEF Task
  <2>2. tasks' = [tasks EXCEPT ![t] = k]
    BY <1>4, <1>0
  <2>3. k.generation < MaxGeneration
    BY <1>0, <1>4, <2>1
  <2> HIDE DEF k
  <2> QED BY <1>w, <1>1, <1>2, <1>4, <2>1, <2>2, <2>3, EndKeeps
<1> QED BY <1>3, <1>4 DEF Finish

LEMMA DeferredKeeps ==
    ASSUME AInv, NEW t \in Tasks, tasks[t].state = "active", NEW x, Ending(Now(t), x.r, x.a),
           ~attempts[Now(t)].started, NEW confirmed \in BOOLEAN,
           Deferred(t, x, confirmed), workers' = workers
    PROVE  AInv' /\ Within(resource, resource')
<1> DEFINE o == Now(t)
           s == IF tasks[t].cancel THEN "ended" ELSE "deferred"
           y == [attempts[o] EXCEPT !.state = s, !.confirmed = confirmed, !.lease = 0]
<1>0. /\ tasks[t] \in Task /\ tasks \in [Tasks -> Task] /\ o[2] = tasks[t].generation
      /\ o \in Occurrences /\ attempts[o] \in Attempt /\ attempts \in [Occurrences -> Attempt]
      /\ tasks[t].deferrals \in Nat
  BY StateTypes, ActiveRow DEF Task
<1>w. Answered(o)
  BY <1>0, AnsweredNothing
<1>s. s \in {"ended", "deferred"}
  OBVIOUS
<1>2. attempts' = [attempts EXCEPT ![o] = y]
  BY <1>0 DEF Deferred
<1> HIDE DEF s
<1>1. y \in Attempt /\ y.state = s /\ y.started = attempts[o].started
  BY <1>0, <1>s DEF Attempt
<1> HIDE DEF y
<1>3. CASE tasks[t].cancel \/ o[2] = MaxGeneration
  <2> DEFINE d == IF tasks[t].cancel THEN tasks[t].deferrals ELSE tasks[t].deferrals + 1
             k == [tasks[t] EXCEPT !.state = "done", !.deferrals = d]
  <2>d. d \in Nat
    BY <1>0
  <2>0. Set(o, x) /\ line' = line /\ tasks' = [tasks EXCEPT ![t] = k]
    BY <1>0, <1>3 DEF Deferred
  <2> HIDE DEF d
  <2>1. k \in Task /\ k.generation = tasks[t].generation /\ k.state = "done"
    BY <1>0, <2>d DEF Task
  <2> HIDE DEF k
  <2> QED BY <1>w, <1>1, <1>2, <1>s, <2>0, <2>1, EndKeeps
<1>4. CASE ~(tasks[t].cancel \/ o[2] = MaxGeneration)
  <2> DEFINE d == tasks[t].deferrals + 1
             k == [tasks[t] EXCEPT !.state = "queued", !.ready = FALSE, !.deferrals = d]
  <2>d. d \in Nat
    BY <1>0
  <2>0. Registered(x, o, t, Backoff) /\ tasks' = [tasks EXCEPT ![t] = k]
    BY <1>0, <1>4 DEF Deferred
  <2> HIDE DEF d
  <2>1. k \in Task /\ k.generation = tasks[t].generation /\ k.state = "queued" /\ ~k.ready
    BY <1>0, <2>d DEF Task
  <2>2. k.generation < MaxGeneration
    BY <1>0, <1>4, <2>1, AdmissionAssumption DEF Task
  <2> HIDE DEF k
  <2> QED BY <1>w, <1>0, <1>1, <1>2, <1>s, <2>0, <2>1, <2>2, EndKeeps
<1> QED BY <1>3, <1>4

-----------------------------------------------------------------------------
(* What ends an attempt, or only its request.                              *)

(* The request changes, its attempt goes on as it is.                      *)
LEMMA PlainEnding ==
    ASSUME AInv, NEW o \in Occurrences, requests[o].owner, NEW x, Ending(o, x.r, x.a), Set(o, x),
           line' = line, workers' = workers, tasks' \in [Tasks -> Task],
           \A t \in Tasks : /\ tasks'[t].state = tasks[t].state
                            /\ tasks'[t].generation = tasks[t].generation
                            /\ tasks'[t].ready = tasks[t].ready,
           NEW y \in Attempt, attempts' = [attempts EXCEPT ![o] = y],
           y.state = attempts[o].state, y.started = attempts[o].started
    PROVE  AInv' /\ Within(resource, resource')
<1>1. /\ requests[o] \in Request /\ Valid(requests[o]) /\ tasks[o[1]] \in Task /\ o[2] \in Nat
      /\ Fits(tasks[o[1]], o[2], requests[o], attempts[o], workers[o])
  BY RowFacts
<1>2. /\ Moved(resource, requests[o], x.r, x.a) /\ x.a \in Request /\ Valid(x.a) /\ x.a.owner
      /\ x.a.state # "none" /\ x.a.source = attempts[o].started
      /\ workers[o] \in {"granted", "running"} =>
             Occupied(x.a) \/ x.a.state = "administratively_released"
  BY DEF Ending, Moved
<1>3. resource' = x.r /\ requests' = [requests EXCEPT ![o] = x.a]
  BY DEF Set
<1>4. x.a.state # "waiting" /\ requests[o].state # "waiting"
  BY <1>1, <1>2, EndingNotWaiting
<1>5. /\ attempts' \in [Occurrences -> Attempt] /\ attempts'[o] = y
      /\ \A e \in Occurrences : e # o => attempts'[e] = attempts[e]
  BY StateTypes
<1>6. attempts[o].state = "deferred" => ~attempts[o].started
  BY <1>1 DEF Fits
<1>7. Fits(tasks[o[1]], o[2], x.a, attempts'[o], workers'[o])
  BY <1>1, <1>2, <1>5, <1>6, FitsOwned
<1> QED BY <1>2, <1>3, <1>4, <1>5, <1>7, RequestStep, StateTypes

(* Without a change of the attempt or a task.                              *)
LEMMA PlainEndingOnly ==
    ASSUME AInv, NEW o \in Occurrences, requests[o].owner, NEW x, Ending(o, x.r, x.a), Set(o, x),
           UNCHANGED <<line, tasks, attempts, workers>>
    PROVE  AInv' /\ Within(resource, resource')
<1>1. attempts[o] \in Attempt /\ attempts' = [attempts EXCEPT ![o] = attempts[o]]
  BY StateTypes
<1> QED BY <1>1, PlainEnding, StateTypes

(* A Start that was accepted is of an attempt with an owner.               *)
LEMMA OwnedRow ==
    ASSUME AInv, NEW o \in Occurrences
    PROVE  /\ requests[o].source => requests[o].owner
           /\ requests[o].owner => requests[o].state \notin {"none", "waiting", "offered"}
<1>1. /\ Fits(tasks[o[1]], o[2], requests[o], attempts[o], workers[o])
      /\ tasks[o[1]].generation \in Nat /\ o[2] \in Nat /\ requests[o] \in Request
      /\ Valid(requests[o])
  BY RowFacts, AdmissionAssumption DEF Task
<1>2. requests[o].source => requests[o].owner
  <2>1. CASE o[2] =< tasks[o[1]].generation
    BY <1>1, <2>1 DEF Fits
  <2>2. CASE o[2] > tasks[o[1]].generation
    <3>1. attempts[o] = NoAttempt /\ requests[o].source = attempts[o].started
      BY <1>1, <2>2 DEF Fits
    <3>2. NoAttempt.started = FALSE
      BY DEF NoAttempt
    <3> QED BY <3>1, <3>2
  <2> QED BY <1>1, <2>1, <2>2
<1>3. requests[o].owner => requests[o].state # "none"
  BY <1>1 DEF Fits
<1> QED BY <1>1, <1>2, <1>3, EndingNotWaiting

LEMMA FollowedEnds ==
    ASSUME AInv, NEW o \in Occurrences, requests[o].owner
    PROVE  LET x == Followed(resource, requests[o]) IN Ending(o, x.r, x.a)
<1> DEFINE a == requests[o]  x == Followed(resource, a)
<1>1. /\ Stands(resource, a) /\ a \in Request /\ Valid(a) /\ a.source = attempts[o].started
      /\ a.state \notin {"none", "waiting", "offered"}
  BY RowFacts, OwnedRow
<1>2. /\ Moved(resource, a, x.r, x.a) /\ Keeps(a, x.a)
      /\ x.a.state = IF ~a.source
                     THEN IF ~Unstarted(a) THEN a.state
                          ELSE IF a.owner THEN "closed_before_start" ELSE "waiting"
                     ELSE IF a.state = "possibly_dispatched" THEN "unknown_occupied" ELSE a.state
  BY <1>1, FollowedMoves
<1> HIDE DEF x
<1>3. x.a \in Request /\ x.a.owner /\ x.a.source = attempts[o].started
  BY <1>1, <1>2 DEF Moved, Keeps
<1>4. \/ x.a.state = a.state
      \/ Unstarted(a) /\ x.a.state = "closed_before_start"
      \/ a.state = "possibly_dispatched" /\ x.a.state = "unknown_occupied"
  BY <1>2
<1>5. Valid(x.a)
  BY <1>1, <1>2, <1>3, <1>4, OwnedValid
<1>6. workers[o] \in {"granted", "running"} => Occupied(x.a) \/ x.a.state = "administratively_released"
  BY <1>4, Invoked DEF Occupied, Unstarted
<1> QED BY <1>1, <1>2, <1>3, <1>4, <1>5, <1>6 DEF Ending, x

LEMMA SameEnds ==
    ASSUME AInv, NEW o \in Occurrences, requests[o].owner
    PROVE  Ending(o, resource, requests[o])
<1>1. Moved(resource, requests[o], resource, requests[o])
  BY RowFacts, SameMoves DEF Stands
<1> QED BY <1>1, RowFacts, OwnedRow, Invoked DEF Ending

(* Close.                                                                  *)
LEMMA CloseSourceEnds ==
    ASSUME AInv, NEW o \in Occurrences, NEW outcome \in {"not_invoked", "quiescent"},
           workers[o] \in {"stopped", "quit"}, requests[o].close = "none", requests[o].source
    PROVE  LET freed == ReleaseStarted(resource, requests[o], "finished")
               x == [freed EXCEPT !.r = Woken(@), !.a.close = outcome]
           IN  Ending(o, x.r, x.a)
<1> DEFINE a == requests[o]  freed == ReleaseStarted(resource, a, "finished")
           x == [freed EXCEPT !.r = Woken(@), !.a.close = outcome]
<1>1. /\ Stands(resource, a) /\ a \in Request /\ Valid(a) /\ a.source = attempts[o].started
      /\ a.owner /\ a.state \notin {"none", "waiting", "offered"} /\ resource \in Resource
  BY RowFacts, OwnedRow
<1>2. /\ Moved(resource, a, freed.r, freed.a) /\ Keeps(a, freed.a)
      /\ freed.a.state = IF Occupied(a) THEN "finished" ELSE a.state
  BY <1>1, StartedMoves
<1>3. freed = [r |-> freed.r, a |-> freed.a]
  BY DEF ReleaseStarted
<1> HIDE DEF freed
<1>4. x.r = Woken(freed.r) /\ x.a = [freed.a EXCEPT !.close = outcome]
  BY <1>3
<1> HIDE DEF x
<1>5. freed.a \in Request
  BY <1>2 DEF Moved
<1>6. /\ x.a \in Request /\ x.a.state = freed.a.state /\ x.a.revision = freed.a.revision
      /\ x.a.owner = a.owner /\ x.a.source = a.source /\ x.a.denied = a.denied
      /\ x.a.close = outcome
  BY <1>2, <1>4, <1>5 DEF Request, Keeps
<1>7. Moved(resource, a, freed.r, x.a)
  BY <1>1, <1>2, <1>6, DetailMoves
<1>8. Moved(resource, a, x.r, x.a)
  BY <1>1, <1>4, <1>7, WokenMoves
<1>9. Valid(x.a) /\ x.a.state # "none"
  BY <1>1, <1>2, <1>6 DEF Valid, Occupied, Request
<1> QED BY <1>1, <1>6, <1>8, <1>9 DEF Ending, x, freed

LEMMA CloseUnstartedEnds ==
    ASSUME AInv, NEW o \in Occurrences, NEW outcome \in {"not_invoked", "quiescent"},
           workers[o] \in {"stopped", "quit"},
           requests[o].close = "none", ~requests[o].source, requests[o].owner
    PROVE  LET freed == ReleaseOffer(resource, requests[o])
               x == [freed EXCEPT !.r = Woken(@), !.a.close = outcome, !.a.check = None,
                                  !.a.state = "closed_before_start"]
           IN  Ending(o, x.r, x.a)
<1> DEFINE a == requests[o]  freed == ReleaseOffer(resource, a)
           x == [freed EXCEPT !.r = Woken(@), !.a.close = outcome, !.a.check = None,
                              !.a.state = "closed_before_start"]
<1>1. /\ Stands(resource, a) /\ a \in Request /\ Valid(a) /\ a.source = attempts[o].started
      /\ a.state \notin {"none", "waiting", "offered"} /\ resource \in Resource
  BY RowFacts, OwnedRow
<1>2. a.state \in {"preparing", "closed_before_start"}
  BY <1>1 DEF Valid, Request, RequestState
<1>3. /\ Moved(resource, a, freed.r, freed.a) /\ Keeps(a, freed.a)
      /\ freed.a.state = "closed_before_start"
  BY <1>1, <1>2, OfferMoves DEF Unstarted
<1>4. freed = [r |-> freed.r, a |-> freed.a]
  BY DEF ReleaseOffer, ReleasedOffer
<1> HIDE DEF freed
<1>5. /\ x.r = Woken(freed.r)
      /\ x.a = [freed.a EXCEPT !.close = outcome, !.check = None, !.state = "closed_before_start"]
  BY <1>4
<1> HIDE DEF x
<1>6. freed.a \in Request
  BY <1>3 DEF Moved
<1>7. /\ x.a \in Request /\ x.a.state = freed.a.state /\ x.a.revision = freed.a.revision
      /\ x.a.owner = a.owner /\ x.a.source = a.source /\ x.a.denied = a.denied
      /\ x.a.close = outcome
  BY ZenonT(60), <1>3, <1>5, <1>6 DEF Request, RequestState, Keeps
<1>8. Moved(resource, a, freed.r, x.a)
  BY <1>1, <1>3, <1>7, DetailMoves
<1>9. Moved(resource, a, x.r, x.a)
  BY <1>1, <1>5, <1>8, WokenMoves
<1>10. Valid(x.a) /\ x.a.state # "none"
  BY <1>1, <1>3, <1>7 DEF Valid
<1> QED BY <1>1, <1>7, <1>9, <1>10 DEF Ending, x, freed

LEMMA CurrentIs ==
    ASSUME AInv, NEW o \in Occurrences, Current(o)
    PROVE  /\ o[1] \in Tasks /\ tasks[o[1]].state = "active" /\ Now(o[1]) = o
           /\ attempts[o] \in Attempt
BY RowFacts DEF Current

LEMMA ConfirmedAttempt ==
    ASSUME NEW z \in Attempt
    PROVE  LET y == [z EXCEPT !.confirmed = TRUE] IN
           y \in Attempt /\ y.started = z.started /\ y.state = z.state
BY DEF Attempt

LEMMA CloseKeeps ==
    ASSUME AInv, NEW o \in Occurrences, Close(o)
    PROVE  AInv' /\ Within(resource, resource')
<1> DEFINE out == Outcome(o)
<1>0. out \in {"not_invoked", "quiescent"} /\ workers[o] \in {"stopped", "quit"}
  BY DEF Outcome, Close
<1>1. CASE CloseSource(o, out)
  <2> DEFINE freed == ReleaseStarted(resource, requests[o], "finished")
             x == [freed EXCEPT !.r = Woken(@), !.a.close = out]
             z == [attempts[o] EXCEPT !.confirmed = TRUE]
  <2>1. /\ requests[o].close = "none" /\ requests[o].source /\ workers' = workers
        /\ \/ Current(o) /\ Finish(o[1], x, z)
           \/ Set(o, x) /\ UNCHANGED <<line, tasks, attempts>>
    BY <1>1 DEF CloseSource
  <2>2. Ending(o, x.r, x.a) /\ requests[o].owner
    BY <1>0, <2>1, CloseSourceEnds, OwnedRow
  <2> HIDE DEF x, z
  <2>3. CASE Current(o) /\ Finish(o[1], x, z)
    <3>1. /\ o[1] \in Tasks /\ tasks[o[1]].state = "active" /\ Now(o[1]) = o
          /\ attempts[o] \in Attempt
      BY <2>3, CurrentIs
    <3>2. z \in Attempt /\ z.started = attempts[Now(o[1])].started
      BY <3>1, ConfirmedAttempt DEF z
    <3>3. Ending(Now(o[1]), x.r, x.a)
      BY <2>2, <3>1
    <3> QED BY <2>1, <2>3, <3>1, <3>2, <3>3, FinishKeeps
  <2>4. CASE Set(o, x) /\ UNCHANGED <<line, tasks, attempts>>
    BY <2>1, <2>2, <2>4, PlainEndingOnly
  <2> QED BY <2>1, <2>3, <2>4
<1>2. CASE CloseUnstarted(o, out)
  <2> DEFINE freed == ReleaseOffer(resource, requests[o])
             x == [freed EXCEPT !.r = Woken(@), !.a.close = out, !.a.check = None,
                                !.a.state = "closed_before_start"]
             z == [attempts[o] EXCEPT !.confirmed = TRUE]
  <2>1. /\ requests[o].close = "none" /\ ~requests[o].source /\ requests[o].owner
        /\ workers' = workers
        /\ \/ /\ attempts' = [attempts EXCEPT ![o].confirmed = TRUE]
              /\ Set(o, x) /\ UNCHANGED <<line, tasks>>
           \/ Current(o) /\ Deferred(o[1], x, TRUE)
           \/ Current(o) /\ Finish(o[1], x, z)
           \/ Set(o, x) /\ UNCHANGED <<line, tasks, attempts>>
    BY <1>2 DEF CloseUnstarted
  <2>2. Ending(o, x.r, x.a)
    BY <1>0, <2>1, CloseUnstartedEnds
  <2>z. z \in Attempt /\ z.started = attempts[o].started /\ z.state = attempts[o].state
    BY RowFacts, ConfirmedAttempt
  <2> HIDE DEF x
  <2>3. CASE /\ attempts' = [attempts EXCEPT ![o].confirmed = TRUE]
             /\ Set(o, x) /\ UNCHANGED <<line, tasks>>
    <3>1. attempts' = [attempts EXCEPT ![o] = z]
      BY <2>3
    <3> HIDE DEF z
    <3> QED BY <2>1, <2>2, <2>z, <2>3, <3>1, PlainEnding, StateTypes
  <2> HIDE DEF z
  <2>4. CASE Current(o) /\ Deferred(o[1], x, TRUE)
    <3>1. /\ o[1] \in Tasks /\ tasks[o[1]].state = "active" /\ Now(o[1]) = o
      BY <2>4, CurrentIs
    <3>2. ~attempts[Now(o[1])].started
      <4>1. requests[o].source = attempts[o].started
        BY RowFacts
      <4> QED BY <2>1, <3>1, <4>1
    <3>3. Ending(Now(o[1]), x.r, x.a)
      BY <2>2, <3>1
    <3> QED BY <2>1, <2>4, <3>1, <3>2, <3>3, DeferredKeeps
  <2>5. CASE Current(o) /\ Finish(o[1], x, z)
    <3>1. /\ o[1] \in Tasks /\ tasks[o[1]].state = "active" /\ Now(o[1]) = o
      BY <2>5, CurrentIs
    <3>2. Ending(Now(o[1]), x.r, x.a) /\ z.started = attempts[Now(o[1])].started
      BY <2>2, <2>z, <3>1
    <3> QED BY <2>1, <2>5, <2>z, <3>1, <3>2, FinishKeeps
  <2>6. CASE Set(o, x) /\ UNCHANGED <<line, tasks, attempts>>
    BY <2>1, <2>2, <2>6, PlainEndingOnly
  <2> QED BY <2>1, <2>3, <2>4, <2>5, <2>6
<1> QED BY <1>1, <1>2 DEF Close

LEMMA SettleKeeps ==
    ASSUME AInv, NEW t \in Tasks, NEW confirmed \in BOOLEAN, Settle(t, confirmed)
    PROVE  AInv' /\ Within(resource, resource')
<1> DEFINE o == Now(t)
           z == [attempts[o] EXCEPT !.settled = TRUE, !.confirmed = confirmed]
           ends == confirmed \/ tasks[t].cancel \/ ~requests[o].source
           x == IF ends THEN Followed(resource, requests[o]) ELSE [r |-> resource, a |-> requests[o]]
<1>1. /\ tasks[t].state = "active" /\ workers' = workers
      /\ \/ Finish(t, x, z)
         \/ attempts' = [attempts EXCEPT ![o] = z] /\ Set(o, x) /\ UNCHANGED <<line, tasks>>
  BY DEF Settle
<1>2. o \in Occurrences /\ requests[o].owner /\ attempts[o] \in Attempt
  BY <1>1, ActiveRow, RowFacts
<1>3. z \in Attempt /\ z.started = attempts[o].started /\ z.state = attempts[o].state
  BY <1>2 DEF Attempt
<1>4. Ending(o, x.r, x.a)
  <2>1. CASE ends
    BY <1>2, <2>1, FollowedEnds
  <2>2. CASE ~ends
    <3>1. x.r = resource /\ x.a = requests[o]
      BY <2>2
    <3> HIDE DEF x, ends
    <3> QED BY <1>2, <3>1, SameEnds
  <2> QED BY <2>1, <2>2
<1> HIDE DEF x, z
<1>5. CASE Finish(t, x, z)
  BY <1>1, <1>3, <1>4, <1>5, FinishKeeps
<1>6. CASE attempts' = [attempts EXCEPT ![o] = z] /\ Set(o, x) /\ UNCHANGED <<line, tasks>>
  BY <1>1, <1>2, <1>3, <1>4, <1>6, PlainEnding, StateTypes
<1> QED BY <1>1, <1>5, <1>6

LEMMA ConfirmQuiescenceKeeps ==
    ASSUME AInv, NEW t \in Tasks, ConfirmQuiescence(t)
    PROVE  AInv' /\ Within(resource, resource')
<1> DEFINE o == Now(t)
           z == [attempts[o] EXCEPT !.confirmed = TRUE]
           x == Followed(resource, requests[o])
<1>1. tasks[t].state = "active" /\ workers' = workers /\ Finish(t, x, z)
  BY DEF ConfirmQuiescence
<1>2. o \in Occurrences /\ requests[o].owner /\ attempts[o] \in Attempt
  BY <1>1, ActiveRow, RowFacts
<1>3. z \in Attempt /\ z.started = attempts[o].started
  BY <1>2, ConfirmedAttempt
<1>4. Ending(o, x.r, x.a)
  BY <1>2, FollowedEnds
<1> HIDE DEF x, z
<1> QED BY <1>1, <1>3, <1>4, FinishKeeps

LEMMA ExpireKeeps ==
    ASSUME AInv, NEW t \in Tasks, Expire(t)
    PROVE  AInv' /\ Within(resource, resource')
<1> DEFINE o == Now(t)  x == Followed(resource, requests[o])
<1>1. /\ tasks[t].state = "active" /\ workers' = workers
      /\ \/ Finish(t, x, attempts[o])
         \/ ~attempts[o].started /\ Deferred(t, x, FALSE)
  BY DEF Expire
<1>2. o \in Occurrences /\ requests[o].owner /\ attempts[o] \in Attempt
  BY <1>1, ActiveRow, RowFacts
<1>4. Ending(o, x.r, x.a)
  BY <1>2, FollowedEnds
<1> HIDE DEF x
<1>5. CASE Finish(t, x, attempts[o])
  BY <1>1, <1>2, <1>4, <1>5, FinishKeeps
<1>6. CASE ~attempts[o].started /\ Deferred(t, x, FALSE)
  BY <1>1, <1>4, <1>6, DeferredKeeps
<1> QED BY <1>1, <1>5, <1>6

(* A live attempt is the current one of an active task.                    *)
LEMMA LiveIs ==
    ASSUME AInv, NEW o \in Occurrences, attempts[o].state = "active"
    PROVE  o[1] \in Tasks /\ tasks[o[1]].state = "active" /\ Now(o[1]) = o
<1>1. /\ o = <<o[1], o[2]>> /\ o[1] \in Tasks
      /\ Fits(tasks[o[1]], o[2], requests[o], attempts[o], workers[o])
  BY RowFacts
<1>2. tasks[o[1]].state = "active" /\ o[2] = tasks[o[1]].generation
  BY <1>1 DEF Fits
<1> QED BY <1>1, <1>2 DEF Now

LEMMA StartDeniedKeeps ==
    ASSUME AInv, NEW o \in Occurrences, StartDenied(o)
    PROVE  AInv' /\ Within(resource, resource')
<1> DEFINE a == requests[o]  freed == ReleaseOffer(resource, a)  t == o[1]
           x == [freed EXCEPT !.a.denied = TRUE, !.a.start = TRUE]
           y == [attempts[o] EXCEPT !.state = "ended", !.lease = 0]
           k == [tasks[t] EXCEPT !.state = "done"]
<1>1. /\ Startable(o) /\ Set(o, x) /\ ReplyExisting(o) /\ line' = line
      /\ attempts' = [attempts EXCEPT ![o].state = "ended", ![o].lease = 0]
      /\ tasks' = [tasks EXCEPT ![t].state = "done"]
  BY DEF StartDenied
<1>2. /\ Stands(resource, a) /\ a \in Request /\ Valid(a) /\ a.source = attempts[o].started
      /\ attempts[o] \in Attempt /\ tasks[t] \in Task /\ resource \in Resource
  BY RowFacts
<1>3. /\ a.state = "preparing" /\ a.close = "none" /\ attempts[o].state = "active"
  BY <1>1 DEF Startable, Live
<1>4. a.owner /\ ~a.source
  BY <1>2, <1>3 DEF Valid
<1>5. t \in Tasks /\ tasks[t].state = "active" /\ Now(t) = o
  BY <1>3, LiveIs
<1>6. /\ Moved(resource, a, freed.r, freed.a) /\ Keeps(a, freed.a)
      /\ freed.a.state = "closed_before_start"
  BY <1>2, <1>3, <1>4, OfferMoves DEF Unstarted
<1>7. freed = [r |-> freed.r, a |-> freed.a]
  BY DEF ReleaseOffer, ReleasedOffer
<1> HIDE DEF freed
<1>8. x.r = freed.r /\ x.a = [freed.a EXCEPT !.denied = TRUE, !.start = TRUE]
  BY <1>7
<1> HIDE DEF x
<1>9. freed.a \in Request
  BY <1>6 DEF Moved
<1>10. /\ x.a \in Request /\ x.a.state = freed.a.state /\ x.a.revision = freed.a.revision
       /\ x.a.owner = a.owner /\ x.a.source = a.source /\ x.a.close = a.close
  BY <1>6, <1>8, <1>9 DEF Request, Keeps
<1>11. Moved(resource, a, x.r, x.a)
  BY <1>2, <1>6, <1>8, <1>10, DetailMoves
<1>12. Valid(x.a) /\ x.a.state # "none" /\ x.a.owner
  BY <1>3, <1>4, <1>6, <1>10 DEF Valid
<1>13. workers[o] \notin {"granted", "running"}
  BY <1>3, Invoked DEF Occupied
<1>14. Ending(o, x.r, x.a)
  BY <1>2, <1>10, <1>11, <1>12, <1>13 DEF Ending
<1>15. y \in Attempt /\ y.state = "ended" /\ y.started = attempts[o].started
  BY <1>2 DEF Attempt
<1>16. k \in Task /\ k.state = "done" /\ k.generation = tasks[t].generation
  BY <1>2 DEF Task
<1>17. tasks' = [tasks EXCEPT ![t] = k] /\ attempts' = [attempts EXCEPT ![o] = y]
  BY <1>1, <1>2, StateTypes
<1>18. Answered(o)
  BY <1>1, ReplyTypes DEF Answered
<1> HIDE DEF y, k, t
<1>19. /\ Ending(Now(t), x.r, x.a) /\ y.started = attempts[Now(t)].started
       /\ attempts' = [attempts EXCEPT ![Now(t)] = y] /\ Answered(Now(t)) /\ Set(Now(t), x)
  BY <1>1, <1>5, <1>14, <1>15, <1>17, <1>18
<1> QED BY <1>1, <1>5, <1>15, <1>16, <1>17, <1>19, EndKeeps

-----------------------------------------------------------------------------
(* Tasks that wait.                                                        *)

(* The request of a queued task.                                           *)
LEMMA QueuedRow ==
    ASSUME AInv, NEW t \in Tasks, tasks[t].state = "queued"
    PROVE  LET o == Next_(t) IN
           /\ o \in Occurrences /\ o[1] = t /\ o[2] = tasks[t].generation + 1
           /\ tasks[t] \in Task /\ tasks[t].generation \in Nat
           /\ tasks[t].generation < MaxGeneration
           /\ requests[o].state \in {"waiting", "offered"}
           /\ tasks[t].ready <=> requests[o].state = "offered"
           /\ ~requests[o].owner /\ ~requests[o].source
           /\ attempts[o] = NoAttempt /\ workers[o] = "none"
<1> DEFINE o == Next_(t)
<1>1. tasks[t] \in Task /\ TaskFits(tasks[t])
  BY DEF AInv, TypeOK, Rows
<1>2. tasks[t].generation \in Nat /\ tasks[t].generation < MaxGeneration
  BY <1>1, AdmissionAssumption DEF Task, TaskFits
<1>3. o \in Occurrences /\ o[1] = t /\ o[2] = tasks[t].generation + 1
  BY <1>2, AdmissionAssumption DEF Next_, Occurrences
<1>4. Fits(tasks[t], o[2], requests[o], attempts[o], workers[o]) /\ Valid(requests[o])
  BY <1>3, RowFacts
<1>5. NextFits(tasks[t], requests[o]) /\ attempts[o] = NoAttempt /\ workers[o] = "none"
  BY <1>2, <1>3, <1>4 DEF Fits
<1>6. /\ requests[o].state \in {"waiting", "offered"}
      /\ tasks[t].ready <=> requests[o].state = "offered"
  BY <1>5 DEF NextFits
<1>7. ~requests[o].owner /\ ~requests[o].source
  BY <1>4, <1>6 DEF Valid
<1> QED BY <1>1, <1>2, <1>3, <1>5, <1>6, <1>7

(* What waits or is offered is the next request of a queued task.          *)
LEMMA WaitingRow ==
    ASSUME AInv, NEW o \in Occurrences, requests[o].state \in {"waiting", "offered"}
    PROVE  o[1] \in Tasks /\ tasks[o[1]].state = "queued" /\ o = Next_(o[1])
<1>1. /\ o = <<o[1], o[2]>> /\ o[1] \in Tasks /\ o[2] \in Nat /\ tasks[o[1]] \in Task
      /\ Fits(tasks[o[1]], o[2], requests[o], attempts[o], workers[o]) /\ Valid(requests[o])
  BY RowFacts
<1>2. tasks[o[1]].generation \in Nat
  BY <1>1, AdmissionAssumption DEF Task
<1>3. ~requests[o].owner /\ requests[o].state # "none"
  BY <1>1 DEF Valid
<1>4. o[2] = tasks[o[1]].generation + 1
  BY <1>1, <1>2, <1>3 DEF Fits
<1>5. NextFits(tasks[o[1]], requests[o])
  BY <1>1, <1>4 DEF Fits
<1>6. tasks[o[1]].state = "queued"
  BY <1>5 DEF NextFits
<1> QED BY <1>1, <1>4, <1>6 DEF Next_

(* The line after a step of request o, which becomes b.                    *)
Lined(o, b) ==
    /\ line' \in Seq(Occurrences) /\ Once(line')
    /\ InLine(line', o) <=> b.state = "waiting"
    /\ \A e \in Occurrences : e # o => (InLine(line', e) <=> InLine(line, e))

(* The request of a queued task changes, and the task becomes k.           *)
LEMMA QueueStep ==
    ASSUME AInv, NEW t \in Tasks, tasks[t].state = "queued", NEW b,
           Moved(resource, requests[Next_(t)], resource', b),
           requests' = [requests EXCEPT ![Next_(t)] = b], Lined(Next_(t), b),
           Valid(b), ~b.owner, ~b.source, b.state # "none",
           NEW k \in Task, k.generation = tasks[t].generation, k.state \in {"queued", "done"},
           NextFits(k, b), tasks' = [tasks EXCEPT ![t] = k], UNCHANGED <<attempts, workers>>
    PROVE  AInv' /\ Within(resource, resource')
<1> DEFINE o == Next_(t)
<1>0. /\ o \in Occurrences /\ o[1] = t /\ o[2] = tasks[t].generation + 1
      /\ tasks[t].generation \in Nat /\ tasks[t].generation < MaxGeneration
      /\ attempts[o] = NoAttempt /\ workers[o] = "none"
  BY QueuedRow
<1>o. o = <<t, tasks[t].generation + 1>>
  BY DEF Next_
<1>1. /\ TypeOK /\ Books /\ Rows /\ Line /\ requests \in [Occurrences -> Request]
      /\ tasks \in [Tasks -> Task] /\ MaxGeneration \in Nat
  BY StateTypes, AdmissionAssumption DEF AInv
<1> HIDE DEF o
<1>2. resource' \in Resource /\ requests' \in [Occurrences -> Request] /\ Books'
  BY <1>0, <1>1, BooksMove DEF o
<1>3. requests'[o] = b /\ \A e \in Occurrences : e # o => requests'[e] = requests[e]
  BY <1>0, <1>1 DEF o
<1>4. /\ tasks' \in [Tasks -> Task] /\ tasks'[t] = k
      /\ \A u \in Tasks : u # t => tasks'[u] = tasks[u]
  BY <1>1
<1>5. TypeOK'
  BY <1>1, <1>2, <1>4 DEF TypeOK, Lined
<1>6. Line'
  BY <1>0, <1>1, <1>3 DEF Line, Lined, o
<1>7. TaskFits(k)
  BY <1>0 DEF TaskFits
<1>8. ASSUME NEW h \in 1..MaxGeneration
      PROVE  Fits(k, h, requests'[<<t, h>>], attempts'[<<t, h>>], workers'[<<t, h>>])
  <2> DEFINE e == <<t, h>>
  <2>0. e \in Occurrences /\ e[1] = t /\ e[2] = h /\ h \in Nat
    BY AdmissionAssumption DEF Occurrences
  <2>1. Fits(tasks[t], h, requests[e], attempts[e], workers[e])
    BY <2>0, RowFacts
  <2>2. CASE h = tasks[t].generation + 1
    <3>1. e = o
      BY <2>2, <1>o
    <3>2. b \in Request /\ b.source = FALSE
      BY DEF Moved, Request
    <3>3. NoAttempt.started = FALSE /\ NoAttempt.state = "none"
      BY DEF NoAttempt
    <3> HIDE DEF e
    <3>4. Fits(k, h, b, NoAttempt, "none")
      <4>1. ~(h =< k.generation) /\ ~(h > k.generation + 1) /\ h # k.generation
        BY <2>2, <1>0
      <4>2. b.source = NoAttempt.started /\ k.state # "active" /\ NoAttempt.state # "deferred"
        BY <3>2, <3>3
      <4>3. "none" \notin {"granted", "running"}
        OBVIOUS
      <4> QED BY <3>3, <4>1, <4>2, <4>3 DEF Fits
    <3> QED BY <3>1, <3>4, <1>0, <1>3 DEF e
  <2>3. CASE h # tasks[t].generation + 1
    <3>1. e # o
      BY <2>3, <1>o
    <3>2. requests'[e] = requests[e]
      BY <2>0, <3>1, <1>3
    <3> HIDE DEF e
    <3>3. Fits(k, h, requests[e], attempts[e], workers[e])
      BY <2>0, <2>1, <2>3, <1>0 DEF Fits
    <3> QED BY <3>2, <3>3 DEF e
  <2> QED BY <2>2, <2>3
<1>9. \A e \in Occurrences : e[1] # t =>
         requests'[e] = requests[e] /\ attempts'[e] = attempts[e] /\ workers'[e] = workers[e]
  BY <1>0, <1>3
<1>10. Rows'
  BY <1>1, <1>4, <1>7, <1>8, <1>9, TaskFrame
<1> QED BY <1>2, <1>5, <1>6, <1>10 DEF AInv, Moved

LEMMA LinedBehind ==
    ASSUME AInv, NEW o \in Occurrences, line' = Append(Without(line, o), o),
           NEW b, b.state = "waiting"
    PROVE  Lined(o, b)
<1> DEFINE s == Without(line, o)
<1>1. /\ s \in Seq(Occurrences) /\ Once(s)
      /\ \A e \in Occurrences : InLine(s, e) <=> InLine(line, e) /\ e # o
  BY StateTypes, WithoutIs DEF AInv, Line
<1> HIDE DEF s
<1>2. ~InLine(s, o)
  BY <1>1
<1>3. line' = Append(s, o)
  BY DEF s
<1>4. /\ line' \in Seq(Occurrences) /\ Once(line')
      /\ \A e \in Occurrences : InLine(line', e) <=> InLine(s, e) \/ e = o
  BY <1>1, <1>2, <1>3, AppendIs
<1> QED BY <1>1, <1>4 DEF Lined

LEMMA LinedLast ==
    ASSUME AInv, NEW o \in Occurrences, requests[o].state # "waiting", line' = Append(line, o),
           NEW b, b.state = "waiting"
    PROVE  Lined(o, b)
<1>1. line \in Seq(Occurrences) /\ Once(line) /\ ~InLine(line, o)
  BY StateTypes DEF AInv, Line
<1>2. /\ line' \in Seq(Occurrences) /\ Once(line')
      /\ \A e \in Occurrences : InLine(line', e) <=> InLine(line, e) \/ e = o
  BY <1>1, AppendIs
<1> QED BY <1>2 DEF Lined

LEMMA LinedOut ==
    ASSUME AInv, NEW o \in Occurrences, line' = Without(line, o), NEW b, b.state # "waiting"
    PROVE  Lined(o, b)
<1>1. /\ line' \in Seq(Occurrences) /\ Once(line')
      /\ \A e \in Occurrences : InLine(line', e) <=> InLine(line, e) /\ e # o
  BY StateTypes, WithoutIs DEF AInv, Line
<1> QED BY <1>1 DEF Lined

(* What is left of a request without an owner is valid.                    *)
LEMMA QueuedValid ==
    ASSUME NEW a \in Request, Valid(a), a.state \in {"waiting", "offered"},
           NEW b \in Request, Keeps(a, b),
           b.state \in {"waiting", "offered", "closed_before_start"}
    PROVE  Valid(b) /\ ~b.owner /\ ~b.source /\ b.state # "none"
BY DEF Valid, Keeps, Request

(* An unclaimed request goes back to the end of the line.                  *)
LEMMA RequeueKeeps ==
    ASSUME AInv, NEW t \in Tasks, tasks[t].state = "queued", Requeue(t, Next_(t)),
           UNCHANGED <<attempts, workers>>
    PROVE  AInv' /\ Within(resource, resource')
<1> DEFINE o == Next_(t)  a == requests[o]  x == Repark(resource, a)
           k == [tasks[t] EXCEPT !.ready = FALSE]
<1>1. /\ resource' = x.r /\ requests' = [requests EXCEPT ![o] = x.a]
      /\ line' = Append(Without(line, o), o) /\ tasks' = [tasks EXCEPT ![t].ready = FALSE]
  BY DEF Requeue, Set
<1>2. o \in Occurrences /\ a.state \in {"waiting", "offered"} /\ ~a.owner /\ tasks[t] \in Task
  BY QueuedRow
<1>3. Stands(resource, a) /\ a \in Request /\ Valid(a)
  BY <1>2, RowFacts
<1>4. Moved(resource, a, x.r, x.a) /\ Keeps(a, x.a) /\ x.a.state = "waiting"
  BY <1>2, <1>3, ReparkMoves DEF Unstarted
<1> HIDE DEF x
<1>5. x.a \in Request
  BY <1>4 DEF Moved
<1>6. Valid(x.a) /\ ~x.a.owner /\ ~x.a.source /\ x.a.state # "none"
  BY <1>2, <1>3, <1>4, <1>5, QueuedValid
<1>7. Lined(o, x.a)
  BY <1>1, <1>2, <1>4, LinedBehind
<1>8. k \in Task /\ k.generation = tasks[t].generation /\ k.state = "queued" /\ k.ready = FALSE
  BY <1>2 DEF Task
<1>9. tasks' = [tasks EXCEPT ![t] = k]
  BY <1>1
<1> HIDE DEF k
<1>10. NextFits(k, x.a)
  BY <1>4, <1>8 DEF NextFits
<1> QED BY <1>1, <1>4, <1>6, <1>7, <1>8, <1>9, <1>10, QueueStep

LEMMA ClaimStaleKeeps ==
    ASSUME AInv, NEW t \in Tasks, ClaimStale(t) \/ LegacyClaim(t)
    PROVE  AInv' /\ Within(resource, resource')
BY RequeueKeeps DEF ClaimStale, LegacyClaim

LEMMA CancelKeeps ==
    ASSUME AInv, NEW t \in Tasks, Cancel(t)
    PROVE  AInv' /\ Within(resource, resource')
<1>0. tasks[t] \in Task /\ tasks \in [Tasks -> Task] /\ UNCHANGED <<attempts, workers>>
  BY StateTypes DEF Cancel
<1>1. CASE tasks[t].state = "queued"
  <2> DEFINE o == Next_(t)  a == requests[o]  x == ReleaseOffer(resource, a)
             b == [x.a EXCEPT !.state = "closed_before_start"]
             k == [tasks[t] EXCEPT !.cancel = TRUE, !.state = "done"]
  <2>1. /\ resource' = Woken(x.r) /\ requests' = [requests EXCEPT ![o] = b]
        /\ line' = Without(line, o)
    BY <1>1 DEF Cancel, Set
  <2>2. tasks' = [tasks EXCEPT ![t] = k]
    BY <1>0, <1>1 DEF Cancel
  <2>3. o \in Occurrences /\ a.state \in {"waiting", "offered"} /\ ~a.owner
    BY <1>1, QueuedRow
  <2>4. Stands(resource, a) /\ a \in Request /\ Valid(a) /\ resource \in Resource
    BY <2>3, RowFacts
  <2>5. Moved(resource, a, x.r, x.a) /\ Keeps(a, x.a) /\ x.a.state = "waiting"
    BY <2>3, <2>4, OfferMoves DEF Unstarted
  <2> HIDE DEF x
  <2>6. x.a \in Request
    BY <2>5 DEF Moved
  <2>7. /\ b \in Request /\ b.state = "closed_before_start" /\ b.revision = x.a.revision
        /\ Keeps(a, b)
    BY <2>5, <2>6 DEF Request, RequestState, Keeps
  <2> HIDE DEF b
  <2>8. Moved(resource, a, x.r, b)
    <3>1. /\ Offering(resource, b) <=> Offering(resource, x.a)
          /\ Occupied(b) <=> Occupied(x.a)
          /\ Unknown(b) <=> Unknown(x.a)
      BY <2>5, <2>7 DEF Offering, Unstarted, Occupied, Unknown
    <3>2. Booked(resource, a, x.r, b)
      BY <2>5, <3>1 DEF Moved, Booked, One
    <3> QED BY <2>5, <2>7, <3>2 DEF Moved
  <2>9. Moved(resource, a, resource', b)
    BY <2>1, <2>4, <2>8, WokenMoves
  <2>10. Valid(b) /\ ~b.owner /\ ~b.source /\ b.state # "none"
    BY <2>3, <2>4, <2>7, QueuedValid
  <2>11. Lined(o, b)
    BY <2>1, <2>3, <2>7, LinedOut
  <2>12. k \in Task /\ k.generation = tasks[t].generation /\ k.state = "done"
    BY <1>0 DEF Task
  <2> HIDE DEF k
  <2>13. NextFits(k, b)
    BY <2>7, <2>12 DEF NextFits
  <2> QED BY <1>0, <1>1, <2>1, <2>2, <2>9, <2>10, <2>11, <2>12, <2>13, QueueStep
<1>2. CASE tasks[t].state = "active"
  <2> DEFINE o == Now(t)  x == Followed(resource, requests[o])
             k == [tasks[t] EXCEPT !.cancel = TRUE]
  <2>1. Set(o, x) /\ line' = line
    BY <1>2 DEF Cancel
  <2>2. tasks' = [tasks EXCEPT ![t] = k]
    BY <1>0, <1>2 DEF Cancel, Task
  <2>3. /\ k \in Task /\ k.generation = tasks[t].generation /\ k.state = tasks[t].state
        /\ k.ready = tasks[t].ready
    BY <1>0 DEF Task
  <2> HIDE DEF k
  <2>4. /\ tasks' \in [Tasks -> Task]
        /\ \A u \in Tasks : /\ tasks'[u].state = tasks[u].state
                            /\ tasks'[u].generation = tasks[u].generation
                            /\ tasks'[u].ready = tasks[u].ready
    BY <1>0, <2>2, <2>3
  <2>5. o \in Occurrences /\ requests[o].owner /\ attempts[o] \in Attempt
    BY <1>2, ActiveRow, RowFacts
  <2>6. Ending(o, x.r, x.a)
    BY <2>5, FollowedEnds
  <2>7. attempts' = [attempts EXCEPT ![o] = attempts[o]]
    BY <1>0, <2>5, StateTypes
  <2> HIDE DEF x, o
  <2> QED BY <1>0, <2>1, <2>4, <2>5, <2>6, <2>7, PlainEnding
<1> QED BY <1>1, <1>2 DEF Cancel

(* The scheduler's turn on an offer that nobody has claimed.               *)
LEMMA TickUnclaimedKeeps ==
    ASSUME AInv, NEW o \in Occurrences, TickOffer(o), requests[o].state = "offered"
    PROVE  AInv' /\ Within(resource, resource')
<1> DEFINE a == requests[o]  t == o[1]
<1>1. t \in Tasks /\ tasks[t].state = "queued" /\ o = Next_(t)
  BY WaitingRow
<1>2. ~a.owner /\ tasks[t] \in Task
  BY <1>1, QueuedRow
<1>3. Stands(resource, a) /\ a \in Request /\ Valid(a) /\ resource \in Resource
  BY RowFacts
<1>4. UNCHANGED <<attempts, workers>>
  BY DEF TickOffer
<1>5. CASE Stale(a)
  <2> DEFINE x == Repark(resource, a)  k == [tasks[t] EXCEPT !.ready = FALSE]
  <2>1. Moved(resource, a, x.r, x.a) /\ Keeps(a, x.a) /\ x.a.state = "waiting"
    BY <1>2, <1>3, ReparkMoves DEF Unstarted
  <2>2. /\ SetRefreshed(o, x) /\ line' = Append(line, o)
        /\ tasks' = [tasks EXCEPT ![t].ready = FALSE]
    BY <1>5, <2>1 DEF TickOffer
  <2> HIDE DEF x
  <2>3. requests' = [requests EXCEPT ![o] = x.a] /\ Moved(resource, a, resource', x.a)
    BY <2>1, <2>2, RefreshMoves
  <2>4. x.a \in Request
    BY <2>1 DEF Moved
  <2>5. Valid(x.a) /\ ~x.a.owner /\ ~x.a.source /\ x.a.state # "none"
    BY <1>3, <2>1, <2>4, QueuedValid
  <2>6. Lined(o, x.a)
    BY <2>1, <2>2, LinedLast
  <2>7. k \in Task /\ k.generation = tasks[t].generation /\ k.state = "queued" /\ k.ready = FALSE
    BY <1>1, <1>2 DEF Task
  <2>8. tasks' = [tasks EXCEPT ![t] = k]
    BY <2>2
  <2> HIDE DEF k
  <2>9. NextFits(k, x.a)
    BY <2>1, <2>7 DEF NextFits
  <2> HIDE DEF t
  <2> QED BY <1>1, <1>4, <2>3, <2>5, <2>6, <2>7, <2>8, <2>9, QueueStep
<1>6. CASE ~Stale(a)
  <2> DEFINE x == [r |-> resource, a |-> a]
  <2>1. x.r = resource /\ x.a = a
    OBVIOUS
  <2>2. SetRefreshed(o, x) /\ UNCHANGED <<line, tasks>>
    BY <1>6, <2>1 DEF TickOffer
  <2> HIDE DEF x
  <2>3. Moved(resource, a, x.r, x.a)
    BY <1>3, <2>1, SameMoves DEF Stands
  <2>4. requests' = [requests EXCEPT ![o] = a] /\ Moved(resource, a, resource', a)
    BY <2>1, <2>2, <2>3, RefreshMoves
  <2>5. Fits(tasks[o[1]], o[2], a, attempts'[o], workers'[o])
    BY <1>4, RowFacts
  <2> QED BY <1>4, <2>2, <2>4, <2>5, RequestStep, StateTypes
<1> QED BY <1>5, <1>6

LEMMA CheckTime ==
    ASSUME AInv, NEW o \in Occurrences
    PROVE  CheckAt(o) \in Nat \cup {None}
<1> DEFINE m == attempts[o].lease  n == requests[o].expires
<1>1. m \in Nat /\ n \in Nat
  BY RowFacts DEF Attempt, Request
<1>2. m \in Int /\ n \in Int
  BY <1>1
<1> HIDE DEF m, n
<1>3. Least({m, n}) \in {m, n}
  BY <1>2, LeastPair
<1>4. Least({m, n}) \in Nat
  BY <1>1, <1>3
<1> QED BY <1>4 DEF CheckAt, m, n

(* A preparation whose time or attempt is over.                            *)
LEMMA ReleaseEnds ==
    ASSUME AInv, NEW o \in Occurrences, requests[o].state = "preparing",
           NEW x, Moved(resource, requests[o], x.r, x.a), Keeps(requests[o], x.a),
           x.a.state \in {"preparing", "closed_before_start"}
    PROVE  Ending(o, x.r, x.a) /\ requests[o].owner
<1> DEFINE a == requests[o]
<1>1. a \in Request /\ Valid(a) /\ a.source = attempts[o].started
  BY RowFacts
<1>2. a.owner
  BY <1>1 DEF Valid
<1>3. x.a \in Request /\ x.a.owner /\ x.a.source = attempts[o].started
  BY <1>1, <1>2 DEF Moved, Keeps
<1>4. Valid(x.a)
  BY <1>1, <1>2, <1>3, OwnedValid DEF Unstarted
<1>5. workers[o] \notin {"granted", "running"}
  BY Invoked DEF Occupied
<1> QED BY <1>2, <1>3, <1>4, <1>5 DEF Ending

LEMMA TickPreparingKeeps ==
    ASSUME AInv, NEW o \in Occurrences, TickOffer(o), requests[o].state = "preparing"
    PROVE  AInv' /\ Within(resource, resource')
<1> DEFINE a == requests[o]
           x == IF Stale(a) THEN Repark(resource, a)
                ELSE IF a.state = "preparing" /\ a.check = 0
                THEN IF CheckAt(o) # None
                     THEN [r |-> resource, a |-> [a EXCEPT !.check = CheckAt(o)]]
                     ELSE ReleaseOffer(resource, a)
                ELSE [r |-> resource, a |-> a]
<1>1. /\ SetRefreshed(o, x) /\ UNCHANGED <<attempts, workers>>
      /\ x.a.state # "waiting" => UNCHANGED <<line, tasks>>
  BY DEF TickOffer
<1>2. Stands(resource, a) /\ a \in Request /\ Valid(a) /\ resource \in Resource
  BY RowFacts
<1>3. a.owner
  BY <1>2 DEF Valid
<1>4. Moved(resource, a, resource, a)
  BY <1>2, SameMoves DEF Stands
<1>5. /\ Moved(resource, a, x.r, x.a) /\ Keeps(a, x.a)
      /\ x.a.state \in {"preparing", "closed_before_start"}
  <2>1. CASE Stale(a)
    <3>1. x = Repark(resource, a)
      BY <2>1
    <3> HIDE DEF x
    <3> QED BY <1>2, <1>3, <3>1, ReparkMoves DEF Unstarted
  <2>2. CASE ~Stale(a) /\ a.check = 0 /\ CheckAt(o) # None
    <3> DEFINE c == CheckAt(o)  b == [a EXCEPT !.check = c]
    <3>1. x.r = resource /\ x.a = b
      BY <2>2
    <3> HIDE DEF x
    <3>2. c \in Nat \cup {None}
      BY CheckTime
    <3> HIDE DEF c
    <3>3. b \in Request /\ b.state = a.state /\ b.revision = a.revision /\ Keeps(a, b)
      BY <1>2, <3>2 DEF Request, Keeps
    <3> HIDE DEF b
    <3>4. Moved(resource, a, resource, b)
      BY <1>2, <1>4, <3>3, DetailMoves
    <3> QED BY <3>1, <3>3, <3>4
  <2>3. CASE ~Stale(a) /\ a.check = 0 /\ CheckAt(o) = None
    <3>1. x = ReleaseOffer(resource, a)
      BY <2>3
    <3> HIDE DEF x
    <3> QED BY <1>2, <1>3, <3>1, OfferMoves DEF Unstarted
  <2>4. CASE ~Stale(a) /\ a.check # 0
    <3>1. x.r = resource /\ x.a = a
      BY <2>4
    <3> HIDE DEF x
    <3> QED BY <1>4, <3>1 DEF Keeps
  <2> QED BY <2>1, <2>2, <2>3, <2>4
<1> HIDE DEF x
<1>6. requests' = [requests EXCEPT ![o] = x.a] /\ Moved(resource, a, resource', x.a)
  BY <1>1, <1>5, RefreshMoves
<1> DEFINE z == [r |-> resource', a |-> x.a]
<1>7. z.r = resource' /\ z.a = x.a
  OBVIOUS
<1> HIDE DEF z
<1>8. Ending(o, z.r, z.a)
  BY <1>5, <1>6, <1>7, ReleaseEnds
<1>9. Set(o, z) /\ UNCHANGED <<line, tasks, attempts, workers>>
  BY <1>1, <1>5, <1>6, <1>7 DEF Set
<1> QED BY <1>3, <1>8, <1>9, PlainEndingOnly

(* The offer itself: room and a token are there for one more.              *)
LEMMA OfferedMoves ==
    ASSUME NEW r, NEW a, Stands(r, a), a.state = "waiting", Capacity(r) > 0, NEW b \in Request,
           b.state = "offered", b.revision = r.revision
    PROVE  Moved(r, a, [r EXCEPT !.offered = @ + 1], b)
<1> DEFINE m == [r EXCEPT !.offered = @ + 1]
<1>0. /\ r \in Resource /\ a \in Request /\ r.offered \in Nat /\ r.started \in Nat
      /\ r.credit \in Nat /\ r.revision \in Nat /\ r.unknown \in Nat
      /\ r.policy \in Policies
  BY ResourceFields DEF Stands
<1>1. /\ r.offered + r.started < r.policy.max_occupancy
      /\ (r.offered + 1) * r.policy.period =< r.credit
  BY <1>0, CapacityGives
<1>2. r.offered + 1 \in Nat
  BY <1>0
<1>3. /\ m \in Resource /\ m.revision = r.revision /\ m.policy = r.policy /\ m.credit = r.credit
      /\ m.offered = r.offered + 1 /\ m.started = r.started /\ m.unknown = r.unknown
  BY <1>0, <1>2 DEF Resource
<1> HIDE DEF m
<1>4. Backed(m)
  BY <1>1, <1>3 DEF Backed, Stands
<1>5. /\ ~Offering(r, a) /\ Offering(r, b) /\ ~Occupied(a) /\ ~Occupied(b)
      /\ ~Unknown(a) /\ ~Unknown(b)
  BY DEF Offering, Unstarted, Occupied, Unknown
<1>6. Booked(r, a, m, b)
  BY <1>0, <1>3, <1>5 DEF Booked, One
<1>7. Within(r, m)
  <2>1. r.policy.max_occupancy \in Nat
    BY <1>0, PolicyFields
  <2> QED BY <1>0, <1>1, <1>3, <2>1 DEF Within
<1>8. b.revision =< r.revision
  BY <1>0
<1>9. Moved(r, a, m, b)
  BY <1>3, <1>4, <1>6, <1>7, <1>8 DEF Moved
<1> QED BY <1>9 DEF m

LEMMA TickAdmitKeeps ==
    ASSUME AInv, NEW o \in Occurrences, TickAdmit(o)
    PROVE  AInv' /\ Within(resource, resource')
<1> DEFINE a == requests[o]  t == o[1]
           b == [a EXCEPT !.state = "offered", !.revision = resource.revision,
                          !.expires = resource.policy.offer_timeout]
           m == [resource EXCEPT !.offered = @ + 1]
           x == [r |-> m, a |-> b]
           k == [tasks[t] EXCEPT !.ready = TRUE]
<1>1. /\ a.state = "waiting" /\ Capacity(resource) > 0 /\ SetRefreshed(o, x)
      /\ line' = Without(line, o) /\ tasks' = [tasks EXCEPT ![t].ready = TRUE]
      /\ UNCHANGED <<attempts, workers>>
  BY DEF TickAdmit, Eligible
<1>2. t \in Tasks /\ tasks[t].state = "queued" /\ o = Next_(t)
  BY <1>1, WaitingRow
<1>3. tasks[t] \in Task
  BY <1>2, StateTypes
<1>4. Stands(resource, a) /\ a \in Request /\ Valid(a) /\ resource \in Resource
  BY RowFacts
<1>5. resource.revision \in Nat /\ resource.policy.offer_timeout \in Nat
  BY <1>4, ResourceFields, PolicyFields
<1>6. b \in Request /\ b.state = "offered" /\ b.revision = resource.revision /\ Keeps(a, b)
  BY <1>4, <1>5 DEF Request, RequestState, Keeps
<1>7. x.r = m /\ x.a = b
  OBVIOUS
<1> HIDE DEF x, b
<1>8. Moved(resource, a, x.r, x.a)
  BY <1>1, <1>4, <1>6, <1>7, OfferedMoves
<1>9. requests' = [requests EXCEPT ![o] = b] /\ Moved(resource, a, resource', b)
  BY <1>1, <1>7, <1>8, RefreshMoves
<1>10. Valid(b) /\ ~b.owner /\ ~b.source /\ b.state # "none"
  BY <1>1, <1>4, <1>6, QueuedValid
<1>11. Lined(o, b)
  BY <1>1, <1>6, LinedOut
<1>12. k \in Task /\ k.generation = tasks[t].generation /\ k.state = "queued" /\ k.ready = TRUE
  BY <1>2, <1>3 DEF Task
<1>13. tasks' = [tasks EXCEPT ![t] = k]
  BY <1>1
<1> HIDE DEF k, t
<1>14. NextFits(k, b)
  BY <1>6, <1>12 DEF NextFits
<1> QED BY <1>1, <1>2, <1>9, <1>10, <1>11, <1>12, <1>13, <1>14, QueueStep

LEMMA TickKeeps ==
    ASSUME AInv, NEW o \in Occurrences, Tick(o)
    PROVE  AInv' /\ Within(resource, resource')
<1>1. TickOffer(o) => requests[o].state = "offered" \/ requests[o].state = "preparing"
  BY DEF TickOffer, Unstarted
<1> QED BY <1>1, TickUnclaimedKeeps, TickPreparingKeeps, TickStartedKeeps, TickPromoteKeeps,
           TickAdmitKeeps DEF Tick

-----------------------------------------------------------------------------
(* A task begins, and an offer is claimed.                                 *)

LEMMA SubmitKeeps ==
    ASSUME AInv, NEW t \in Tasks, Submit(t)
    PROVE  AInv' /\ Within(resource, resource')
<1> DEFINE o == <<t, 1>>  w == [NoRequest EXCEPT !.state = "waiting"]
           k == [tasks[t] EXCEPT !.state = "queued"]
<1>1. /\ tasks[t].state = "none" /\ tasks' = [tasks EXCEPT ![t].state = "queued"]
      /\ resource' = Woken(resource) /\ requests' = [requests EXCEPT ![o] = w]
      /\ line' = Append(line, o) /\ UNCHANGED <<attempts, workers>>
  BY DEF Submit
<1>2. /\ TypeOK /\ Books /\ Rows /\ Line /\ tasks[t] \in Task /\ tasks \in [Tasks -> Task]
      /\ requests \in [Occurrences -> Request] /\ TaskFits(tasks[t]) /\ resource \in Resource
  BY StateTypes DEF AInv, Rows
<1>3. tasks[t].generation = 0 /\ ~tasks[t].ready
  BY <1>1, <1>2 DEF TaskFits
<1>4. o \in Occurrences /\ o[1] = t /\ o[2] = 1 /\ MaxGeneration \in Nat /\ MaxGeneration > 0
  BY AdmissionAssumption DEF Occurrences
<1>5. /\ Fits(tasks[t], 1, requests[o], attempts[o], workers[o]) /\ Stands(resource, requests[o])
  BY <1>4, RowFacts
<1>6. requests[o].state = "none" /\ attempts[o] = NoAttempt /\ workers[o] = "none"
  BY <1>1, <1>3, <1>5 DEF Fits, NextFits
<1>7. /\ w \in Request /\ w.state = "waiting" /\ w.revision = 0 /\ Valid(w)
      /\ w.owner = FALSE /\ w.source = FALSE
  BY DEF NoRequest, Request, RequestState, Valid
<1> HIDE DEF w
<1>8. Moved(resource, requests[o], resource, w)
  <2>1. /\ ~Offering(resource, w) /\ ~Offering(resource, requests[o])
        /\ ~Occupied(w) /\ ~Occupied(requests[o]) /\ ~Unknown(w) /\ ~Unknown(requests[o])
    BY <1>6, <1>7 DEF Offering, Unstarted, Occupied, Unknown
  <2>2. w.revision =< resource.revision
    BY <1>2, <1>7, ResourceFields
  <2> QED BY <1>5, <1>7, <2>1, <2>2, SameMoves
<1>9. Moved(resource, requests[o], resource', w)
  BY <1>1, <1>2, <1>8, WokenMoves
<1>10. resource' \in Resource /\ requests' \in [Occurrences -> Request] /\ Books'
  BY <1>1, <1>2, <1>4, <1>9, BooksMove
<1>11. requests'[o] = w /\ \A e \in Occurrences : e # o => requests'[e] = requests[e]
  BY <1>1, <1>2, <1>4
<1>12. line' \in Seq(Occurrences) /\ Line'
  BY <1>1, <1>4, <1>6, <1>7, <1>11, LineRegister
<1>13. k \in Task /\ k.state = "queued" /\ k.generation = 0 /\ ~k.ready
  BY <1>2, <1>3 DEF Task
<1>14. /\ tasks' \in [Tasks -> Task] /\ tasks'[t] = k
       /\ \A u \in Tasks : u # t => tasks'[u] = tasks[u]
  BY <1>1, <1>2, <1>13
<1> HIDE DEF k
<1>15. TypeOK'
  BY <1>1, <1>2, <1>10, <1>12, <1>14 DEF TypeOK
<1>16. TaskFits(k) /\ NextFits(k, w)
  BY <1>4, <1>7, <1>13 DEF TaskFits, NextFits
<1>17. ASSUME NEW h \in 1..MaxGeneration
       PROVE  Fits(k, h, requests'[<<t, h>>], attempts'[<<t, h>>], workers'[<<t, h>>])
  <2> DEFINE e == <<t, h>>
  <2>0. e \in Occurrences /\ e[1] = t /\ e[2] = h /\ h \in Nat /\ h > 0
    BY AdmissionAssumption DEF Occurrences
  <2>1. Fits(tasks[t], h, requests[e], attempts[e], workers[e])
    BY <2>0, RowFacts
  <2>2. CASE h = 1
    <3>1. e = o
      BY <2>2
    <3>2. NoAttempt.started = FALSE /\ NoAttempt.state = "none"
      BY DEF NoAttempt
    <3> HIDE DEF e, o
    <3>3. Fits(k, h, w, NoAttempt, "none")
      <4>1. ~(h =< k.generation) /\ ~(h > k.generation + 1) /\ h # k.generation
        BY <2>2, <1>13
      <4>2. /\ w.source = NoAttempt.started /\ k.state # "active" /\ NoAttempt.state # "deferred"
            /\ ~w.owner /\ w.state # "none"
        BY <1>7, <1>13, <3>2
      <4>3. "none" \notin {"granted", "running"}
        OBVIOUS
      <4> QED BY <1>7, <1>16, <3>2, <4>1, <4>2, <4>3 DEF Fits
    <3>4. requests'[e] = w /\ attempts'[e] = NoAttempt /\ workers'[e] = "none"
      BY <1>1, <1>6, <1>11, <3>1
    <3> QED BY <3>3, <3>4 DEF e
  <2>3. CASE h # 1
    <3>1. e # o
      BY <2>3
    <3>2. requests'[e] = requests[e] /\ attempts'[e] = attempts[e] /\ workers'[e] = workers[e]
      BY <1>1, <1>11, <2>0, <3>1
    <3> HIDE DEF e, o
    <3>3. Fits(k, h, requests[e], attempts[e], workers[e])
      BY <2>0, <2>1, <2>3, <1>1, <1>3, <1>13 DEF Fits
    <3> QED BY <3>2, <3>3 DEF e
  <2> QED BY <2>2, <2>3
<1>18. \A e \in Occurrences : e[1] # t =>
          requests'[e] = requests[e] /\ attempts'[e] = attempts[e] /\ workers'[e] = workers[e]
  BY <1>1, <1>4, <1>11
<1>19. Rows'
  BY <1>2, <1>14, <1>16, <1>17, <1>18, TaskFrame
<1> QED BY <1>9, <1>10, <1>12, <1>15, <1>19 DEF AInv, Moved

LEMMA ClaimKeeps ==
    ASSUME AInv, NEW t \in Tasks, Claim(t)
    PROVE  AInv' /\ Within(resource, resource')
<1> DEFINE o == Next_(t)  a == requests[o]  g == tasks[t].generation
           c == Least({Lease, AttemptTimeout})
           b == [a EXCEPT !.state = "preparing", !.owner = TRUE,
                          !.expires = AttemptTimeout, !.check = c]
           k == [tasks[t] EXCEPT !.state = "active", !.generation = g + 1, !.ready = FALSE]
           y == [NoAttempt EXCEPT !.state = "active", !.lease = Lease]
<1>1. /\ tasks[t].state = "queued" /\ a.state = "offered"
      /\ resource' = Woken(resource) /\ requests' = [requests EXCEPT ![o] = b]
      /\ attempts' = [attempts EXCEPT ![o] = y]
      /\ workers' = [workers EXCEPT ![o] = "preparing"] /\ line' = line
  BY DEF Claim, Set
<1>2. /\ TypeOK /\ Books /\ Rows /\ Line /\ tasks[t] \in Task /\ tasks \in [Tasks -> Task]
      /\ requests \in [Occurrences -> Request] /\ resource \in Resource
      /\ attempts \in [Occurrences -> Attempt] /\ workers \in [Occurrences -> Stage]
  BY StateTypes DEF AInv
<1>3. /\ o \in Occurrences /\ o[1] = t /\ o[2] = g + 1 /\ g \in Nat /\ g < MaxGeneration
      /\ MaxGeneration \in Nat /\ ~a.source
  BY <1>1, QueuedRow, AdmissionAssumption
<1>o. o = <<t, g + 1>>
  BY DEF Next_
<1>4. Stands(resource, a) /\ a \in Request /\ Valid(a)
  BY <1>3, RowFacts
<1>5. c \in Nat /\ AttemptTimeout \in Nat /\ Lease \in Nat
  <2>1. AttemptTimeout \in Nat /\ Lease \in Nat
    BY AdmissionAssumption
  <2>2. AttemptTimeout \in Int /\ Lease \in Int
    BY <2>1
  <2>3. c \in {Lease, AttemptTimeout}
    BY <2>2, LeastPair
  <2> QED BY <2>1, <2>3
<1> HIDE DEF c
<1>6. /\ b \in Request /\ b.state = "preparing" /\ b.owner = TRUE /\ b.revision = a.revision
      /\ b.source = a.source /\ b.close = a.close /\ b.denied = a.denied
  BY <1>4, <1>5 DEF Request, RequestState
<1> HIDE DEF b
<1>7. Valid(b) /\ b.source = FALSE
  BY <1>1, <1>3, <1>4, <1>6 DEF Valid, Request
<1>8. Moved(resource, a, resource', b)
  <2>1. /\ Offering(resource, b) <=> Offering(resource, a)
        /\ Occupied(b) <=> Occupied(a)
        /\ Unknown(b) <=> Unknown(a)
    BY <1>1, <1>6 DEF Offering, Unstarted, Occupied, Unknown
  <2>2. b.revision =< resource.revision
    BY <1>4, <1>6 DEF Stands
  <2>3. Moved(resource, a, resource, b)
    BY <1>4, <1>6, <2>1, <2>2, SameMoves
  <2> QED BY <1>1, <1>2, <2>3, WokenMoves
<1>9. /\ y \in Attempt /\ y.state = "active" /\ y.started = FALSE
  BY <1>5 DEF NoAttempt, Attempt
<1>10. k \in Task /\ k.state = "active" /\ k.generation = g + 1
  <2>1. g + 1 \in 0..MaxGeneration
    BY <1>3
  <2> QED BY <1>2, <2>1 DEF Task
<1>11. tasks' = [tasks EXCEPT ![t] = k]
  BY <1>2 DEF Claim
<1> HIDE DEF k, y
<1>12. /\ tasks' \in [Tasks -> Task] /\ tasks'[t] = k
       /\ \A u \in Tasks : u # t => tasks'[u] = tasks[u]
  BY <1>2, <1>10, <1>11
<1>13. resource' \in Resource /\ requests' \in [Occurrences -> Request] /\ Books'
  BY <1>1, <1>2, <1>3, <1>8, BooksMove
<1>14. /\ requests'[o] = b /\ attempts'[o] = y /\ workers'[o] = "preparing"
       /\ \A e \in Occurrences : e # o =>
             requests'[e] = requests[e] /\ attempts'[e] = attempts[e] /\ workers'[e] = workers[e]
       /\ attempts' \in [Occurrences -> Attempt] /\ workers' \in [Occurrences -> Stage]
  BY <1>1, <1>2, <1>3, <1>9 DEF Stage
<1>15. TypeOK'
  BY <1>1, <1>2, <1>12, <1>13, <1>14 DEF TypeOK
<1>16. Line'
  BY <1>1, <1>2, <1>6, <1>14, LineFrame
<1>17. TaskFits(k)
  BY <1>3, <1>10 DEF TaskFits
<1>18. ASSUME NEW h \in 1..MaxGeneration
       PROVE  Fits(k, h, requests'[<<t, h>>], attempts'[<<t, h>>], workers'[<<t, h>>])
  <2> DEFINE e == <<t, h>>
  <2>0. e \in Occurrences /\ e[1] = t /\ e[2] = h /\ h \in Nat
    BY AdmissionAssumption DEF Occurrences
  <2>1. Fits(tasks[t], h, requests[e], attempts[e], workers[e])
    BY <2>0, RowFacts
  <2>2. CASE h = g + 1
    <3>1. e = o
      BY <2>2, <1>o
    <3> HIDE DEF e, o
    <3>2. Fits(k, h, b, y, "preparing")
      <4>1. h =< k.generation /\ ~(h > k.generation) /\ h = k.generation
            /\ ~(h > k.generation + 1) /\ h # k.generation + 1
        BY <2>0, <2>2, <1>3, <1>10
      <4>2. b.source = y.started /\ y.state # "deferred" /\ b.state # "none" /\ b.owner
        BY <1>6, <1>7, <1>9
      <4>3. "preparing" \notin {"granted", "running"}
        OBVIOUS
      <4> QED BY <1>7, <1>9, <1>10, <4>1, <4>2, <4>3 DEF Fits
    <3> QED BY <1>14, <3>1, <3>2 DEF e
  <2>3. CASE h # g + 1
    <3>1. e # o
      BY <2>3, <1>o
    <3>2. requests'[e] = requests[e] /\ attempts'[e] = attempts[e] /\ workers'[e] = workers[e]
      BY <1>14, <2>0, <3>1
    <3> HIDE DEF e, o
    <3>3. CASE h =< g
      <4>1. Fits(k, h, requests[e], attempts[e], workers[e])
        BY <2>0, <2>1, <2>3, <3>3, <1>1, <1>3, <1>10 DEF Fits
      <4> QED BY <3>2, <4>1 DEF e
    <3>4. CASE h > g + 1
      <4>1. requests[e].state = "none"
        BY <2>1, <3>4 DEF Fits
      <4>2. NextFits(k, requests[e])
        BY <4>1, <1>10 DEF NextFits
      <4>3. Fits(k, h, requests[e], attempts[e], workers[e])
        BY <2>0, <2>1, <2>3, <3>4, <4>1, <4>2, <1>1, <1>3, <1>10 DEF Fits
      <4> QED BY <3>2, <4>3 DEF e
    <3> QED BY <2>0, <2>3, <1>3, <3>3, <3>4
  <2> QED BY <2>2, <2>3
<1>19. \A e \in Occurrences : e[1] # t =>
          requests'[e] = requests[e] /\ attempts'[e] = attempts[e] /\ workers'[e] = workers[e]
  BY <1>3, <1>14
<1>20. Rows'
  BY <1>2, <1>12, <1>17, <1>18, <1>19, TaskFrame
<1> QED BY <1>8, <1>13, <1>15, <1>16, <1>20 DEF AInv, Moved

-----------------------------------------------------------------------------
(* Steps that concern every request.                                       *)

(* Nothing that is counted changes.                                        *)
LEMMA SameBooks ==
    ASSUME TypeOK, Books, resource' \in Resource, resource'.revision = resource.revision,
           resource'.offered = resource.offered, resource'.started = resource.started,
           resource'.unknown = resource.unknown, Backed(resource'),
           \A e \in Occurrences : /\ requests'[e].state = requests[e].state
                                  /\ requests'[e].revision = requests[e].revision
    PROVE  Books' /\ Within(resource, resource')
<1>1. /\ {o \in Occurrences : Offering(resource', requests'[o])}
           = {o \in Occurrences : Offering(resource, requests[o])}
      /\ {o \in Occurrences : Occupied(requests'[o])} = {o \in Occurrences : Occupied(requests[o])}
      /\ {o \in Occurrences : Unknown(requests'[o])} = {o \in Occurrences : Unknown(requests[o])}
  BY DEF Offering, Unstarted, Occupied, Unknown
<1>2. Counted(resource', requests')
  BY <1>1 DEF Books, Counted
<1>3. Epochs'
  BY DEF Books, Epochs
<1>4. Within(resource, resource')
  BY WithinLess, ResourceFields DEF TypeOK
<1> QED BY <1>2, <1>3, <1>4 DEF Books

LEMMA TickIdleKeeps ==
    ASSUME AInv, TickIdle
    PROVE  AInv' /\ Within(resource, resource')
<1> DEFINE d == Least(Dues(resource, requests))
<1>1. /\ resource' = [resource EXCEPT !.due = d]
      /\ UNCHANGED <<line, requests, tasks, attempts, workers>>
  BY DEF TickIdle
<1>2. d \in Nat \cup {None} /\ resource \in Resource
  BY StateTypes, DueTime
<1> HIDE DEF d
<1>3. /\ resource' \in Resource /\ resource'.revision = resource.revision
      /\ resource'.policy = resource.policy /\ resource'.credit = resource.credit
      /\ resource'.offered = resource.offered /\ resource'.started = resource.started
      /\ resource'.unknown = resource.unknown
  BY <1>1, <1>2 DEF Resource
<1>4. Backed(resource')
  BY <1>3 DEF AInv, Books, Backed
<1>5. Books' /\ Within(resource, resource')
  BY <1>1, <1>3, <1>4, SameBooks DEF AInv
<1>6. TypeOK' /\ Rows' /\ Line'
  BY <1>1, <1>3 DEF AInv, TypeOK, Rows, Line
<1> QED BY <1>5, <1>6 DEF AInv

(* put_resource_once: the offers of the old epoch count no more.           *)
LEMMA PutResourceKeeps ==
    ASSUME AInv, NEW p \in Policies, PutResource(p)
    PROVE  AInv' /\ Within(resource, resource')
<1> DEFINE c == Converted(resource.policy, p, resource.credit)
           m == [resource EXCEPT !.revision = @ + 1, !.policy = p, !.offered = 0, !.credit = c]
<1>1. /\ resource.revision =< MaxRevisions /\ resource' = Woken(m)
      /\ UNCHANGED <<line, requests, tasks, attempts, workers>>
  BY DEF PutResource
<1>2. /\ resource \in Resource /\ resource.policy \in Policies /\ resource.credit \in Nat
      /\ resource.revision \in Nat /\ resource.revision \in 1..(MaxRevisions + 1)
      /\ resource.offered \in Nat /\ resource.started \in Nat /\ MaxRevisions \in Nat
  BY StateTypes, ResourceFields, AdmissionAssumption
<1>3. c \in Nat /\ c =< Full(p)
  BY <1>2, ConvertedFits
<1> HIDE DEF c
<1>4. resource.revision + 1 \in 1..(MaxRevisions + 1)
  BY <1>1, <1>2
<1>5. /\ m \in Resource /\ m.revision = resource.revision + 1 /\ m.policy = p /\ m.offered = 0
      /\ m.credit = c /\ m.started = resource.started /\ m.unknown = resource.unknown
  BY <1>2, <1>3, <1>4 DEF Resource
<1> HIDE DEF m
<1>6. /\ resource' \in Resource /\ resource'.revision = resource.revision + 1
      /\ resource'.policy = p /\ resource'.offered = 0 /\ resource'.credit = c
      /\ resource'.started = resource.started /\ resource'.unknown = resource.unknown
  BY <1>1, <1>5 DEF Woken, Resource
<1>7. Backed(resource')
  <2>1. 0 * p.period = 0
    BY PolicyFields
  <2> QED BY <1>3, <1>6, <2>1 DEF Backed
<1>8. Counted(resource', requests)
  <2>1. \A e \in Occurrences : requests[e].revision \in Nat /\ requests[e].revision =< resource.revision
    BY StateTypes DEF AInv, Books, Epochs, Request
  <2>2. \A e \in Occurrences : requests[e].revision # resource'.revision
    BY <1>2, <1>6, <2>1
  <2>3. {e \in Occurrences : Offering(resource', requests[e])} = {}
    BY <2>2 DEF Offering
  <2>4. Cardinality({e \in Occurrences : Offering(resource', requests[e])}) = 0
    BY <2>3, FS_EmptySet
  <2> QED BY <1>6, <2>4 DEF AInv, Books, Counted
<1>9. Epochs'
  BY <1>1, <1>2, <1>6, StateTypes DEF AInv, Books, Epochs, Request
<1>10. TypeOK' /\ Rows' /\ Line'
  BY <1>1, <1>6 DEF AInv, TypeOK, Rows, Line
<1>11. Within(resource, resource')
  BY <1>2, <1>6, WithinLess
<1> QED BY <1>1, <1>7, <1>8, <1>9, <1>10, <1>11 DEF AInv, Books

LEMMA LessTime ==
    /\ \A n \in Nat : Less(n) \in Nat
    /\ \A n \in Nat \cup {None} : Less(n) \in Nat \cup {None}
    /\ Less(0) = 0 /\ Less(None) = None
BY DEF Less, None

(* The times of a request and of an attempt say nothing of its fit.        *)
LEMMA PassedFits ==
    ASSUME NEW k, NEW g, NEW a \in Request, NEW x \in Attempt, NEW w, Fits(k, g, a, x, w)
    PROVE  LET b == [a EXCEPT !.available = Less(@), !.expires = Less(@), !.check = Less(@)]
               y == [x EXCEPT !.lease = Less(@)]
           IN  /\ b \in Request /\ b.state = a.state /\ b.revision = a.revision
               /\ y \in Attempt /\ Fits(k, g, b, y, w)
<1> DEFINE b == [a EXCEPT !.available = Less(@), !.expires = Less(@), !.check = Less(@)]
           y == [x EXCEPT !.lease = Less(@)]
<1>1. /\ Less(a.available) \in Nat \cup {None} /\ Less(a.expires) \in Nat
      /\ Less(a.check) \in Nat \cup {None} /\ Less(x.lease) \in Nat
  BY LessTime DEF Request, Attempt
<1>2. b \in Request /\ b.state = a.state /\ b.revision = a.revision /\ Keeps(a, b)
  BY <1>1 DEF Request, Keeps
<1>3. y \in Attempt /\ y.state = x.state /\ y.started = x.started
  BY <1>1 DEF Attempt
<1>4. ASSUME a = NoRequest PROVE b = NoRequest
  <2>1. NoRequest.available = None /\ NoRequest.expires = 0 /\ NoRequest.check = None
    BY DEF NoRequest
  <2>2. /\ Less(NoRequest.available) = None /\ Less(NoRequest.expires) = 0
        /\ Less(NoRequest.check) = None
    BY <2>1, LessTime
  <2>3. b = [a EXCEPT !.available = a.available, !.expires = a.expires, !.check = a.check]
    BY <1>4, <2>1, <2>2
  <2>4. [a EXCEPT !.available = a.available, !.expires = a.expires, !.check = a.check] = a
    BY DEF Request
  <2> QED BY <1>4, <2>3, <2>4
<1>5. ASSUME x = NoAttempt PROVE y = NoAttempt
  <2>1. Less(NoAttempt.lease) = 0
    BY LessTime DEF NoAttempt
  <2>2. y = [NoAttempt EXCEPT !.lease = 0]
    BY <1>5, <2>1
  <2>3. [NoAttempt EXCEPT !.lease = 0] = NoAttempt
    BY DEF NoAttempt
  <2> QED BY <2>2, <2>3
<1> HIDE DEF b, y
<1>6. Valid(a) => Valid(b)
  BY <1>2 DEF Valid, Keeps
<1>7. NextFits(k, a) => NextFits(k, b)
  BY <1>2 DEF NextFits
<1>8. Occupied(a) => Occupied(b)
  BY <1>2 DEF Occupied
<1>9. Fits(k, g, b, y, w)
  BY <1>2, <1>3, <1>4, <1>5, <1>6, <1>7, <1>8 DEF Fits, Keeps
<1> QED BY <1>2, <1>3, <1>9 DEF b, y

LEMMA PassKeeps ==
    ASSUME AInv, Pass
    PROVE  AInv' /\ Within(resource, resource')
<1> DEFINE p == resource.policy
           c == Least({resource.credit + p.numerator, Full(p)})
<1>1. /\ resource' = [resource EXCEPT !.due = Less(@), !.credit = c]
      /\ requests' = [o \in Occurrences |->
            [requests[o] EXCEPT !.available = Less(@), !.expires = Less(@), !.check = Less(@)]]
      /\ attempts' = [o \in Occurrences |-> [attempts[o] EXCEPT !.lease = Less(@)]]
      /\ UNCHANGED <<line, tasks, workers>>
  BY DEF Pass
<1>2. /\ resource \in Resource /\ p \in Policies /\ resource.credit \in Nat
      /\ resource.offered \in Nat /\ resource.due \in Nat \cup {None}
      /\ TypeOK /\ Books /\ Rows /\ Line
  BY StateTypes, ResourceFields DEF AInv
<1>3. p.numerator \in Nat /\ Full(p) \in Nat /\ p.period \in Nat
  BY <1>2, PolicyFields
<1>4. resource.credit =< Full(p) /\ resource.offered * p.period =< resource.credit
  BY <1>2 DEF Books, Backed
<1>5. c \in Nat /\ c =< Full(p) /\ resource.credit =< c
  <2> DEFINE m == resource.credit + p.numerator  n == Full(p)
  <2>1. m \in Nat /\ n \in Nat /\ resource.credit =< m /\ resource.credit =< n
    BY <1>2, <1>3, <1>4
  <2>2. m \in Int /\ n \in Int
    BY <2>1
  <2> HIDE DEF m, n
  <2>3. Least({m, n}) \in {m, n} /\ Least({m, n}) =< n
    BY <2>2, LeastPair
  <2>4. c = Least({m, n})
    BY DEF m, n
  <2> HIDE DEF c
  <2> QED BY <2>1, <2>3, <2>4 DEF n
<1> HIDE DEF c
<1>6. /\ resource' \in Resource /\ resource'.revision = resource.revision
      /\ resource'.policy = p /\ resource'.credit = c
      /\ resource'.offered = resource.offered /\ resource'.started = resource.started
      /\ resource'.unknown = resource.unknown
  <2>1. Less(resource.due) \in Nat \cup {None}
    BY <1>2, LessTime
  <2> QED BY <1>1, <1>2, <1>5, <2>1 DEF Resource
<1>7. Backed(resource')
  <2>1. resource.offered * p.period \in Nat
    BY <1>2, <1>3, Product
  <2>2. resource.offered * p.period =< c
    BY <1>2, <1>4, <1>5, <2>1
  <2> QED BY <1>5, <1>6, <2>2 DEF Backed
<1>8. ASSUME NEW e \in Occurrences
      PROVE  /\ requests'[e] \in Request /\ requests'[e].state = requests[e].state
             /\ requests'[e].revision = requests[e].revision /\ attempts'[e] \in Attempt
             /\ Fits(tasks'[e[1]], e[2], requests'[e], attempts'[e], workers'[e])
  <2> DEFINE a == requests[e]  x == attempts[e]
             b == [a EXCEPT !.available = Less(@), !.expires = Less(@), !.check = Less(@)]
             y == [x EXCEPT !.lease = Less(@)]
  <2>1. requests'[e] = b /\ attempts'[e] = y
    BY <1>1
  <2>2. a \in Request /\ x \in Attempt /\ Fits(tasks[e[1]], e[2], a, x, workers[e])
    BY RowFacts
  <2>3. /\ b \in Request /\ b.state = a.state /\ b.revision = a.revision
        /\ y \in Attempt /\ Fits(tasks[e[1]], e[2], b, y, workers[e])
    BY <2>2, PassedFits
  <2> HIDE DEF b, y
  <2> QED BY <1>1, <2>1, <2>3
<1>9. Books' /\ Within(resource, resource')
  BY <1>2, <1>6, <1>7, <1>8, SameBooks
<1>10. TypeOK'
  <2>1. DOMAIN requests' = Occurrences /\ DOMAIN attempts' = Occurrences
    BY <1>1
  <2>2. requests' \in [Occurrences -> Request] /\ attempts' \in [Occurrences -> Attempt]
    BY <1>1, <1>8, <2>1
  <2> QED BY <1>1, <1>2, <1>6, <2>2 DEF TypeOK
<1>11. Rows'
  BY <1>1, <1>2, <1>8 DEF Rows
<1>12. Line'
  BY <1>1, <1>2, <1>8, LineFrame
<1> QED BY <1>9, <1>10, <1>11, <1>12 DEF AInv

-----------------------------------------------------------------------------
(* The invariant.                                                          *)

LEMMA InitInvariant ==
    ASSUME Init
    PROVE  AInv
<1>1. PICK p \in Policies :
         resource = [revision |-> 1, policy |-> p, credit |-> Full(p), offered |-> 0,
                     started |-> 0, unknown |-> 0, due |-> None]
  BY DEF Init
<1>2. Full(p) \in Nat /\ 0 * p.period = 0 /\ MaxRevisions \in Nat
  BY PolicyFields, AdmissionAssumption
<1>3. /\ resource \in Resource /\ resource.revision = 1 /\ resource.policy = p
      /\ resource.credit = Full(p) /\ resource.offered = 0 /\ resource.started = 0
      /\ resource.unknown = 0
  BY <1>1, <1>2 DEF Resource
<1>4. /\ NoRequest \in Request /\ NoRequest.state = "none" /\ NoRequest.revision = 0
      /\ Valid(NoRequest) /\ NoRequest.source = FALSE /\ NoRequest.owner = FALSE
  BY DEF NoRequest, Request, RequestState, Valid
<1>5. NoAttempt \in Attempt /\ NoAttempt.started = FALSE /\ NoAttempt.state = "none"
  BY DEF NoAttempt, Attempt
<1>6. /\ line = <<>> /\ requests = [o \in Occurrences |-> NoRequest]
      /\ attempts = [o \in Occurrences |-> NoAttempt] /\ workers = [o \in Occurrences |-> "none"]
  BY DEF Init
<1>7. ASSUME NEW t \in Tasks
      PROVE  /\ tasks[t] \in Task /\ tasks[t].state = "none" /\ tasks[t].generation = 0
             /\ ~tasks[t].ready
  BY AdmissionAssumption DEF Init, Task
<1>8. TypeOK
  <2>1. tasks \in [Tasks -> Task]
    BY AdmissionAssumption DEF Init, Task
  <2>2. "none" \in Stage
    BY DEF Stage
  <2> QED BY <1>3, <1>4, <1>5, <1>6, <2>1, <2>2 DEF TypeOK
<1>9. \A o \in Occurrences : requests[o].state = "none" /\ requests[o].revision = 0
  BY <1>4, <1>6
<1>10. Books
  <2>1. /\ {o \in Occurrences : Offering(resource, requests[o])} = {}
        /\ {o \in Occurrences : Occupied(requests[o])} = {}
        /\ {o \in Occurrences : Unknown(requests[o])} = {}
    BY <1>9 DEF Offering, Unstarted, Occupied, Unknown
  <2>2. Counted(resource, requests)
    BY <1>3, <2>1, FS_EmptySet DEF Counted
  <2>3. Backed(resource)
    BY <1>2, <1>3 DEF Backed
  <2> QED BY <1>3, <1>9, <2>2, <2>3 DEF Books, Epochs
<1>11. Rows
  <2>1. \A t \in Tasks : TaskFits(tasks[t])
    BY <1>7 DEF TaskFits
  <2>2. ASSUME NEW o \in Occurrences
        PROVE  Fits(tasks[o[1]], o[2], requests[o], attempts[o], workers[o])
    <3> DEFINE k == tasks[o[1]]
    <3>1. o[1] \in Tasks /\ o[2] \in 1..MaxGeneration /\ MaxGeneration \in Nat
      BY AdmissionAssumption DEF Occurrences
    <3>2. k.state = "none" /\ k.generation = 0
      BY <1>7, <3>1
    <3>3. requests[o] = NoRequest /\ attempts[o] = NoAttempt /\ workers[o] = "none"
      BY <1>6
    <3> HIDE DEF k
    <3>4. NextFits(k, NoRequest)
      BY <1>4, <3>2 DEF NextFits
    <3>5. Fits(k, o[2], NoRequest, NoAttempt, "none")
      <4>1. ~(o[2] =< k.generation)
        BY <3>1, <3>2
      <4>2. "none" \notin {"granted", "running"} /\ NoRequest.source = NoAttempt.started
        BY <1>4, <1>5
      <4> QED BY <1>4, <1>5, <3>2, <3>4, <4>1, <4>2 DEF Fits
    <3> QED BY <3>3, <3>5 DEF k
  <2> QED BY <2>1, <2>2 DEF Rows
<1>12. Line
  BY <1>6, <1>9 DEF Line, Once, InLine
<1> QED BY <1>8, <1>10, <1>11, <1>12 DEF AInv

(* Every step keeps the invariant and takes no room the policy has not.    *)
LEMMA NextInvariant ==
    ASSUME AInv, [Next]_vars
    PROVE  AInv' /\ Within(resource, resource')
<1>1. CASE UNCHANGED vars
  <2>1. UNCHANGED <<resource, line, requests, tasks, attempts, workers>>
    BY <1>1 DEF vars
  <2>2. TypeOK' /\ Books' /\ Rows' /\ Line'
    BY <2>1 DEF AInv, TypeOK, Books, Epochs, Rows, Line
  <2> QED BY <2>1, <2>2, StateTypes, WithinLess, ResourceFields DEF AInv
<1>2. CASE Pass \/ TickIdle
  BY <1>2, PassKeeps, TickIdleKeeps
<1>3. CASE \E p \in Policies : PutResource(p)
  BY <1>3, PutResourceKeeps
<1>4. ASSUME NEW t \in Tasks,
             \/ Submit(t) \/ Claim(t) \/ ClaimStale(t) \/ LegacyClaim(t) \/ Renew(t)
             \/ \E confirmed \in BOOLEAN : Settle(t, confirmed)
             \/ ConfirmQuiescence(t) \/ Expire(t) \/ Cancel(t)
      PROVE  AInv' /\ Within(resource, resource')
  BY <1>4, SubmitKeeps, ClaimKeeps, ClaimStaleKeeps, RenewKeeps, SettleKeeps,
     ConfirmQuiescenceKeeps, ExpireKeeps, CancelKeeps
<1>5. ASSUME NEW o \in Occurrences,
             \/ Work(o) \/ StartExisting(o) \/ StartStale(o) \/ StartGranted(o) \/ StartDenied(o)
             \/ Close(o) \/ Release(o) \/ Tick(o)
      PROVE  AInv' /\ Within(resource, resource')
  BY <1>5, WorkKeeps, StartExistingKeeps, StartStaleKeeps, StartGrantedKeeps, StartDeniedKeeps,
     CloseKeeps, ReleaseKeeps, TickKeeps
<1> QED BY <1>1, <1>2, <1>3, <1>4, <1>5 DEF Next

(* Only the transaction that charges the resource grants.                  *)
LEMMA GrantIsCharged ==
    ASSUME AInv, [Next]_vars, NEW o \in Occurrences,
           workers[o] = "asked", workers'[o] = "granted"
    PROVE  StartGranted(o)
<1>0. workers \in [Occurrences -> Stage]
  BY StateTypes
<1>1. ASSUME NEW e \in Occurrences, Work(e) PROVE FALSE
  <2>1. PICK v : workers' = [workers EXCEPT ![e] = v] /\ v # "granted"
    BY <1>1 DEF Work
  <2> QED BY <1>0, <2>1
<1>2. ASSUME NEW e \in Occurrences, StartExisting(e) \/ StartStale(e) \/ StartDenied(e) PROVE FALSE
  BY <1>0, <1>2 DEF StartExisting, StartStale, StartDenied, ReplyExisting
<1>3. ASSUME NEW t \in Tasks, Claim(t) PROVE FALSE
  BY <1>0, <1>3 DEF Claim
<1>4. ASSUME NEW e \in Occurrences, StartGranted(e) PROVE StartGranted(o)
  <2>1. \/ workers' = [workers EXCEPT ![e] = "granted"]
        \/ workers' = workers
    BY <1>4 DEF StartGranted
  <2>2. e = o
    BY <1>0, <2>1
  <2> QED BY <1>4, <2>2
<1>5. workers' # workers
  OBVIOUS
<1>6. ~(UNCHANGED vars) /\ ~Pass /\ ~TickIdle /\ \A p \in Policies : ~PutResource(p)
  BY <1>5 DEF vars, Pass, TickIdle, PutResource
<1>7. ASSUME NEW t \in Tasks
      PROVE  /\ ~Submit(t) /\ ~ClaimStale(t) /\ ~LegacyClaim(t) /\ ~Renew(t)
             /\ \A confirmed \in BOOLEAN : ~Settle(t, confirmed)
             /\ ~ConfirmQuiescence(t) /\ ~Expire(t) /\ ~Cancel(t)
  BY <1>5 DEF Submit, ClaimStale, LegacyClaim, Renew, Settle, ConfirmQuiescence, Expire, Cancel
<1>8. ASSUME NEW e \in Occurrences
      PROVE  ~Close(e) /\ ~Release(e) /\ ~Tick(e)
  BY <1>5 DEF Close, CloseSource, CloseUnstarted, Release, Tick, TickOffer, TickStarted,
              TickPromote, TickAdmit
<1> QED BY <1>1, <1>2, <1>3, <1>4, <1>6, <1>7, <1>8 DEF Next

LEMMA StartCharges ==
    ASSUME AInv, NEW o \in Occurrences, StartGranted(o)
    PROVE  /\ resource'.started = resource.started + 1
           /\ ~requests[o].start /\ requests'[o].start
<1> DEFINE m == [resource EXCEPT !.offered = @ - 1, !.started = @ + 1,
                                 !.credit = @ - resource.policy.period]
           b == [requests[o] EXCEPT !.state = "possibly_dispatched", !.source = TRUE,
                          !.start = TRUE, !.revision = 0, !.expires = 0,
                          !.check = attempts[o].lease]
<1>1. /\ resource' = Woken(m) /\ requests' = [requests EXCEPT ![o] = b] /\ ~requests[o].start
  BY DEF StartGranted, Set, Startable
<1>2. /\ resource \in Resource /\ requests \in [Occurrences -> Request] /\ requests[o] \in Request
  BY StateTypes
<1>3. m.started = resource.started + 1
  BY <1>2 DEF Resource
<1>4. resource'.started = m.started
  BY <1>1, <1>2 DEF Woken, Resource
<1>5. b.start = TRUE
  BY <1>2 DEF Request
<1> HIDE DEF b, m
<1>6. requests'[o] = b
  BY <1>1, <1>2
<1> QED BY <1>1, <1>3, <1>4, <1>5, <1>6

(* What the invariant says to the users of the resource.                   *)
LEMMA InvariantSound ==
    ASSUME AInv
    PROVE  AdmissionSound
<1>1. CountersMatch
  <2>1. \A o \in Occurrences :
          /\ Occupied(requests[o]) <=> requests[o].state \in {"possibly_dispatched", "unknown_occupied"}
          /\ Unknown(requests[o]) <=> requests[o].state \in {"unknown_occupied"}
          /\ Offering(resource, requests[o]) <=>
                Unstarted(requests[o]) /\ requests[o].revision = resource.revision
    BY DEF Occupied, Unknown, Offering
  <2>2. /\ {o \in Occurrences : Occupied(requests[o])}
             = {o \in Occurrences : requests[o].state \in {"possibly_dispatched", "unknown_occupied"}}
        /\ {o \in Occurrences : Unknown(requests[o])}
             = {o \in Occurrences : requests[o].state \in {"unknown_occupied"}}
        /\ {o \in Occurrences : Offering(resource, requests[o])}
             = {o \in Occurrences : Unstarted(requests[o]) /\ requests[o].revision = resource.revision}
    BY <2>1
  <2> QED BY <2>2 DEF AInv, Books, Counted, CountersMatch, Count
<1>2. OffersAreBacked
  BY DEF AInv, Books, Backed, OffersAreBacked
<1>3. InvocationIsCounted /\ RequestsAreValid
  BY Invoked, RowFacts DEF InvocationIsCounted, RequestsAreValid
<1>4. QueuedIsAdmissible
  <2>1. SUFFICES ASSUME NEW t \in Tasks, tasks[t].state = "queued"
                 PROVE  LET a == requests[Next_(t)] IN
                        /\ a.state \in {"waiting", "offered"}
                        /\ tasks[t].ready <=> a.state = "offered"
                        /\ a.state = "waiting" <=> \E i \in DOMAIN line : line[i] = Next_(t)
    BY DEF QueuedIsAdmissible
  <2> DEFINE o == Next_(t)
  <2>2. /\ o \in Occurrences /\ requests[o].state \in {"waiting", "offered"}
        /\ tasks[t].ready <=> requests[o].state = "offered"
    BY <2>1, QueuedRow
  <2>3. requests[o].state = "waiting" <=> InLine(line, o)
    BY <2>2 DEF AInv, Line
  <2> QED BY <2>2, <2>3 DEF InLine
<1>5. DeferredNeverRuns
  <2>1. SUFFICES ASSUME NEW o \in Occurrences, attempts[o].state = "deferred"
                 PROVE  /\ workers[o] \notin {"granted", "running"}
                        /\ ~attempts[o].started /\ ~Startable(o)
    BY DEF DeferredNeverRuns
  <2>2. /\ Fits(tasks[o[1]], o[2], requests[o], attempts[o], workers[o]) /\ Valid(requests[o])
        /\ requests[o].source = attempts[o].started /\ requests[o] \in Request
    BY RowFacts
  <2>3. ~attempts[o].started
    BY <2>1, <2>2 DEF Fits
  <2>4. ~requests[o].source
    BY <2>2, <2>3
  <2>5. ~Occupied(requests[o]) /\ requests[o].state # "administratively_released"
    BY <2>2, <2>4 DEF Valid, Occupied
  <2>6. workers[o] \notin {"granted", "running"}
    BY <2>5, Invoked
  <2>7. ~Startable(o)
    BY <2>1 DEF Startable, Live
  <2> QED BY <2>3, <2>6, <2>7
<1> QED BY <1>1, <1>2, <1>3, <1>4, <1>5 DEF AdmissionSound, AInv

(* The invariant holds of every behaviour of the task admission.           *)
THEOREM AdmissionInvariant == Spec => []AInv
<1>1. Init => AInv
  BY InitInvariant
<1>2. AInv /\ [Next]_vars => AInv'
  BY NextInvariant
<1> QED BY <1>1, <1>2, PTL DEF Spec

(* The books of the resource agree with its requests, every open offer is  *)
(* backed by a token, what a worker may be running is counted, requests    *)
(* are what save accepts, a queued task is never stranded and a deferred   *)
(* attempt never runs, with any number of tasks, generations and policies. *)
THEOREM AdmissionSoundCorrect == Spec => []AdmissionSound
<1>1. AInv => AdmissionSound
  BY InvariantSound
<1> QED BY <1>1, AdmissionInvariant, PTL

(* Occupancy grows only by offers within the policy in force, and a worker *)
(* hears a grant only from the transaction that charged the resource.      *)
THEOREM GrowthIsAdmittedCorrect == Spec => GrowthIsAdmitted
<1>1. AInv /\ [Next]_vars => [Growth]_vars
  <2>1. SUFFICES ASSUME AInv, [Next]_vars PROVE Growth
    OBVIOUS
  <2>2. Within(resource, resource')
    BY <2>1, NextInvariant
  <2>3. ASSUME NEW o \in Occurrences, workers[o] = "asked", workers'[o] = "granted"
        PROVE  /\ resource'.started = resource.started + 1
               /\ ~requests[o].start /\ requests'[o].start
    BY <2>1, <2>3, GrantIsCharged, StartCharges
  <2> QED BY <2>2, <2>3 DEF Growth, Within
<1> QED BY <1>1, AdmissionInvariant, PTL DEF Spec, GrowthIsAdmitted
==============================================================================
