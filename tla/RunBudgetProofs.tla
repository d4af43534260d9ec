--------------------------- MODULE RunBudgetProofs ---------------------------
(***************************************************************************)
(* Proofs about the budget of an execution tree: every physical call and   *)
(* every delegation is charged exactly once and within the policy, for any *)
(* tree, any calls, any retries and a clock that may be set back.          *)
(*                                                                         *)
(* What makes the checked invariants inductive is that a refusal keeps its *)
(* reason: members stay stopped, a reached deadline is recorded with the   *)
(* account, and the calls of the account only grow.  So whoever was once   *)
(* refused a call meets a refusal for ever, though nothing forbids a       *)
(* workflow to ask again.                                                  *)
(***************************************************************************)
EXTENDS RunBudget, FiniteSetTheorems, FunctionTheorems, TLAPS

Sources == Members \X (Calls \cup Members \cup Forks \cup {None}) \X Int

Types ==
    /\ account \in [calls : Nat, delegations : Nat, deadline : BOOLEAN]
    /\ ancestors \in [Members -> (SUBSET Members) \cup {None}]
    /\ \A e \in entries : Valid(e)
    /\ stopped \subseteq Members /\ closed \subseteq Calls /\ claimed \subseteq Calls
    /\ refused \in [Members -> SUBSET Forks]
    /\ refusing \in [Members -> [reason : Denials \ {"CallsExhausted"}, fork : Forks \cup {None}]
                                   \cup {None}]
    /\ late \in BOOLEAN
    /\ granted \in [Calls -> {0, 1}]

(* Entries are found by action and source, belong to enrolled members, and *)
(* the source of a call names its subject.                                 *)
Indexed ==
    /\ \A e, f \in entries : e.action = f.action /\ e.source = f.source => e = f
    /\ \A e \in entries : e.subject \in Enrolled
    /\ \A e \in entries : e.action = "call" => e.source[1] = e.subject

(* The reason of a refusal still stands.                                   *)
Stands(e) ==
    /\ e.reason = "DeadlineExceeded" => account.deadline
    /\ e.action = "call" /\ e.reason = "Cancelled" => Stopped(e.subject)
    /\ e.action = "call" /\ e.reason = "CallsExhausted" => account.calls > MaxCalls - 1

ReasonsStand == \A e \in entries : Stands(e)

(* A grant is recorded with its occurrence.                                *)
Recorded == \A c \in Calls : granted[c] = 1 <=> c \in claimed

GrantedCalls == {c \in Calls : granted[c] > 0}

Counts ==
    /\ IsFiniteSet(Authorized("call")) /\ IsFiniteSet(Authorized("delegation"))
    /\ account.calls = Cardinality(Authorized("call"))
    /\ account.calls = Cardinality(GrantedCalls)
    /\ account.delegations = Cardinality(Authorized("delegation"))
    /\ account.delegations = Cardinality(Enrolled) - 1
    /\ account.calls =< MaxCalls /\ account.delegations =< MaxDelegations

(* Only enrolled members are being refused a delegation.                   *)
RefusingEnrolled == \A m \in Members : refusing[m] # None => m \in Enrolled

BInv ==
    /\ Types /\ Indexed /\ ReasonsStand /\ Recorded /\ Counts /\ RefusingEnrolled
    /\ RefusedStaysRefused

LedgerStep == StoppedSubtreeIsClosed /\ DeadlineIsFinal /\ LedgerIsAppendOnly

-----------------------------------------------------------------------------
(* The invariant implies what the runs check.                              *)
LEMMA Sound == ASSUME BInv PROVE BudgetSound
<1>1. TypeOK
  BY DEF BInv, Types, TypeOK
<1>2. EveryUseIsCharged
  BY DEF BInv, Types, Counts, GrantedCalls, EveryUseIsCharged
<1>. QED BY <1>1, <1>2 DEF BInv, BudgetSound

(* create: an account without entries and the root as only member.         *)
LEMMA InitSound == ASSUME Init PROVE BInv
<1>1. Types
  BY BudgetAssumption DEF Init, Types
<1>2. Indexed /\ ReasonsStand /\ Recorded /\ RefusingEnrolled /\ RefusedStaysRefused
  BY BudgetAssumption
     DEF Init, Indexed, ReasonsStand, Recorded, RefusingEnrolled, RefusedStaysRefused
<1>3. Counts
  <2>1. Authorized("call") = {} /\ Authorized("delegation") = {} /\ GrantedCalls = {}
    BY DEF Init, Authorized, GrantedCalls
  <2>2. Enrolled = {RootRun}
    BY BudgetAssumption DEF Init, Enrolled
  <2>3. Cardinality({RootRun}) = 1
    BY FS_Singleton
  <2>4. IsFiniteSet({}) /\ Cardinality({}) = 0
    BY FS_EmptySet
  <2>5. account.calls = 0 /\ account.delegations = 0 /\ MaxCalls >= 0 /\ MaxDelegations >= 0
    BY BudgetAssumption DEF ValidPolicy, Init
  <2>. QED BY <2>1, <2>2, <2>3, <2>4, <2>5 DEF Counts
<1>. QED BY <1>1, <1>2, <1>3 DEF BInv

-----------------------------------------------------------------------------
(* An account whose parts are what a step changed of it.                   *)
LEMMA Denied ==
    ASSUME BInv, NEW m \in Members, NEW action \in {"call", "delegation"},
           NEW count \in Nat
    PROVE  LET d == Denial(m, action, count) IN
           /\ d \in Denials \cup {None}
           /\ d = None <=> d \notin Denials
           /\ d = None => /\ ~Stopped(m) /\ ~account.deadline
                          /\ action = "call" => account.calls + count =< MaxCalls
                          /\ action = "delegation" => account.delegations + count =< MaxDelegations
           /\ d = "Cancelled" => Stopped(m)
           /\ d = "CallsExhausted" => action = "call" /\ account.calls > MaxCalls - count
           /\ d = "DelegationsExhausted" => action = "delegation"
<1>1. account.calls \in Nat /\ account.delegations \in Nat /\ MaxCalls \in Nat /\ MaxDelegations \in Nat
      /\ None \notin Denials
  BY BudgetAssumption DEF ValidPolicy, BInv, Types
<1>. QED BY <1>1 DEF Denial, Denials

(* Authorizing one call: the ledger gains one entry that was not there.    *)
LEMMA CallAuthorized ==
    ASSUME BInv, NEW w \in Members, w \in Enrolled, NEW c \in Calls, OwnerOf[c] = w,
           c \notin claimed, Denial(w, "call", 1) = None,
           Authorize(w, "call", {GrantKey(c)}), Handed(c),
           UNCHANGED <<ancestors, stopped, closed, refused, refusing, late>>
    PROVE  BInv' /\ LedgerStep
<1>. DEFINE k == <<w, c, 0>>
            new == Made(w, "call", k, None, None)
<1>1. /\ ~Stopped(w) /\ ~account.deadline /\ account.calls + 1 =< MaxCalls
      /\ account.calls \in Nat /\ MaxCalls \in Nat
  BY Denied, BudgetAssumption DEF ValidPolicy, BInv, Types
<1>2. granted[c] = 0 /\ GrantKey(c) = k
  BY DEF BInv, Types, Recorded, GrantKey
<1>3. /\ \A e \in entries : ~(e.action = "call" /\ e.source = k)
      /\ entries' = entries \cup {new}
      /\ account' = [account EXCEPT !.calls = @ + Cardinality({k})]
  <2>1. /\ Find("call", k) = {}
        /\ entries' = entries \cup {Made(w, "call", x, None, None) : x \in {k}}
        /\ account' = [account EXCEPT !.calls = @ + Cardinality({k})]
    BY <1>2 DEF Authorize
  <2>. QED BY <2>1 DEF Find
<1>4. /\ account' \in [calls : Nat, delegations : Nat, deadline : BOOLEAN]
      /\ account'.calls = account.calls + 1 /\ account'.delegations = account.delegations
      /\ account'.deadline = account.deadline
  <2>1. Cardinality({k}) = 1
    BY FS_Singleton
  <2>2. account \in [calls : Nat, delegations : Nat, deadline : BOOLEAN]
    BY DEF BInv, Types
  <2>. QED BY <1>3, <2>1, <2>2
<1>5. /\ claimed' = claimed \cup {c} /\ granted' = [granted EXCEPT ![c] = 1]
  BY <1>2 DEF Handed
<1>6. /\ new.subject = w /\ new.action = "call" /\ new.reason = None /\ new.source = k
      /\ new.usage = "unknown" /\ Valid(new)
  BY BudgetAssumption DEF Made, Valid, Entry, Usages, Denials
<1>. HIDE DEF new
<1>7. Types'
  BY <1>3, <1>4, <1>5, <1>6 DEF BInv, Types
<1>8. Enrolled' = Enrolled /\ \A m : Stopped(m)' <=> Stopped(m)
  BY DEF Enrolled, Stopped
<1>9. Indexed'
  <2>1. k[1] = w
    OBVIOUS
  <2>. QED BY <1>3, <1>6, <1>8, <2>1 DEF BInv, Indexed
<1>10. ReasonsStand'
  <2>1. ASSUME NEW e \in entries PROVE Stands(e)'
    <3>1. Stands(e)
      BY DEF BInv, ReasonsStand
    <3>. QED BY <1>1, <1>4, <1>8, <3>1 DEF Stands
  <2>2. Stands(new)'
    BY <1>6, BudgetAssumption DEF Stands, Denials
  <2>. QED BY <1>3, <2>1, <2>2 DEF ReasonsStand
<1>11. Recorded' /\ RefusingEnrolled'
  BY <1>5, <1>8 DEF BInv, Types, Recorded, RefusingEnrolled
<1>12. Counts'
  <2>1. Authorized("call")' = Authorized("call") \cup {new} /\ new \notin Authorized("call")
    BY <1>3, <1>6 DEF Authorized
  <2>2. Authorized("delegation")' = Authorized("delegation")
    BY <1>3, <1>6 DEF Authorized
  <2>3. GrantedCalls' = GrantedCalls \cup {c} /\ c \notin GrantedCalls
    BY <1>2, <1>5 DEF GrantedCalls, BInv, Types
  <2>4. IsFiniteSet(GrantedCalls)
    BY FS_Subset, BudgetAssumption DEF GrantedCalls
  <2>5. IsFiniteSet(Authorized("call")) /\ Counts
    BY DEF BInv, Counts
  <2>6. /\ IsFiniteSet(Authorized("call") \cup {new})
        /\ Cardinality(Authorized("call") \cup {new}) = Cardinality(Authorized("call")) + 1
    BY <2>1, <2>5, FS_AddElement
  <2>7. Cardinality(GrantedCalls \cup {c}) = Cardinality(GrantedCalls) + 1
    BY <2>3, <2>4, FS_AddElement
  <2>. QED BY <1>1, <1>4, <1>8, <2>1, <2>2, <2>3, <2>5, <2>6, <2>7 DEF Counts
<1>13. RefusedStaysRefused'
  <2>. SUFFICES ASSUME NEW e \in entries', NEW d \in Calls, e.action = "call", e.reason # None,
                       e.source = DenialKey(d)
                PROVE  granted'[d] = 0
    BY DEF RefusedStaysRefused, DenialKey
  <2>1. e \in entries /\ Valid(e) /\ Stands(e) /\ e.source[1] = e.subject
    BY <1>3, <1>6 DEF BInv, Types, ReasonsStand, Indexed
  <2>2. granted[d] = 0
    BY <2>1 DEF BInv, RefusedStaysRefused
  <2>3. d # c
    <3>1. SUFFICES ASSUME d = c PROVE FALSE
      OBVIOUS
    <3>2. e.subject = w
      BY <2>1, <3>1 DEF DenialKey
    <3>3. e.reason \in {"Cancelled", "DeadlineExceeded", "CallsExhausted"}
      BY <2>1 DEF Valid, Entry, Denials
    <3>. QED BY <1>1, <2>1, <3>2, <3>3 DEF Stands
  <2>. QED BY <1>5, <2>2, <2>3 DEF BInv, Types
<1>14. LedgerStep
  <2>1. StoppedSubtreeIsClosed
    <3>1. \A e \in entries' \ entries : e = new
      BY <1>3
    <3>. QED BY <1>1, <1>6, <3>1 DEF StoppedSubtreeIsClosed, Stopped
  <2>2. DeadlineIsFinal
    BY <1>1 DEF DeadlineIsFinal, BInv, ReasonsStand, Stands
  <2>3. LedgerIsAppendOnly
    <3>1. ASSUME NEW e \in entries PROVE e = [e EXCEPT !.usage = e.usage]
      BY DEF BInv, Types, Valid, Entry
    <3>. QED BY <1>3, <3>1 DEF LedgerIsAppendOnly
  <2>. QED BY <2>1, <2>2, <2>3 DEF LedgerStep
<1>. QED BY <1>7, <1>9, <1>10, <1>11, <1>12, <1>13, <1>14 DEF BInv

-----------------------------------------------------------------------------
(* What a step outside the ledger may change: the stops grow, a refusal is *)
(* begun or over.                                                          *)
Aside ==
    /\ UNCHANGED <<ancestors, claimed, granted>>
    /\ stopped \subseteq stopped' /\ stopped' \subseteq Members /\ closed' \subseteq Calls
    /\ refused' \in [Members -> SUBSET Forks]
    /\ refusing' \in [Members -> [reason : Denials \ {"CallsExhausted"}, fork : Forks \cup {None}]
                                    \cup {None}]
    /\ \A m \in Members : refusing'[m] # None => m \in Enrolled
    /\ late' \in BOOLEAN

(* A step that leaves the ledger alone.                                    *)
LEMMA AsideSound ==
    ASSUME BInv, Aside, UNCHANGED <<entries, account>>
    PROVE  BInv' /\ LedgerStep
<1>1. Enrolled' = Enrolled /\ \A m : Stopped(m) => Stopped(m)'
  BY DEF Aside, Enrolled, Stopped
<1>2. Types' /\ Indexed' /\ Recorded' /\ RefusingEnrolled'
  BY <1>1 DEF BInv, Aside, Types, Indexed, Recorded, RefusingEnrolled
<1>3. ReasonsStand'
  <2>1. ASSUME NEW e \in entries PROVE Stands(e)'
    <3>1. Stands(e)
      BY DEF BInv, ReasonsStand
    <3>. QED BY <1>1, <3>1 DEF Stands
  <2>. QED BY <2>1 DEF ReasonsStand
<1>4. Counts'
  BY <1>1 DEF BInv, Aside, Counts, Authorized, GrantedCalls
<1>5. RefusedStaysRefused'
  BY DEF BInv, Aside, RefusedStaysRefused, DenialKey
<1>6. LedgerStep
  <2>1. ASSUME NEW e \in entries PROVE e = [e EXCEPT !.usage = e.usage]
    BY DEF BInv, Types, Valid, Entry
  <2>. QED BY <2>1 DEF Aside, LedgerStep, StoppedSubtreeIsClosed, DeadlineIsFinal, LedgerIsAppendOnly
<1>. QED BY <1>2, <1>3, <1>4, <1>5, <1>6 DEF BInv

(* A refusal whose reason holds when it is recorded, or, of a delegation,  *)
(* held when it was decided.                                               *)
LEMMA RefusalSound ==
    ASSUME BInv, Aside,
           NEW m \in Members, m \in Enrolled, NEW action \in {"call", "delegation"},
           NEW source \in Sources, NEW reason \in Denials, NEW command \in Commands \cup {None},
           Find(action, source) = {},
           entries' = entries \cup {Made(m, action, source, reason, command)},
           account' = [account EXCEPT !.deadline = @ \/ reason = "DeadlineExceeded"],
           reason # IF action = "call" THEN "DelegationsExhausted" ELSE "CallsExhausted",
           action = "call" =>
               /\ source[1] = m
               /\ reason = "Cancelled" => Stopped(m)
               /\ reason = "CallsExhausted" => account.calls > MaxCalls - 1
               /\ \A c \in Calls : source = DenialKey(c) => granted[c] = 0
    PROVE  BInv' /\ LedgerStep
<1>. DEFINE new == Made(m, action, source, reason, command)
<1>1. /\ new.subject = m /\ new.action = action /\ new.reason = reason /\ new.source = source
      /\ new.usage = "unknown" /\ Valid(new) /\ reason # None
  BY BudgetAssumption DEF Made, Valid, Entry, Usages, Sources
<1>2. /\ account' \in [calls : Nat, delegations : Nat, deadline : BOOLEAN]
      /\ account'.calls = account.calls /\ account'.delegations = account.delegations
      /\ account'.deadline <=> (account.deadline \/ reason = "DeadlineExceeded")
  BY DEF BInv, Types
<1>. HIDE DEF new
<1>3. Enrolled' = Enrolled /\ \A x : Stopped(x) => Stopped(x)'
  BY DEF Aside, Enrolled, Stopped
<1>4. entries' = entries \cup {new}
  BY DEF new
<1>5. Types'
  BY <1>1, <1>2, <1>4 DEF BInv, Types, Aside
<1>6. Indexed'
  BY <1>1, <1>3, <1>4 DEF BInv, Indexed, Find
<1>7. Recorded' /\ RefusingEnrolled'
  BY <1>3 DEF BInv, Aside, Recorded, RefusingEnrolled
<1>8. ReasonsStand'
  <2>1. ASSUME NEW e \in entries PROVE Stands(e)'
    <3>1. Stands(e)
      BY DEF BInv, ReasonsStand
    <3>. QED BY <1>2, <1>3, <3>1 DEF Stands
  <2>2. Stands(new)'
    BY <1>1, <1>2, <1>3 DEF Stands
  <2>. QED BY <1>4, <2>1, <2>2 DEF ReasonsStand
<1>9. Counts'
  <2>1. /\ Authorized("call")' = Authorized("call")
        /\ Authorized("delegation")' = Authorized("delegation")
        /\ GrantedCalls' = GrantedCalls
    BY <1>1, <1>4 DEF Authorized, GrantedCalls, Aside
  <2>. QED BY <1>2, <1>3, <2>1 DEF BInv, Counts
<1>10. RefusedStaysRefused'
  <2>. SUFFICES ASSUME NEW e \in entries', NEW d \in Calls, e.action = "call", e.reason # None,
                       e.source = DenialKey(d)
                PROVE  granted'[d] = 0
    BY DEF RefusedStaysRefused, DenialKey
  <2>1. CASE e \in entries
    BY <2>1 DEF BInv, RefusedStaysRefused, Aside
  <2>2. CASE e = new
    BY <1>1, <2>2 DEF Aside
  <2>. QED BY <1>4, <2>1, <2>2
<1>11. LedgerStep
  <2>1. StoppedSubtreeIsClosed
    BY <1>1, <1>4 DEF StoppedSubtreeIsClosed, Aside
  <2>2. DeadlineIsFinal
    BY <1>2 DEF DeadlineIsFinal
  <2>3. LedgerIsAppendOnly
    <3>1. ASSUME NEW e \in entries PROVE e = [e EXCEPT !.usage = e.usage]
      BY DEF BInv, Types, Valid, Entry
    <3>. QED BY <1>4, <3>1 DEF LedgerIsAppendOnly
  <2>. QED BY <2>1, <2>2, <2>3 DEF LedgerStep
<1>. QED BY <1>5, <1>6, <1>7, <1>8, <1>9, <1>10, <1>11 DEF BInv

-----------------------------------------------------------------------------
(* A call that is refused now, by either of the two ways to record it.     *)
LEMMA CallRefused ==
    ASSUME BInv, Aside, NEW c \in Calls, NEW w \in Members, w = OwnerOf[c],
           w \in Enrolled, c \notin claimed, NEW command \in Commands \cup {None},
           Denial(w, "call", 1) # None,
           \/ BoundRefusal(w, DenialKey(c), Denial(w, "call", 1), command)
           \/ Deny(w, "call", DenialKey(c), Denial(w, "call", 1), command)
    PROVE  BInv' /\ LedgerStep
<1>. DEFINE d == Denial(w, "call", 1)
            key == DenialKey(c)
<1>1. /\ d \in Denials /\ d # "DelegationsExhausted"
      /\ d = "Cancelled" => Stopped(w)
      /\ d = "CallsExhausted" => account.calls > MaxCalls - 1
  BY Denied
<1>2. /\ key \in Sources /\ key[1] = w
      /\ \A x \in Calls : key = DenialKey(x) => x = c
  BY DEF DenialKey, Sources
<1>3. granted[c] = 0
  BY DEF BInv, Types, Recorded
<1>. HIDE DEF d, key
<1>4. \/ UNCHANGED <<entries, account>>
      \/ /\ Find("call", key) = {}
         /\ entries' = entries \cup {Made(w, "call", key, d, command)}
         /\ account' = [account EXCEPT !.deadline = @ \/ d = "DeadlineExceeded"]
  BY DEF BoundRefusal, Deny, d, key
<1>5. CASE UNCHANGED <<entries, account>>
  BY <1>5, AsideSound
<1>6. CASE /\ Find("call", key) = {}
           /\ entries' = entries \cup {Made(w, "call", key, d, command)}
           /\ account' = [account EXCEPT !.deadline = @ \/ d = "DeadlineExceeded"]
  BY <1>1, <1>2, <1>3, <1>6, RefusalSound
<1>. QED BY <1>4, <1>5, <1>6

(* A usage report changes one entry.                                       *)
LEMMA UsageSound ==
    ASSUME BInv, NEW c \in Calls, NEW u \in Usages, Usage(c, u)
    PROVE  BInv' /\ LedgerStep
<1>1. PICK e \in entries : /\ e.action = "call" /\ e.reason = None /\ e.usage = "unknown"
                           /\ entries' = (entries \ {e}) \cup {[e EXCEPT !.usage = u]}
  BY DEF Usage, Find
<1>2. /\ UNCHANGED <<account, ancestors, stopped, closed, refused, refusing, late, claimed, granted>>
      /\ u # "unknown"
  BY DEF Usage
<1>. DEFINE new == [e EXCEPT !.usage = u]
<1>3. /\ new.subject = e.subject /\ new.action = "call" /\ new.reason = None
      /\ new.source = e.source /\ new.usage = u /\ Valid(new) /\ Valid(e)
  <2>1. Valid(e)
    BY DEF BInv, Types
  <2>. QED BY <1>1, <2>1 DEF Valid, Entry
<1>4. entries' = (entries \ {e}) \cup {new} /\ new = [e EXCEPT !.usage = u]
  BY <1>1
<1>. HIDE DEF new
<1>5. new \notin entries
  BY <1>1, <1>2, <1>3 DEF BInv, Indexed
<1>6. Enrolled' = Enrolled /\ \A m : Stopped(m)' <=> Stopped(m)
  BY <1>2 DEF Enrolled, Stopped
<1>7. Types'
  BY <1>2, <1>3, <1>4 DEF BInv, Types
<1>8. Indexed'
  <2>1. ASSUME NEW f \in entries', NEW g \in entries', f.action = g.action, f.source = g.source
        PROVE  f = g
    <3>1. \A x \in entries \ {e} : ~(x.action = new.action /\ x.source = new.source)
      BY <1>1, <1>3 DEF BInv, Indexed
    <3>2. CASE f = new \/ g = new
      BY <1>4, <2>1, <3>1, <3>2
    <3>3. CASE f # new /\ g # new
      BY <1>4, <2>1, <3>3 DEF BInv, Indexed
    <3>. QED BY <3>2, <3>3
  <2>2. ASSUME NEW f \in entries'
        PROVE  f.subject \in Enrolled' /\ (f.action = "call" => f.source[1] = f.subject)
    <3>1. /\ e.subject \in Enrolled /\ e.source[1] = e.subject
      BY <1>1 DEF BInv, Indexed
    <3>2. CASE f = new
      BY <1>3, <1>6, <3>1, <3>2
    <3>3. CASE f # new
      BY <1>4, <1>6, <3>3 DEF BInv, Indexed
    <3>. QED BY <3>2, <3>3
  <2>. QED BY <2>1, <2>2 DEF Indexed
<1>9. Recorded' /\ RefusingEnrolled'
  BY <1>2, <1>6 DEF BInv, Recorded, RefusingEnrolled
<1>10. ReasonsStand'
  <2>1. ASSUME NEW f \in entries PROVE Stands(f)'
    <3>1. Stands(f)
      BY DEF BInv, ReasonsStand
    <3>. QED BY <1>2, <1>6, <3>1 DEF Stands
  <2>2. Stands(new)'
    BY <1>3, BudgetAssumption DEF Stands, Denials
  <2>. QED BY <1>4, <2>1, <2>2 DEF ReasonsStand
<1>11. Counts'
  <2>. DEFINE A == Authorized("call")
  <2>1. /\ Authorized("call")' = (A \ {e}) \cup {new} /\ e \in A /\ new \notin A \ {e}
        /\ Authorized("delegation")' = Authorized("delegation")
    BY <1>1, <1>3, <1>4, <1>5 DEF Authorized
  <2>2. IsFiniteSet(A) /\ Counts
    BY DEF BInv, Counts
  <2>3. /\ IsFiniteSet(A \ {e}) /\ Cardinality(A \ {e}) = Cardinality(A) - 1
        /\ Cardinality(A) \in Nat
    BY <2>1, <2>2, FS_RemoveElement, FS_CardinalityType
  <2>4. /\ IsFiniteSet((A \ {e}) \cup {new})
        /\ Cardinality((A \ {e}) \cup {new}) = Cardinality(A)
    BY SMTT(30), <2>1, <2>3, FS_AddElement
  <2>. HIDE DEF A
  <2>5. GrantedCalls' = GrantedCalls
    BY <1>2 DEF GrantedCalls
  <2>. QED BY <1>2, <1>6, <2>1, <2>2, <2>4, <2>5 DEF Counts, A
<1>12. RefusedStaysRefused'
  BY <1>2, <1>3, <1>4 DEF BInv, RefusedStaysRefused, DenialKey
<1>13. LedgerStep
  <2>1. StoppedSubtreeIsClosed
    BY <1>2, <1>3, <1>4 DEF StoppedSubtreeIsClosed
  <2>2. DeadlineIsFinal
    BY <1>2 DEF DeadlineIsFinal
  <2>3. LedgerIsAppendOnly
    <3>1. ASSUME NEW f \in entries PROVE f = [f EXCEPT !.usage = f.usage]
      BY DEF BInv, Types, Valid, Entry
    <3>2. ASSUME NEW f \in entries, f # e PROVE f \in entries'
      BY <1>4, <3>2
    <3>3. new \in entries' /\ new = [e EXCEPT !.usage = new.usage]
      BY <1>3, <1>4
    <3>. QED BY <1>1, <3>1, <3>2, <3>3 DEF LedgerIsAppendOnly
  <2>. QED BY <2>1, <2>2, <2>3 DEF LedgerStep
<1>. QED BY <1>7, <1>8, <1>9, <1>10, <1>11, <1>12, <1>13 DEF BInv

(* The charges of children enrolled together.                              *)
ChildSources(w, kids) == {<<w, k, 0>> : k \in kids}
ChildEntries(w, kids) == {Made(w, "delegation", s, None, None) : s \in ChildSources(w, kids)}

(* Cardinality of a disjoint union.                                        *)
LEMMA Disjoint ==
    ASSUME NEW S, NEW T, IsFiniteSet(S), IsFiniteSet(T), S \cap T = {}
    PROVE  /\ IsFiniteSet(S \cup T) /\ Cardinality(S) \in Nat /\ Cardinality(T) \in Nat
           /\ Cardinality(S \cup T) = Cardinality(S) + Cardinality(T)
<1>1. Cardinality(S) \in Nat /\ Cardinality(T) \in Nat
  BY FS_CardinalityType
<1>2. /\ IsFiniteSet(S \cup T)
      /\ Cardinality(S \cup T) = Cardinality(S) + Cardinality(T) - Cardinality(S \cap T)
  BY FS_Union
<1>3. Cardinality(S \cap T) = 0
  BY FS_EmptySet
<1>. QED BY <1>1, <1>2, <1>3

(* They are as many as the children.                                       *)
LEMMA ManyCharged ==
    ASSUME NEW w, NEW kids, IsFiniteSet(kids)
    PROVE  /\ Cardinality(ChildSources(w, kids)) = Cardinality(kids)
           /\ IsFiniteSet(ChildEntries(w, kids))
           /\ Cardinality(ChildEntries(w, kids)) = Cardinality(kids)
<1>. DEFINE sources == {<<w, k, 0>> : k \in kids}
            made    == {Made(w, "delegation", s, None, None) : s \in sources}
            f == [k \in kids |-> <<w, k, 0>>]
            g == [s \in sources |-> Made(w, "delegation", s, None, None)]
<1>1. f \in Bijection(kids, sources)
  <2>1. f \in [kids -> sources] /\ \A a, b \in kids : f[a] = f[b] => a = b
    OBVIOUS
  <2>2. \A t \in sources : \E k \in kids : f[k] = t
    OBVIOUS
  <2>. QED BY <2>1, <2>2, Fun_IsBij
<1>2. IsFiniteSet(sources) /\ Cardinality(sources) = Cardinality(kids)
  BY <1>1, FS_Bijection DEF ExistsBijection
<1>3. g \in Bijection(sources, made)
  <2>1. g \in [sources -> made]
    OBVIOUS
  <2>2. \A a, b \in sources : g[a] = g[b] => a = b
    BY DEF Made
  <2>3. \A t \in made : \E x \in sources : g[x] = t
    OBVIOUS
  <2>. QED BY <2>1, <2>2, <2>3, Fun_IsBij
<1>4. IsFiniteSet(made) /\ Cardinality(made) = Cardinality(sources)
  BY <1>2, <1>3, FS_Bijection DEF ExistsBijection
<1>. QED BY <1>2, <1>4 DEF ChildSources, ChildEntries

-----------------------------------------------------------------------------
(* A delegation that is authorized: all children or none.                  *)
LEMMA DelegationAuthorized ==
    ASSUME BInv, NEW w \in Members, w \in Enrolled,
           NEW kids \in SUBSET (Members \ {RootRun}), \A k \in kids : k \notin Enrolled,
           Denial(w, "delegation", Cardinality(kids)) = None,
           Authorize(w, "delegation", {<<w, k, 0>> : k \in kids}),
           ancestors' = [m \in Members |-> IF m \in kids THEN Inherited(w) ELSE ancestors[m]],
           UNCHANGED <<stopped, closed, refused, refusing, late, claimed, granted>>
    PROVE  BInv' /\ LedgerStep
<1>. DEFINE sources == {<<w, k, 0>> : k \in kids}
            made    == {Made(w, "delegation", s, None, None) : s \in sources}
<1>1. /\ IsFiniteSet(kids) /\ Cardinality(kids) \in Nat
      /\ Cardinality(sources) = Cardinality(kids)
      /\ IsFiniteSet(made) /\ Cardinality(made) = Cardinality(kids)
  <2>1. IsFiniteSet(kids)
    BY FS_Subset, BudgetAssumption
  <2>2. sources = ChildSources(w, kids) /\ made = ChildEntries(w, kids)
    BY DEF ChildSources, ChildEntries
  <2>. HIDE DEF sources, made
  <2>. QED BY <2>1, <2>2, ManyCharged, FS_CardinalityType
<1>2. /\ ~Stopped(w) /\ ~account.deadline
      /\ account.delegations + Cardinality(kids) =< MaxDelegations
      /\ account \in [calls : Nat, delegations : Nat, deadline : BOOLEAN] /\ MaxDelegations \in Nat
  BY <1>1, Denied, BudgetAssumption DEF ValidPolicy, BInv, Types
<1>3. /\ \A s \in sources : Find("delegation", s) = {}
      /\ entries' = entries \cup made
      /\ account' = [account EXCEPT !.delegations = @ + Cardinality(sources)]
  BY DEF Authorize
<1>4. /\ account' \in [calls : Nat, delegations : Nat, deadline : BOOLEAN]
      /\ account'.delegations = account.delegations + Cardinality(kids)
      /\ account'.calls = account.calls /\ account'.deadline = account.deadline
  <2>. HIDE DEF sources
  <2>. QED BY <1>1, <1>2, <1>3
<1>5. ASSUME NEW e \in made
      PROVE  /\ e.subject = w /\ e.action = "delegation" /\ e.reason = None
             /\ e.usage = "unknown" /\ e.source \in sources /\ Valid(e)
             /\ \A f \in made : f.source = e.source => f = e
  <2>1. PICK k \in kids : e = Made(w, "delegation", <<w, k, 0>>, None, None)
    OBVIOUS
  <2>2. /\ e.subject = w /\ e.action = "delegation" /\ e.reason = None
        /\ e.usage = "unknown" /\ e.source \in sources /\ Valid(e)
    BY <2>1, BudgetAssumption DEF Made, Valid, Entry, Usages, Denials
  <2>3. \A f \in made : f.source = e.source => f = e
    BY <2>1 DEF Made
  <2>. QED BY <2>2, <2>3
<1>6. \A e \in entries : ~(e.action = "delegation" /\ e.source \in sources)
  <2>. HIDE DEF sources
  <2>. QED BY <1>3 DEF Find
<1>. HIDE DEF sources, made
<1>7. /\ ancestors \in [Members -> (SUBSET Members) \cup {None}] /\ None \notin SUBSET Members
      /\ ancestors[w] \in SUBSET Members /\ Inherited(w) \in SUBSET Members
  BY BudgetAssumption DEF BInv, Types, Enrolled, Inherited
<1>8. /\ \A m \in Members : ancestors'[m] = IF m \in kids THEN Inherited(w) ELSE ancestors[m]
      /\ ancestors' \in [Members -> (SUBSET Members) \cup {None}]
  BY <1>7
<1>9. Enrolled' = Enrolled \cup kids /\ \A m \in Enrolled : Stopped(m) => Stopped(m)'
  <2>1. Enrolled' = Enrolled \cup kids
    BY <1>7, <1>8 DEF Enrolled
  <2>2. \A m \in Enrolled : ancestors'[m] = ancestors[m]
    BY <1>8 DEF Enrolled
  <2>. QED BY <2>1, <2>2 DEF Stopped
<1>10. Types'
  BY <1>3, <1>4, <1>5, <1>8 DEF BInv, Types
<1>11. Indexed'
  <2>1. ASSUME NEW f \in entries', NEW g \in entries', f.action = g.action, f.source = g.source
        PROVE  f = g
    <3>1. CASE f \in made /\ g \in made
      BY <1>5, <2>1, <3>1
    <3>2. CASE f \in entries /\ g \in entries
      BY <2>1, <3>2 DEF BInv, Indexed
    <3>3. CASE f \in made /\ g \in entries
      BY <1>5, <1>6, <2>1, <3>3
    <3>4. CASE f \in entries /\ g \in made
      BY <1>5, <1>6, <2>1, <3>4
    <3>. QED BY <1>3, <3>1, <3>2, <3>3, <3>4
  <2>2. ASSUME NEW f \in entries'
        PROVE  f.subject \in Enrolled' /\ (f.action = "call" => f.source[1] = f.subject)
    <3>1. CASE f \in made
      BY <1>5, <1>9, <3>1
    <3>2. CASE f \in entries
      BY <1>9, <3>2 DEF BInv, Indexed
    <3>. QED BY <1>3, <3>1, <3>2
  <2>. QED BY <2>1, <2>2 DEF Indexed
<1>12. Recorded' /\ RefusingEnrolled'
  BY <1>9 DEF BInv, Recorded, RefusingEnrolled
<1>13. ReasonsStand'
  <2>1. ASSUME NEW f \in entries PROVE Stands(f)'
    <3>1. Stands(f) /\ f.subject \in Enrolled
      BY DEF BInv, ReasonsStand, Indexed
    <3>. QED BY <1>4, <1>9, <3>1 DEF Stands
  <2>2. ASSUME NEW f \in made PROVE Stands(f)'
    BY <1>5, <2>2, BudgetAssumption DEF Stands, Denials
  <2>. QED BY <1>3, <2>1, <2>2 DEF ReasonsStand
<1>14. Counts'
  <2>. DEFINE A == Authorized("delegation")
  <2>1. Authorized("delegation")' = A \cup made /\ A \cap made = {}
    BY <1>3, <1>5, <1>6 DEF Authorized
  <2>2. Authorized("call")' = Authorized("call") /\ GrantedCalls' = GrantedCalls
    BY <1>3, <1>5 DEF Authorized, GrantedCalls
  <2>3. IsFiniteSet(A) /\ Counts
    BY DEF BInv, Counts
  <2>4. account.delegations = Cardinality(A)
    BY <2>3 DEF Counts
  <2>. HIDE DEF A
  <2>5. IsFiniteSet(A \cup made) /\ Cardinality(A \cup made) = Cardinality(A) + Cardinality(kids)
    BY <1>1, <2>1, <2>3, Disjoint
  <2>6. IsFiniteSet(Enrolled) /\ Enrolled \cap kids = {}
    BY FS_Subset, BudgetAssumption DEF Enrolled
  <2>7. /\ Cardinality(Enrolled) \in Nat
        /\ Cardinality(Enrolled \cup kids) = Cardinality(Enrolled) + Cardinality(kids)
    BY <1>1, <2>6, Disjoint
  <2>8. account'.delegations = Cardinality(A \cup made)
    BY <1>4, <2>4, <2>5
  <2>9. account'.delegations = Cardinality(Enrolled \cup kids) - 1
    BY <1>1, <1>4, <2>3, <2>7 DEF Counts
  <2>. QED BY <1>2, <1>4, <1>9, <2>1, <2>2, <2>3, <2>5, <2>8, <2>9 DEF Counts
<1>15. RefusedStaysRefused'
  BY <1>3, <1>5 DEF BInv, RefusedStaysRefused, DenialKey
<1>16. LedgerStep
  <2>1. StoppedSubtreeIsClosed
    <3>1. ({w} \cup ancestors[w]) \cap stopped = {} /\ Inherited(w) \cap stopped = {}
      BY <1>2 DEF Stopped, Inherited
    <3>. QED BY <1>3, <1>5, <1>8, <3>1 DEF StoppedSubtreeIsClosed
  <2>2. DeadlineIsFinal
    BY <1>2 DEF DeadlineIsFinal, BInv, ReasonsStand, Stands
  <2>3. LedgerIsAppendOnly
    <3>1. ASSUME NEW e \in entries PROVE e = [e EXCEPT !.usage = e.usage]
      BY DEF BInv, Types, Valid, Entry
    <3>. QED BY <1>3, <3>1 DEF LedgerIsAppendOnly
  <2>. QED BY <2>1, <2>2, <2>3 DEF LedgerStep
<1>. QED BY <1>10, <1>11, <1>12, <1>13, <1>14, <1>15, <1>16 DEF BInv

-----------------------------------------------------------------------------
(* The transactions.                                                       *)
LEMMA ClaimSound ==
    ASSUME BInv, NEW c \in Calls, NEW k \in Commands, Claim(c, k)
    PROVE  BInv' /\ LedgerStep
<1>. DEFINE w == OwnerOf[c]
<1>1. /\ w \in Members /\ w \in Enrolled /\ c \notin claimed
      /\ UNCHANGED <<ancestors, stopped, closed, refused, refusing, late>>
  BY BudgetAssumption DEF Claim, Free
<1>2. CASE Denial(w, "call", 1) = None
  <2>1. Authorize(w, "call", {GrantKey(c)}) /\ Handed(c)
    BY <1>2 DEF Claim
  <2>. QED BY <1>1, <1>2, <2>1, CallAuthorized
<1>3. CASE Denial(w, "call", 1) # None
  <2>1. /\ BoundRefusal(w, DenialKey(c), Denial(w, "call", 1), k)
        /\ UNCHANGED <<claimed, granted>>
    BY <1>3 DEF Claim
  <2>2. Aside
    BY <1>1, <2>1 DEF BInv, Types, RefusingEnrolled, Aside
  <2>3. k \in Commands \cup {None}
    OBVIOUS
  <2>. QED BY <1>1, <1>3, <2>1, <2>2, <2>3, CallRefused
<1>. QED BY <1>2, <1>3

(* A handed out call starts.                                               *)
LEMMA StartSound ==
    ASSUME BInv, NEW c \in Calls, Start(c)
    PROVE  BInv' /\ LedgerStep
<1>. DEFINE w == OwnerOf[c]
<1>1. /\ w \in Members /\ w \in Enrolled /\ c \notin claimed
      /\ UNCHANGED <<ancestors, stopped, refused, refusing, late>>
  BY BudgetAssumption DEF Start, Free
<1>2. CASE Denial(w, "call", 1) = None
  <2>1. Authorize(w, "call", {GrantKey(c)}) /\ Handed(c) /\ UNCHANGED closed
    BY <1>2 DEF Start
  <2>. QED BY <1>1, <1>2, <2>1, CallAuthorized
<1>3. CASE Denial(w, "call", 1) # None
  <2>1. /\ Deny(w, "call", DenialKey(c), Denial(w, "call", 1), None)
        /\ closed' = closed \cup {c} /\ UNCHANGED <<claimed, granted>>
    BY <1>3 DEF Start
  <2>2. Aside
    BY <1>1, <2>1 DEF BInv, Types, RefusingEnrolled, Aside
  <2>3. None \in Commands \cup {None}
    OBVIOUS
  <2>. QED BY <1>1, <1>3, <2>1, <2>2, <2>3, CallRefused
<1>. QED BY <1>2, <1>3

(* A delegation is authorized, or given up at its savepoint.               *)
LEMMA DelegateSound ==
    ASSUME BInv, NEW w \in Members, NEW kids \in SUBSET (Members \ {RootRun}),
           NEW fork \in Forks \cup {None}, Delegate(w, kids, fork)
    PROVE  BInv' /\ LedgerStep
<1>. DEFINE d == Denial(w, "delegation", Cardinality(kids))
<1>1. /\ w \in Enrolled /\ \A k \in kids : k \notin Enrolled
      /\ UNCHANGED <<stopped, closed, refused, claimed, granted>>
  BY DEF Delegate, Free
<1>2. CASE /\ d = None
           /\ Authorize(w, "delegation", {<<w, k, 0>> : k \in kids})
           /\ ancestors' = [m \in Members |-> IF m \in kids THEN Inherited(w) ELSE ancestors[m]]
           /\ UNCHANGED <<refusing, late>>
  BY <1>1, <1>2, DelegationAuthorized
<1>3. ASSUME NEW reason \in Denials \ {"CallsExhausted"}, late' \in BOOLEAN,
             refusing' = [refusing EXCEPT ![w] = [reason |-> reason, fork |-> fork]],
             UNCHANGED <<entries, account, ancestors>>
      PROVE  BInv' /\ LedgerStep
  <2>1. Aside
    BY <1>1, <1>3 DEF BInv, Types, RefusingEnrolled, Aside
  <2>. QED BY <1>3, <2>1, AsideSound
<1>4. CASE /\ d = None /\ HasDeadline
           /\ refusing' = [refusing EXCEPT ![w] = [reason |-> "DeadlineExceeded", fork |-> fork]]
           /\ late' = TRUE
           /\ UNCHANGED <<entries, account, ancestors>>
  BY <1>3, <1>4 DEF Denials
<1>5. CASE /\ d # None
           /\ refusing' = [refusing EXCEPT ![w] = [reason |-> d, fork |-> fork]]
           /\ UNCHANGED <<entries, account, ancestors, late>>
  <2>1. Cardinality(kids) \in Nat
    BY FS_Subset, FS_CardinalityType, BudgetAssumption
  <2>2. d \in Denials \ {"CallsExhausted"}
    BY <1>5, <2>1, Denied
  <2>3. late' \in BOOLEAN
    BY <1>5 DEF BInv, Types
  <2>. QED BY <1>3, <1>5, <2>2, <2>3
<1>. QED BY <1>2, <1>4, <1>5 DEF Delegate

(* The refusal recorded after the savepoint, the row of w locked since.    *)
LEMMA RefuseSound ==
    ASSUME BInv, NEW w \in Members, Refuse(w)
    PROVE  BInv' /\ LedgerStep
<1>. DEFINE r == refusing[w]
            source == <<w, r.fork, -1>>
<1>1. /\ r # None /\ w \in Enrolled
      /\ r \in [reason : Denials \ {"CallsExhausted"}, fork : Forks \cup {None}]
  BY DEF Refuse, BInv, Types, RefusingEnrolled
<1>2. r.reason \in Denials /\ r.reason # "CallsExhausted" /\ source \in Sources
  BY <1>1 DEF Sources
<1>3. Aside
  <2>1. /\ refusing' = [refusing EXCEPT ![w] = None]
        /\ UNCHANGED <<ancestors, closed, late, claimed, granted>>
    BY DEF Refuse
  <2>2. \/ stopped' = stopped \cup {w} /\ refused' = refused
        \/ /\ r.fork # None /\ stopped' = stopped
           /\ refused' = [refused EXCEPT ![w] = @ \cup {r.fork}]
    BY DEF Refuse
  <2>3. r.fork \in Forks \cup {None}
    BY <1>1
  <2>4. refused' \in [Members -> SUBSET Forks] /\ stopped \subseteq stopped' /\ stopped' \subseteq Members
    <3>. HIDE DEF r
    <3>. QED BY <2>2, <2>3 DEF BInv, Types
  <2>. QED BY <2>1, <2>4 DEF BInv, Types, RefusingEnrolled, Aside
<1>4. Deny(w, "delegation", source, r.reason, None)
  BY DEF Refuse
<1>5. \/ UNCHANGED <<entries, account>>
      \/ /\ Find("delegation", source) = {}
         /\ entries' = entries \cup {Made(w, "delegation", source, r.reason, None)}
         /\ account' = [account EXCEPT !.deadline = @ \/ r.reason = "DeadlineExceeded"]
  BY <1>4 DEF Deny
<1>6. CASE UNCHANGED <<entries, account>>
  BY <1>3, <1>6, AsideSound
<1>7. CASE /\ Find("delegation", source) = {}
           /\ entries' = entries \cup {Made(w, "delegation", source, r.reason, None)}
           /\ account' = [account EXCEPT !.deadline = @ \/ r.reason = "DeadlineExceeded"]
  <2>1. "delegation" \in {"call", "delegation"} /\ "delegation" # "call" /\ None \in Commands \cup {None}
    OBVIOUS
  <2>. HIDE DEF r, source
  <2>. QED BY <1>1, <1>2, <1>3, <1>7, <2>1, RefusalSound
<1>. QED BY <1>5, <1>6, <1>7

(* Every transaction keeps the invariant and the ledger.                   *)
LEMMA StepSound ==
    ASSUME BInv, [Next]_vars
    PROVE  BInv' /\ (LedgerStep \/ UNCHANGED vars)
<1>1. CASE UNCHANGED vars
  <2>1. Aside /\ UNCHANGED <<entries, account>>
    BY <1>1 DEF vars, BInv, Types, RefusingEnrolled, Aside
  <2>. QED BY <1>1, <2>1, AsideSound
<1>2. ASSUME NEW c \in Calls, Start(c) PROVE BInv' /\ LedgerStep
  BY <1>2, StartSound
<1>3. ASSUME NEW c \in Calls, NEW k \in Commands, Claim(c, k) PROVE BInv' /\ LedgerStep
  BY <1>3, ClaimSound
<1>4. ASSUME NEW c \in Calls, NEW u \in Usages, Usage(c, u) PROVE BInv' /\ LedgerStep
  BY <1>4, UsageSound
<1>5. ASSUME NEW w \in Members, NEW kids \in SUBSET (Members \ {RootRun}),
             NEW f \in Forks \cup {None}, Delegate(w, kids, f)
      PROVE  BInv' /\ LedgerStep
  BY <1>5, DelegateSound
<1>6. ASSUME NEW w \in Members, Refuse(w) PROVE BInv' /\ LedgerStep
  BY <1>6, RefuseSound
<1>7. ASSUME NEW w \in Members, Stop(w) PROVE BInv' /\ LedgerStep
  <2>1. Aside /\ UNCHANGED <<entries, account>>
    BY <1>7 DEF Stop, BInv, Types, RefusingEnrolled, Aside
  <2>. QED BY <2>1, AsideSound
<1>8. CASE Clock
  <2>1. Aside /\ UNCHANGED <<entries, account>>
    BY <1>8 DEF Clock, BInv, Types, RefusingEnrolled, Aside
  <2>. QED BY <2>1, AsideSound
<1>9. CASE Next
  BY <1>2, <1>3, <1>4, <1>5, <1>6, <1>7, <1>8, <1>9 DEF Next
<1>. QED BY <1>1, <1>9

-----------------------------------------------------------------------------
(* The inductive invariant of the account.                                 *)
THEOREM BudgetInvariant == Spec => []BInv
<1>1. Init => BInv
  BY InitSound
<1>2. BInv /\ [Next]_vars => BInv'
  BY StepSound
<1>. QED BY <1>1, <1>2, PTL DEF Spec

(* For every tree and policy: the account, the ledger and what happened    *)
(* agree, within the policy, and what was refused is never granted.        *)
THEOREM BudgetSoundCorrect == Spec => []BudgetSound
<1>1. BInv => BudgetSound
  BY Sound
<1>. QED BY <1>1, BudgetInvariant, PTL

(* For every tree and policy: a stopped subtree gains no call and no       *)
(* member, a reported deadline is final, and the ledger only grows.        *)
THEOREM LedgerStandsCorrect == Spec => LedgerStands
<1>1. BInv /\ [Next]_vars => [StoppedSubtreeIsClosed /\ DeadlineIsFinal /\ LedgerIsAppendOnly]_vars
  BY StepSound DEF LedgerStep
<1>. QED BY <1>1, BudgetInvariant, PTL DEF Spec, LedgerStands

==============================================================================
