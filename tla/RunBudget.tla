------------------------------ MODULE RunBudget ------------------------------
(***************************************************************************)
(* The budget of one execution tree: an account that every physical call   *)
(* and every delegation of the tree is charged to, the members of the      *)
(* tree, and the ledger of decisions.                                      *)
(*                                                                         *)
(* lock takes the account's row and only then reads the stop flags, so a   *)
(* transaction is one step; a refused delegation is two, because ROLLBACK  *)
(* TO SAVEPOINT gives the account back before the refusal is recorded.     *)
(* Whether the deadline has passed is read from a clock that may be set    *)
(* back.                                                                   *)
(***************************************************************************)
EXTENDS Integers, FiniteSets

CONSTANTS
    Members,        \* workflows and tasks of the tree
    RootRun,
    DelegatorOf,    \* DelegatorOf[m]: the workflow that delegates m
    Calls,          \* occurrences that end in a physical call
    OwnerOf,        \* OwnerOf[c]: the workflow that makes it
    Kind,           \* Kind[c]: "generic" or "provider" approved effect, or admitted "operation"
    Commands,       \* what a retry of a claim may carry
    Forks,          \* fork keys
    MaxCalls,       \* RunBudgetPolicy.max_calls
    MaxDelegations, \* RunBudgetPolicy.max_delegations
    HasDeadline,    \* RunBudgetPolicy.deadline_at_ms is set
    None

Denials == {"Cancelled", "DeadlineExceeded", "CallsExhausted", "DelegationsExhausted"}
Usages  == {"unknown", "reported", "estimated"}

(* RunBudgetPolicy; a limit that is not set is one the tree cannot reach.   *)
ValidPolicy == MaxCalls \in Nat /\ MaxDelegations \in Nat /\ HasDeadline \in BOOLEAN

(* The tree is finite, and None is none of the values it stands beside.    *)
ASSUME BudgetAssumption ==
    /\ IsFiniteSet(Members) /\ IsFiniteSet(Calls)
    /\ RootRun \in Members /\ DelegatorOf \in [Members \ {RootRun} -> Members]
    /\ OwnerOf \in [Calls -> Members]
    /\ Kind \in [Calls -> {"generic", "provider", "operation"}]
    /\ ValidPolicy
    /\ None \notin Commands \cup Forks \cup Denials /\ \A S \in SUBSET Members : S # None

VARIABLES
    account,   \* run_budgets: calls, delegations, deadline_reached
    ancestors, \* run_budget_members: the ancestry of each enrolled member
    stopped,   \* members whose stopped_at_ms is set
    entries,   \* run_budget_entries
    closed,    \* operations whose admission request was closed by a refusal
    refused,   \* run_budget_fork_refusals: the fork keys of a workflow that were refused
    refusing,  \* refusing[w]: a delegation of w rolled back and not yet recorded
    late,      \* the clock is at or past the deadline
    claimed,   \* occurrences whose grant is recorded with their approval, operation or request
    granted    \* observer: physical calls handed out per occurrence

vars == <<account, ancestors, stopped, entries, closed, refused, refusing, late, claimed, granted>>

(* RunBudgetEntry, with the digest of the command a refusal is bound to.   *)
Entry == [subject : Members, action : {"call", "delegation"},
          reason : Denials \cup {None}, source : Members \X (Calls \cup Members \cup Forks \cup {None}) \X Int,
          command : Commands \cup {None}, usage : Usages]

(* RunBudgetEntry::validate.                                               *)
Valid(e) ==
    /\ e \in Entry
    /\ e.reason # None \/ e.action = "delegation" => e.usage = "unknown"
    /\ e.reason # IF e.action = "call" THEN "DelegationsExhausted" ELSE "CallsExhausted"

Enrolled == {m \in Members : ancestors[m] # None}

(* A workflow accepts commands of its activation while it has not begun to *)
(* stop and no transaction holds its row.                                  *)
Free(w) == w \in Enrolled \ stopped /\ refusing[w] = None

(***************************************************************************)
(* Account.                                                                *)
(***************************************************************************)
(* Mutant of Stopped: the ancestry is not consulted.                       *)
StoppedItself(m) == m \in stopped

Stopped(m) == m \in stopped \/ ancestors[m] \cap stopped # {}

(* Mutant of Denial: the size of the request is not counted.               *)
DenialAtLimit(m, action, count) ==
    IF Stopped(m) THEN "Cancelled"
    ELSE IF account.deadline \/ (HasDeadline /\ late) THEN "DeadlineExceeded"
    ELSE IF action = "call" /\ account.calls > MaxCalls THEN "CallsExhausted"
    ELSE IF action = "delegation" /\ account.delegations > MaxDelegations - count
         THEN "DelegationsExhausted"
    ELSE None

Denial(m, action, count) ==
    IF Stopped(m) THEN "Cancelled"
    ELSE IF account.deadline \/ (HasDeadline /\ late) THEN "DeadlineExceeded"
    ELSE IF action = "call" /\ account.calls > MaxCalls - count THEN "CallsExhausted"
    ELSE IF action = "delegation" /\ account.delegations > MaxDelegations - count
         THEN "DelegationsExhausted"
    ELSE None

Find(action, source) == {e \in entries : e.action = action /\ e.source = source}

Made(m, action, source, reason, command) ==
    [subject |-> m, action |-> action, reason |-> reason, source |-> source,
     command |-> command, usage |-> "unknown"]

(* Account::append of authorizations: the unique index on root, action and *)
(* source lets none of them in twice.                                      *)
Authorize(m, action, sources) ==
    /\ \A s \in sources : Find(action, s) = {}
    /\ entries' = entries \cup {Made(m, action, s, None, None) : s \in sources}
    /\ account' = IF action = "call"
                  THEN [account EXCEPT !.calls = @ + Cardinality(sources)]
                  ELSE [account EXCEPT !.delegations = @ + Cardinality(sources)]

(* Account::append of a refusal: an equal one is answered without a new    *)
(* entry, another one is a conflict.                                       *)
Deny(m, action, source, reason, command) ==
    IF Find(action, source) # {}
    THEN /\ \E e \in Find(action, source) : e.subject = m /\ e.reason = reason
         /\ UNCHANGED <<entries, account>>
    ELSE /\ entries' = entries \cup {Made(m, action, source, reason, command)}
         /\ account' = [account EXCEPT !.deadline = @ \/ reason = "DeadlineExceeded"]

(* bound_call_refusal: the first committed reason stands, and only for the *)
(* command it was given to.                                                *)
BoundRefusal(m, source, reason, command) ==
    IF Find("call", source) # {}
    THEN /\ \E e \in Find("call", source) : e.command = command /\ e.subject = m
         /\ UNCHANGED <<entries, account>>
    ELSE Deny(m, "call", source, reason, command)

(***************************************************************************)
(* Calls.                                                                  *)
(***************************************************************************)
(* The source a grant is charged under is the occurrence itself for a      *)
(* generic effect and a fresh id for the others, whose refusals have a key *)
(* of their own.                                                           *)
GrantKey(c)  == IF Kind[c] = "generic" THEN <<OwnerOf[c], c, 0>> ELSE <<OwnerOf[c], c, granted[c]>>
DenialKey(c) == IF Kind[c] = "generic" THEN <<OwnerOf[c], c, 0>> ELSE <<OwnerOf[c], c, -1>>
Handed(c)    == /\ claimed' = claimed \cup {c}
                /\ granted' = [granted EXCEPT ![c] = @ + 1]

(* claim_approved_effect_once, claim_provider_operation_once: an           *)
(* occurrence that was granted before is answered without a charge. A      *)
(* grant whose window closed before the commit leaves nothing behind.      *)
Claim(c, command) ==
    LET w == OwnerOf[c]
        d == Denial(w, "call", 1) IN
    /\ Kind[c] # "operation" /\ Free(w)
    /\ c \notin claimed
    /\ IF d = None
       THEN Authorize(w, "call", {GrantKey(c)}) /\ Handed(c)
       ELSE BoundRefusal(w, DenialKey(c), d, command) /\ UNCHANGED <<claimed, granted>>
    /\ UNCHANGED <<ancestors, stopped, closed, refused, refusing, late>>

(* start_admission_once and the start of a budgeted task: a refusal closes *)
(* the offer, so that it is never asked for again; an offer that ran out   *)
(* under the account's lock is rolled back with its charge.                *)
Start(c) ==
    LET w == OwnerOf[c]
        d == Denial(w, "call", 1) IN
    /\ Kind[c] = "operation" /\ Free(w)
    /\ c \notin closed \cup claimed
    /\ IF d = None
       THEN Authorize(w, "call", {GrantKey(c)}) /\ Handed(c) /\ UNCHANGED closed
       ELSE /\ Deny(w, "call", DenialKey(c), d, None)
            /\ closed' = closed \cup {c} /\ UNCHANGED <<claimed, granted>>
    /\ UNCHANGED <<ancestors, stopped, refused, refusing, late>>

(* usage: what a call consumed is recorded once, with its report or its    *)
(* finish, whether or not the workflow is still running.                   *)
Usage(c, u) ==
    /\ Kind[c] # "generic"
    /\ c \in claimed
    /\ \E e \in Find("call", <<OwnerOf[c], c, granted[c] - 1>>) :
         /\ e.subject = OwnerOf[c] /\ e.reason = None
         /\ e.usage = "unknown" /\ u # "unknown"
         /\ entries' = (entries \ {e}) \cup {[e EXCEPT !.usage = u]}
    /\ UNCHANGED <<account, ancestors, stopped, closed, refused, refusing, late, claimed, granted>>

(***************************************************************************)
(* Delegations.                                                            *)
(***************************************************************************)
Inherited(w) == ancestors[w] \cup {w}

(* delegate, for the children of a decision or of a fork: all of them or   *)
(* none. A deadline that passed by the commit undoes an authorization.     *)
Delegate(w, kids, fork) ==
    LET d == Denial(w, "delegation", Cardinality(kids)) IN
    /\ Free(w) /\ fork \notin refused[w]
    /\ kids # {} /\ \A k \in kids : k \notin Enrolled /\ DelegatorOf[k] = w
    /\ \/ /\ d = None
          /\ Authorize(w, "delegation", {<<w, k, 0>> : k \in kids})
          /\ ancestors' = [m \in Members |-> IF m \in kids THEN Inherited(w) ELSE ancestors[m]]
          /\ UNCHANGED <<refusing, late>>
       \/ /\ d = None /\ HasDeadline
          /\ refusing' = [refusing EXCEPT ![w] = [reason |-> "DeadlineExceeded", fork |-> fork]]
          /\ late' = TRUE
          /\ UNCHANGED <<entries, account, ancestors>>
       \/ /\ d # None
          /\ refusing' = [refusing EXCEPT ![w] = [reason |-> d, fork |-> fork]]
          /\ UNCHANGED <<entries, account, ancestors, late>>
    /\ UNCHANGED <<stopped, closed, refused, claimed, granted>>

(* record_denial after the savepoint: a decision fails its run, which      *)
(* stops the subtree; a fork is refused and stays refused.                 *)
Refuse(w) ==
    /\ refusing[w] # None
    /\ LET r == refusing[w] IN
       /\ Deny(w, "delegation", <<w, r.fork, -1>>, r.reason, None)
       /\ IF r.fork = None
          THEN stopped' = stopped \cup {w} /\ UNCHANGED refused
          ELSE refused' = [refused EXCEPT ![w] = @ \cup {r.fork}] /\ UNCHANGED stopped
    /\ refusing' = [refusing EXCEPT ![w] = None]
    /\ UNCHANGED <<ancestors, closed, late, claimed, granted>>

(* stop: save_run of a run that fails or is cancelled, and the             *)
(* cancellation of a budgeted task.                                        *)
Stop(m) ==
    /\ Free(m)
    /\ stopped' = stopped \cup {m}
    /\ UNCHANGED <<account, ancestors, entries, closed, refused, refusing, late, claimed, granted>>

(* The database clock passes the deadline, or is set back.                 *)
Clock ==
    /\ HasDeadline /\ late' = ~late
    /\ UNCHANGED <<account, ancestors, stopped, entries, closed, refused, refusing, claimed, granted>>

(* create: the account and the root's own membership.                      *)
Init ==
    /\ account = [calls |-> 0, delegations |-> 0, deadline |-> FALSE]
    /\ ancestors = [m \in Members |-> IF m = RootRun THEN {} ELSE None]
    /\ stopped = {} /\ entries = {} /\ closed = {} /\ claimed = {} /\ late = FALSE
    /\ refused = [m \in Members |-> {}]
    /\ refusing = [m \in Members |-> None]
    /\ granted = [c \in Calls |-> 0]

Next ==
    \/ \E c \in Calls : Start(c) \/ \E k \in Commands : Claim(c, k)
    \/ \E c \in Calls, u \in Usages : Usage(c, u)
    \/ \E w \in Members, kids \in SUBSET (Members \ {RootRun}), f \in Forks \cup {None} :
          Delegate(w, kids, f)
    \/ \E m \in Members : Refuse(m) \/ Stop(m)
    \/ Clock

Spec == Init /\ [][Next]_vars

(***************************************************************************)
(* Properties.                                                             *)
(***************************************************************************)
TypeOK ==
    /\ account \in [calls : Nat, delegations : Nat, deadline : BOOLEAN]
    /\ \A m \in Members : ancestors[m] = None \/ ancestors[m] \subseteq Members
    /\ \A e \in entries : Valid(e)
    /\ stopped \subseteq Members /\ closed \subseteq Calls /\ claimed \subseteq Calls
    /\ refused \in [Members -> SUBSET Forks]
    /\ \A m \in Members : refusing[m] = None \/ refusing[m] \in [reason : Denials, fork : Forks \cup {None}]
    /\ late \in BOOLEAN /\ granted \in [Calls -> Nat]

Authorized(action) == {e \in entries : e.action = action /\ e.reason = None}

(* The account, the ledger and what really happened agree: the calls       *)
(* charged are the calls handed out and the delegations charged are the    *)
(* members enrolled below the root, and neither exceeds the policy         *)
(* (RunBudgetSnapshot::validate), whatever was retried or rolled back.     *)
EveryUseIsCharged ==
    /\ account.calls = Cardinality(Authorized("call"))
    /\ account.calls = Cardinality({c \in Calls : granted[c] > 0})
    /\ \A c \in Calls : granted[c] <= 1
    /\ account.calls <= MaxCalls
    /\ account.delegations = Cardinality(Authorized("delegation"))
    /\ account.delegations = Cardinality(Enrolled) - 1
    /\ account.delegations <= MaxDelegations

(* An occurrence that was refused is never granted later, even when the    *)
(* clock is set back or its workflow retries with another command.         *)
RefusedStaysRefused ==
    \A e \in entries : \A c \in Calls :
        e.action = "call" /\ e.reason # None /\ e.source = DenialKey(c) => granted[c] = 0

(* Nothing is authorized below a member that has stopped, and a stopped    *)
(* subtree gains no member, from the moment the stop commits.              *)
StoppedSubtreeIsClosed ==
    /\ \A e \in entries' \ entries : e.reason = None /\ e.usage = "unknown"
         => ({e.subject} \cup ancestors[e.subject]) \cap stopped = {}
    /\ \A m \in Members : ancestors[m] = None /\ ancestors'[m] # None
         => ancestors'[m] \cap stopped = {}

(* A deadline that was once reported as passed stays passed for the whole  *)
(* tree: no later call or delegation is charged.                           *)
DeadlineIsFinal ==
    (\E e \in entries : e.reason = "DeadlineExceeded")
       => account'.calls = account.calls /\ account'.delegations = account.delegations

(* The first reason of a refusal and its command never change, and neither *)
(* does a usage once it is known.                                          *)
LedgerIsAppendOnly ==
    \A e \in entries : \E f \in entries' :
       f = [e EXCEPT !.usage = f.usage] /\ (e.usage # "unknown" => f = e)

(* Invariants of the account, and what no transaction does to it.          *)
BudgetSound  == TypeOK /\ EveryUseIsCharged /\ RefusedStaysRefused
LedgerStands == [][StoppedSubtreeIsClosed /\ DeadlineIsFinal /\ LedgerIsAppendOnly]_vars
==============================================================================
