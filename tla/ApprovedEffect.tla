---------------------------- MODULE ApprovedEffect ----------------------------
(***************************************************************************)
(* One external effect that a reviewer approved: the single grant to       *)
(* dispatch it, the confirmation written to the activation's journal, the  *)
(* evidence kept after the run is gone, and the operators' assessments a   *)
(* run may wait for.                                                       *)
(*                                                                         *)
(* The occurrence belongs to activation 1 of its run, whose task may be    *)
(* attempted several times. Every transaction locks the run, then the      *)
(* task, then the occurrence, so a transaction is one step. A claim of     *)
(* dispatch travels: its worker may stop waiting before it is executed,    *)
(* and its answer may be lost. Every other command may be sent at any time *)
(* and any number of times.                                                *)
(***************************************************************************)
EXTENDS Integers, Sequences, FiniteSets

CONSTANTS
    WorkerOf,       \* WorkerOf[a]: the principal whose worker runs attempt a
    Versions,       \* protocol versions the workers speak: 1, 2
    ClaimIds,
    Lookups,        \* callables that look an effect up
    Outputs,
    ObservationIds,
    ResolutionIds,
    Actors,         \* operators
    WaitKeys,
    MaxActivation,  \* activations of the run
    MaxEntries,     \* bound on the evidence of the occurrence
    MaxCalls,       \* bound on the claims under way
    Protected,      \* the approval was proposed as an external effect
    Origins,        \* how the occurrence came to be: see Init
    None

Attempts    == DOMAIN WorkerOf
Workers     == {WorkerOf[a] : a \in Attempts}
Activations == 1 .. MaxActivation
Verdicts    == Outputs \cup {"failure", "unknown"}   \* EffectResolutionAssessment

(* EffectEvidenceEntry: a claim, an observation or an assessment.          *)
EvidenceEntry ==
    [kind : {"claim", "observation", "assessment"},
     op : {"claim", "legacy_confirm", "confirm", "observe", "resolve"},
     id : ClaimIds \cup ObservationIds \cup ResolutionIds \cup {None}, claim : ClaimIds \cup {None},
     mode : {"none", "dispatch", "lookup"}, attempt : Attempts \cup {0},
     worker : Workers \cup Actors \cup {None}, output : Verdicts \cup {None},
     lookup : Lookups \cup {None}, basis : Nat, after : ResolutionIds \cup {None}]

(* EffectEvidenceBinding and EffectEvidenceSummary.                        *)
Retained ==
    [provenance : {"verified", "attempt", "fence"}, lookup : Lookups \cup {None},
     journal : Outputs \cup {None}, reference : Outputs \cup {None}, discrepancy : BOOLEAN,
     revision : Nat, entries : Seq(EvidenceEntry), resolution : ResolutionIds \cup {None},
     conflict : Nat, result : Outputs \cup {None}]

Journal == [kind : {"effect", "local"}, lookup : Lookups \cup {None}, output : Outputs, attempt : Attempts]

EffectWait == [key : WaitKeys, parking : Activations, after : ResolutionIds \cup {None}]

(* What a resumed activation is told.                                      *)
Wake ==
    [id : ResolutionIds, revision : Nat, after : ResolutionIds \cup {None},
     outcome : [kind : {"disputed", "assessed"}, value : Verdicts \cup {None}, at : Nat]]

ValidParameters ==
    /\ MaxActivation \in Nat \ {0} /\ MaxEntries \in Nat /\ MaxCalls \in Nat
    /\ IsFiniteSet(Attempts) /\ Attempts = 1 .. Cardinality(Attempts) /\ Attempts # {}
    /\ Versions \subseteq {1, 2}
    /\ Origins \subseteq {"fresh", "fence", "attempt", "confirmed"}
    /\ "confirmed" \in Origins => Lookups # {} /\ Outputs # {}
    /\ None \notin ClaimIds \cup Lookups \cup Outputs \cup ObservationIds \cup ResolutionIds
    /\ None \notin Retained /\ None \notin Journal /\ None \notin EffectWait /\ None \notin Wake

ASSUME EffectAssumption == ValidParameters

VARIABLES
    run,      \* the run: state, current activation, attempt and lease of activation 1, effect wait
    appr,     \* the approval's effect columns
    journal,  \* workflow_local_results under the approval's reserved key
    eff,      \* approved_effect_occurrences and its entries
    keys,     \* logical keys of effect waits ever installed
    rows,     \* workflow_work of kind effect_wait, by parking activation
    wakes,    \* what each activation was resumed with
    calls,    \* claims of dispatch under way
    held,     \* permissions the program of each attempt was handed
    sent,     \* times the effect was dispatched
    acked     \* what the store acknowledged

vars == <<run, appr, journal, eff, keys, rows, wakes, calls, held, sent, acked>>

(* The fields an entry does not use.                                       *)
NoEntry == [kind |-> "none", op |-> "none", id |-> None, claim |-> None, mode |-> "none",
            attempt |-> 0, worker |-> None, output |-> None, lookup |-> None,
            basis |-> 0, after |-> None]

(* EffectClaimV2Command, and version 1 without a claim id.                 *)
Call == [attempt : Attempts, version : Versions, id : ClaimIds \cup {None}, lookup : Lookups,
         waiting : BOOLEAN]

(* EffectEvidenceBinding and EffectEvidenceSummary as first retained.      *)
NewEffect(provenance, lookup) ==
    [provenance |-> provenance, lookup |-> lookup, journal |-> None, reference |-> None,
     discrepancy |-> FALSE, revision |-> 1, entries |-> <<>>, resolution |-> None,
     conflict |-> 0, result |-> None]

TypeOK ==
    /\ run \in [state : {"Running", "Waiting", "Ended", "Gone"}, activation : Activations,
                attempt : Attempts, lease : {"live", "lapsed", "over"}, wait : EffectWait \cup {None}]
    /\ appr \in [claimed : BOOLEAN, evidence : {"none", "open", "confirmed", "legacy_confirmed"},
                 lookup : Lookups \cup {None}, dispatcher : Attempts \cup {0}, confirmer : Attempts \cup {0}]
    /\ journal \in Journal \cup {None} /\ eff \in Retained \cup {None}
    /\ keys \subseteq WaitKeys
    /\ rows \in [Activations -> {"none", "open", "done"}]
    /\ wakes \in [Activations -> Wake \cup {None}]
    /\ calls \subseteq Call
    /\ held \in [Attempts -> SUBSET [id : ClaimIds \cup {None}, mode : {"dispatch", "lookup", "sent"}]]
    /\ sent \in 0 .. 2

(***************************************************************************)
(* The retained evidence.                                                  *)
(***************************************************************************)
Confirmed(ap) == ap.evidence \in {"confirmed", "legacy_confirmed"}

Entry(kind, id) == {i \in 1 .. Len(eff.entries) : eff.entries[i].kind = kind /\ eff.entries[i].id = id}
HasEntry(kind, id) == eff # None /\ Entry(kind, id) # {}
EntryOf(kind, id)  == eff.entries[CHOOSE i \in Entry(kind, id) : TRUE]

(* report: the first output is the reference, and the first report after a *)
(* recorded success that disagrees with it disputes it.                    *)
Report(e, output) ==
    [e EXCEPT !.conflict = IF e.resolution # None /\ @ = 0 /\ e.result # None /\ e.result # output
                             THEN Len(e.entries) + 1 ELSE @,
              !.discrepancy = @ \/ (e.reference # None /\ e.reference # output),
              !.reference = IF @ = None THEN output ELSE @]

(* next and append: one entry, one revision.                               *)
Append1(e, entry) == [e EXCEPT !.revision = @ + 1, !.entries = Append(@, entry)]

(* EffectEvidenceEntry::validate, for entry i, recorded at revision i + 1. *)
ValidEntry(es, i) ==
    CASE es[i].kind = "claim"       -> es[i].attempt # 0 /\ es[i].worker \in Workers
      [] es[i].kind = "observation" -> IF es[i].op = "legacy_confirm" THEN es[i].attempt # 0
                                       ELSE es[i].claim \in ClaimIds /\ es[i].worker \in Workers
      [] OTHER -> es[i].output \in Verdicts /\ es[i].basis = i /\ es[i].after # es[i].id

(* EffectResolutionSummary::validate: a conflict is a later entry and only *)
(* a recorded success can have one.                                        *)
ValidResolutionSummary(e) ==
    /\ HasEntry("assessment", e.resolution)
    /\ e.conflict # 0 =>
         /\ e.conflict <= Len(e.entries) /\ e.result # None
         /\ \A i \in Entry("assessment", e.resolution) : i < e.conflict

(* EffectEvidenceSummary::validate and EffectEvidenceBinding::validate,    *)
(* run before every save and after every read.                             *)
ValidSummary(e) ==
    /\ Len(e.entries) < e.revision
    /\ e.resolution # None => ValidResolutionSummary(e)
    /\ e.resolution = None => e.conflict = 0

(* ensure: keep the copy, or make the first one.                           *)
Ensure(ap, claim) ==
    IF eff # None THEN [eff EXCEPT !.lookup = ap.lookup]
    ELSE NewEffect(IF claim # None THEN "verified" ELSE IF ap.dispatcher # 0 THEN "attempt" ELSE "fence",
                   ap.lookup)

(* legacy_confirmation: mirror a journal that version 1 confirmed, once.   *)
LegacyConfirmation(e, ap, j) ==
    IF e.journal # None \/ ~Confirmed(ap) THEN e
    ELSE Append1(Report([e EXCEPT !.journal = j.output], j.output),
                 [NoEntry EXCEPT !.kind = "observation", !.op = "legacy_confirm", !.attempt = j.attempt,
                                 !.output = j.output])

(***************************************************************************)
(* The occurrence as the program can find it: fresh; fenced by an upgrade; *)
(* claimed by a worker of an earlier version; confirmed by one. The last   *)
(* two were copied to the retained evidence by the upgrade.                *)
(***************************************************************************)
InitAppr(origin) ==
    [claimed |-> origin # "fresh",
     evidence |-> CASE origin = "attempt" -> "open" [] origin = "confirmed" -> "legacy_confirmed" [] OTHER -> "none",
     lookup |-> IF origin = "confirmed" THEN CHOOSE l \in Lookups : TRUE ELSE None,
     dispatcher |-> IF origin \in {"attempt", "confirmed"} THEN 1 ELSE 0,
     confirmer |-> IF origin = "confirmed" THEN 1 ELSE 0]

InitJournal(origin) ==
    IF origin # "confirmed" THEN None
    ELSE [kind |-> "effect", lookup |-> CHOOSE l \in Lookups : TRUE, output |-> CHOOSE o \in Outputs : TRUE, attempt |-> 1]

Init ==
    /\ \E origin \in Origins :
         /\ appr = InitAppr(origin)
         /\ journal = InitJournal(origin)
         /\ eff = IF origin \in {"fresh", "fence"} THEN None
                  ELSE LET e == NewEffect("attempt", InitAppr(origin).lookup)
                       IN LegacyConfirmation(e, InitAppr(origin), InitJournal(origin))
         /\ sent = IF origin = "fresh" THEN 0 ELSE 1
    /\ run = [state |-> "Running", activation |-> 1, attempt |-> 1, lease |-> "live", wait |-> None]
    /\ keys = {}
    /\ rows = [p \in Activations |-> "none"]
    /\ wakes = [p \in Activations |-> None]
    /\ calls = {}
    /\ held = [a \in Attempts |-> {}]
    /\ acked = {}

(***************************************************************************)
(* Claims.                                                                 *)
(***************************************************************************)
(* check_live, for the attempt that owns activation 1.                     *)
Live(a) == run.state = "Running" /\ run.activation = 1 /\ run.attempt = a /\ run.lease = "live"

(* Evidence::load: the occurrence of this activation, under its lookup.    *)
Loads(l) == run.state # "Gone" /\ appr.lookup \in {None, l}

(* A claim needs the lease, its lookup, and no ordinary journal record.    *)
Claimable(c) ==
    /\ Live(c.attempt) /\ Loads(c.lookup)
    /\ journal # None => Confirmed(appr)

(* grant_bound.                                                            *)
Grant(c) ==
    IF appr.lookup # None THEN appr
    ELSE [appr EXCEPT !.dispatcher = IF appr.claimed THEN @ ELSE c.attempt,
                      !.claimed = TRUE, !.evidence = "open", !.lookup = c.lookup]

(* Mutant of Permission: the attempt that holds the grant may dispatch.    *)
PermissionOfHolder(c) ==
    IF ~appr.claimed \/ appr.dispatcher = c.attempt THEN "dispatch" ELSE "lookup"

(* Only the claim that commits the first grant may dispatch.               *)
Permission(c) == IF appr.claimed THEN "lookup" ELSE "dispatch"

(* The worker hears the answer or not; only a fresh answer reaches it.     *)
Answer(c, permission) ==
    \E heard \in (IF c.waiting THEN BOOLEAN ELSE {FALSE}) :
        held' = IF heard THEN [held EXCEPT ![c.attempt] = @ \cup {[id |-> c.id, mode |-> permission]}]
                ELSE held

(* The program asks for the permission; its worker never asks twice.       *)
Ask(a, v, id, l) ==
    /\ ~\E c \in calls : c.attempt = a /\ c.waiting
    /\ (v = 1) = (id = None)
    /\ Live(a) /\ Cardinality(calls) < MaxCalls
    /\ calls' = calls \cup {[attempt |-> a, version |-> v, id |-> id, lookup |-> l, waiting |-> TRUE]}
    /\ UNCHANGED <<run, appr, journal, eff, keys, rows, wakes, held, sent, acked>>

(* The worker's request times out or is cancelled; the store may still     *)
(* execute it.                                                             *)
StopWaiting(c) ==
    /\ c \in calls /\ c.waiting
    /\ calls' = (calls \ {c}) \cup {[c EXCEPT !.waiting = FALSE]}
    /\ UNCHANGED <<run, appr, journal, eff, keys, rows, wakes, held, sent, acked>>

(* claim_approved_effect_once.                                             *)
ClaimV1(c) ==
    /\ c \in calls /\ c.version = 1 /\ Claimable(c)
    /\ appr' = Grant(c)
    /\ eff' = LegacyConfirmation(Ensure(Grant(c), None), Grant(c), journal)
    /\ Answer(c, Permission(c))
    /\ calls' = calls \ {c}
    /\ UNCHANGED <<run, journal, keys, rows, wakes, sent, acked>>

ClaimEntry(c) ==
    [NoEntry EXCEPT !.kind = "claim", !.op = "claim", !.id = c.id, !.mode = Permission(c),
                    !.attempt = c.attempt, !.worker = WorkerOf[c.attempt], !.lookup = c.lookup]

(* validate_claim: a claim id is reused only for the same command.         *)
SameClaim(c) ==
    LET old == EntryOf("claim", c.id)
    IN old.attempt = c.attempt /\ old.lookup = c.lookup /\ old.worker = WorkerOf[c.attempt]

(* A replayed claim is lookup-only whatever it first granted.              *)
ReplayedMode(c) == "lookup"

(* claim_effect_v2_once: the journal if there is one, the claim already    *)
(* accepted, or a new claim.                                               *)
ClaimV2(c) ==
    /\ c \in calls /\ c.version = 2 /\ Claimable(c)
    /\ HasEntry("claim", c.id) => SameClaim(c)
    /\ CASE journal # None ->
              /\ journal.lookup = c.lookup
              /\ UNCHANGED <<appr, eff, held>>
         [] journal = None /\ HasEntry("claim", c.id) ->
              /\ UNCHANGED <<appr, eff>>
              /\ Answer(c, ReplayedMode(c))
         [] OTHER ->
              LET first == Ensure(Grant(c), IF appr.claimed THEN None ELSE c.id)
              IN /\ Len(first.entries) < MaxEntries
                 /\ appr' = Grant(c)
                 /\ eff' = Append1(first, ClaimEntry(c))
                 /\ Answer(c, Permission(c))
    /\ calls' = calls \ {c}
    /\ UNCHANGED <<run, journal, keys, rows, wakes, sent, acked>>

(* The claim is refused: no lease any more, another lookup, an ordinary    *)
(* record, a reused id, or the run's budget.                               *)
ClaimRefused(c) ==
    /\ c \in calls
    /\ calls' = calls \ {c}
    /\ UNCHANGED <<run, appr, journal, eff, keys, rows, wakes, held, sent, acked>>

(* The program sends the effect with the permission it was handed.         *)
Dispatch(a, h) ==
    /\ h \in held[a] /\ h.mode = "dispatch"
    /\ sent' = sent + 1
    /\ held' = [held EXCEPT ![a] = (@ \ {h}) \cup {[h EXCEPT !.mode = "sent"]}]
    /\ UNCHANGED <<run, appr, journal, eff, keys, rows, wakes, calls, acked>>

(***************************************************************************)
(* Confirmations and other reports.                                        *)
(***************************************************************************)
MayReport(a, id) == \E h \in held[a] : h.id = id /\ h.mode # "dispatch"

Ack(kind, id, value) == acked' = acked \cup {[kind |-> kind, id |-> id, value |-> value]}

(* append_local for a typed confirmation.                                  *)
Journalled(a, l, o) == [kind |-> "effect", lookup |-> l, output |-> o, attempt |-> a]
ConfirmedBy(a)      == [appr EXCEPT !.evidence = "confirmed", !.confirmer = a]

(* A confirmation already accepted is answered again: to the attempt that  *)
(* made it even without its lease, to another one only with the lease.     *)
MayRepeat(a, o) ==
    /\ journal.output = o
    /\ journal.attempt = a \/ Live(a)

(* confirm_approved_effect_once.                                           *)
ConfirmV1(a, l, o) ==
    /\ MayReport(a, None)
    /\ run.state # "Gone" /\ appr.lookup = l
    /\ IF Confirmed(appr)
         THEN /\ MayRepeat(a, o)
              /\ eff' = LegacyConfirmation(Ensure(appr, None), appr, journal)
              /\ UNCHANGED <<appr, journal>>
         ELSE /\ appr.evidence = "open" /\ journal = None /\ Live(a)
              /\ eff = None \/ Len(eff.entries) < MaxEntries
              /\ journal' = Journalled(a, l, o)
              /\ appr' = ConfirmedBy(a)
              /\ eff' = LegacyConfirmation(Ensure(appr', None), appr', journal')
    /\ Ack("confirm", None, o)
    /\ UNCHANGED <<run, keys, rows, wakes, calls, held, sent>>

(* claim_command: the report names a claim of the same worker, and one     *)
(* that was granted the dispatch if that is what it reports.               *)
OwnsClaim(w, id, mode) ==
    /\ HasEntry("claim", id) /\ EntryOf("claim", id).worker = w
    /\ mode = "dispatch" => EntryOf("claim", id).mode = "dispatch"

ObservationEntry(op, w, id, obs, mode, o) ==
    [NoEntry EXCEPT !.kind = "observation", !.op = op, !.id = obs, !.claim = id, !.mode = mode,
                    !.worker = w, !.output = o]

(* exact_observation.                                                      *)
SameObservation(op, w, id, obs, mode, o) ==
    EntryOf("observation", obs) = ObservationEntry(op, w, id, obs, mode, o)

(* A new confirmation opens the journal or agrees with it.                 *)
ConfirmsJournal(a, o) ==
    IF journal # None
      THEN Confirmed(appr) /\ appr.confirmer = journal.attempt /\ journal.output = o
      ELSE appr.evidence = "open"

(* confirm_effect_v2_once.                                                 *)
ConfirmV2(a, id, obs, mode, l, o) ==
    LET w == WorkerOf[a]
        entry == ObservationEntry("confirm", w, id, obs, mode, o)
    IN /\ MayReport(a, id) /\ OwnsClaim(w, id, mode)
       /\ EntryOf("claim", id).attempt = a /\ EntryOf("claim", id).lookup = l
       /\ IF HasEntry("observation", obs)
            THEN /\ SameObservation("confirm", w, id, obs, mode, o)
                 /\ UNCHANGED <<appr, journal, eff>>
            ELSE /\ Live(a) /\ appr.lookup = l
                 /\ ConfirmsJournal(a, o)
                 /\ Len(eff.entries) < MaxEntries
                 /\ journal' = IF journal = None THEN Journalled(a, l, o) ELSE journal
                 /\ appr' = IF journal = None THEN ConfirmedBy(a) ELSE appr
                 /\ eff' = Append1(Report([eff EXCEPT !.journal = journal'.output], o), entry)
       /\ Ack("confirm", obs, o)
       /\ UNCHANGED <<run, keys, rows, wakes, calls, held, sent>>

(* observe_effect_once: evidence only, with or without a lease or a run.   *)
Observe(w, id, obs, mode, o) ==
    LET entry == ObservationEntry("observe", w, id, obs, mode, o)
    IN /\ OwnsClaim(w, id, mode)
       /\ IF HasEntry("observation", obs)
            THEN /\ SameObservation("observe", w, id, obs, mode, o)
                 /\ eff' = eff
            ELSE /\ Len(eff.entries) < MaxEntries
                 /\ eff' = Append1(Report(eff, o), entry)
       /\ Ack("observe", obs, o)
       /\ UNCHANGED <<run, appr, journal, keys, rows, wakes, calls, held, sent>>

(* reserved_local_prior: generic commits may use the reserved key only     *)
(* while no grant has bound it and the approval is not a protected effect. *)
LocalAllowed == appr.evidence = "none" /\ ~Protected

(* record_local_result_once under the reserved key, by approved_local.     *)
RecordLocal(a, o) ==
    /\ run.state # "Gone" /\ LocalAllowed
    /\ IF journal # None
         THEN MayRepeat(a, o) /\ journal' = journal
         ELSE Live(a) /\ journal' = [kind |-> "local", lookup |-> None, output |-> o, attempt |-> a]
    /\ Ack("local", None, o)
    /\ UNCHANGED <<run, appr, eff, keys, rows, wakes, calls, held, sent>>

(***************************************************************************)
(* Assessments and the wait for one.                                       *)
(***************************************************************************)
(* eligible: there is an assessment, other than the one already seen.      *)
Eligible(wait, e) == e.resolution # None /\ e.resolution # wait.after

Outcome(e) ==
    IF e.conflict # 0 THEN [kind |-> "disputed", value |-> None, at |-> e.conflict]
    ELSE LET v == EntryOf("assessment", e.resolution).output
         IN [kind |-> "assessed", value |-> v, at |-> 0]

(* The assessment was decided on the evidence as it is now.                *)
Current(c) == eff.revision = c.expected /\ eff.resolution = c.after

AssessmentEntry(c) ==
    [NoEntry EXCEPT !.kind = "assessment", !.op = "resolve", !.id = c.id, !.worker = c.actor,
                    !.output = c.verdict, !.basis = c.expected, !.after = c.after]

Assessed(e, c) ==
    [Append1(e, AssessmentEntry(c)) EXCEPT
       !.resolution = c.id, !.conflict = 0,
       !.result = IF c.verdict \in Outputs THEN c.verdict ELSE None]

(* The parked activation whose wait the assessment ends.                   *)
WakeOwed(e) ==
    IF run.state = "Waiting" /\ run.wait # None /\ Eligible(run.wait, e) THEN {run.wait.parking} ELSE {}

(* resolve_effect_once.                                                    *)
Resolve(c) ==
    /\ eff # None
    /\ IF HasEntry("assessment", c.id)
         THEN /\ EntryOf("assessment", c.id) = AssessmentEntry(c)
              /\ UNCHANGED <<eff, rows>>
         ELSE /\ Current(c)
              /\ Len(eff.entries) < MaxEntries
              /\ eff' = Assessed(eff, c)
              /\ rows' = [p \in Activations |-> IF p \in WakeOwed(eff') THEN "open" ELSE rows[p]]
    /\ Ack("resolve", c.id, [verdict |-> c.verdict, actor |-> c.actor])
    /\ UNCHANGED <<run, appr, journal, keys, wakes, calls, held, sent>>

(* select: the run resumes with what the evidence says now.                *)
Selected(wait) ==
    [id |-> eff.resolution, revision |-> eff.revision, outcome |-> Outcome(eff), after |-> wait.after]

Resumed(r, act) == [r EXCEPT !.state = "Running", !.activation = act, !.wait = None]

(* install: the controller's decision to wait is applied. A wait for an    *)
(* occurrence without evidence, after an unknown assessment or under a     *)
(* used key fails the run.                                                 *)
Park(k, after) ==
    LET wait == [key |-> k, parking |-> run.activation, after |-> after]
        next == run.activation + 1
    IN /\ run.state = "Running" /\ run.lease = "over" /\ run.activation < MaxActivation
       /\ IF eff = None \/ k \in keys \/ (after # None /\ ~HasEntry("assessment", after))
            THEN run' = [run EXCEPT !.state = "Ended"] /\ UNCHANGED <<keys, wakes>>
            ELSE /\ keys' = keys \cup {k}
                 /\ IF Eligible(wait, eff)
                      THEN run' = Resumed(run, next) /\ wakes' = [wakes EXCEPT ![next] = Selected(wait)]
                      ELSE run' = [run EXCEPT !.state = "Waiting", !.wait = wait] /\ UNCHANGED wakes
       /\ UNCHANGED <<appr, journal, eff, rows, calls, held, sent, acked>>

(* apply: the obligation of parking activation p.                          *)
ApplyWait(p) ==
    /\ rows[p] = "open"
    /\ rows' = [rows EXCEPT ![p] = "done"]
    /\ IF run.state = "Waiting" /\ run.wait # None /\ run.wait.parking = p
         THEN /\ Eligible(run.wait, eff)
              /\ run' = Resumed(run, p + 1)
              /\ wakes' = [wakes EXCEPT ![p + 1] = Selected(run.wait)]
         ELSE UNCHANGED <<run, wakes>>
    /\ UNCHANGED <<appr, journal, eff, keys, calls, held, sent, acked>>

(***************************************************************************)
(* The run around it.                                                      *)
(***************************************************************************)
Settle ==
    /\ Live(run.attempt)
    /\ run' = [run EXCEPT !.lease = "over"]
    /\ UNCHANGED <<appr, journal, eff, keys, rows, wakes, calls, held, sent, acked>>

Lapse ==
    /\ run.lease = "live"
    /\ run' = [run EXCEPT !.lease = "lapsed"]
    /\ UNCHANGED <<appr, journal, eff, keys, rows, wakes, calls, held, sent, acked>>

(* Mutant of Recover: the new attempt starts with an empty journal.        *)
RecoverAfresh ==
    /\ run.lease = "lapsed"
    /\ run' = IF run.state = "Running" /\ run.attempt + 1 \in Attempts
                THEN [run EXCEPT !.attempt = @ + 1, !.lease = "live"]
                ELSE [run EXCEPT !.lease = "over", !.state = "Ended"]
    /\ journal' = None
    /\ UNCHANGED <<appr, eff, keys, rows, wakes, calls, held, sent, acked>>

(* The lapsed attempt is recovered: another attempt, or the task fails.    *)
Recover ==
    /\ run.lease = "lapsed"
    /\ run' = IF run.state = "Running" /\ run.attempt + 1 \in Attempts
                THEN [run EXCEPT !.attempt = @ + 1, !.lease = "live"]
                ELSE [run EXCEPT !.lease = "over", !.state = "Ended"]
    /\ UNCHANGED <<appr, journal, eff, keys, rows, wakes, calls, held, sent, acked>>

(* The run completes, fails or is cancelled: an open wait is closed with   *)
(* its obligation.                                                         *)
End ==
    /\ run.state \in {"Running", "Waiting"}
    /\ run' = [run EXCEPT !.state = "Ended", !.wait = None]
    /\ rows' = IF run.wait # None /\ rows[run.wait.parking] = "open"
                 THEN [rows EXCEPT ![run.wait.parking] = "done"] ELSE rows
    /\ UNCHANGED <<appr, journal, eff, keys, wakes, calls, held, sent, acked>>

(* An open effect holds its run until it is confirmed or assessed.         *)
Releasable == appr.evidence = "open" => eff # None /\ eff.resolution # None

(* Retention collects the run with its journal; the evidence stays.        *)
Collect ==
    /\ run.state = "Ended" /\ run.lease = "over" /\ \A p \in Activations : rows[p] # "open"
    /\ Releasable
    /\ run' = [run EXCEPT !.state = "Gone"]
    /\ journal' = None
    /\ appr' = [appr EXCEPT !.evidence = "none", !.lookup = None, !.dispatcher = 0, !.confirmer = 0]
    /\ UNCHANGED <<eff, keys, rows, wakes, calls, held, sent, acked>>

(***************************************************************************)
(* The specification.                                                      *)
(***************************************************************************)
Modes == {"dispatch", "lookup"}

ResolutionCommand ==
    [id : ResolutionIds, expected : 1 .. MaxEntries + 1, after : ResolutionIds \cup {None},
     verdict : Verdicts, actor : Actors]

(* resolution_fields: an assessment does not supersede itself.             *)
ValidResolution(c) == c.after # c.id

Next ==
    \/ \E a \in Attempts, v \in Versions, id \in ClaimIds \cup {None}, l \in Lookups : Ask(a, v, id, l)
    \/ \E c \in calls : StopWaiting(c) \/ ClaimV1(c) \/ ClaimV2(c) \/ ClaimRefused(c)
    \/ \E a \in Attempts : \E h \in held[a] : Dispatch(a, h)
    \/ \E a \in Attempts, l \in Lookups, o \in Outputs : ConfirmV1(a, l, o)
    \/ \E a \in Attempts, id \in ClaimIds, obs \in ObservationIds, mode \in Modes, l \in Lookups, o \in Outputs :
         ConfirmV2(a, id, obs, mode, l, o)
    \/ \E w \in Workers, id \in ClaimIds, obs \in ObservationIds, mode \in Modes, o \in Outputs :
         Observe(w, id, obs, mode, o)
    \/ \E a \in Attempts, o \in Outputs : RecordLocal(a, o)
    \/ \E c \in {r \in ResolutionCommand : ValidResolution(r)} : Resolve(c)
    \/ \E k \in WaitKeys, after \in ResolutionIds \cup {None} : Park(k, after)
    \/ \E p \in Activations : ApplyWait(p)
    \/ Settle \/ Lapse \/ Recover \/ End \/ Collect

Spec == Init /\ [][Next]_vars

(* Coordinators poll, so an obligation that stays due is applied.          *)
Fairness == \A p \in Activations : WF_vars(ApplyWait(p))

LiveSpec == Spec /\ Fairness

(***************************************************************************)
(* Properties.                                                             *)
(***************************************************************************)
(* The effect is dispatched at most once, whatever attempts, retries, lost *)
(* answers and late claims there are: Ledgence never re-grants             *)
(* (approved_effects.rs, effect_evidence.rs).                              *)
OneDispatch == sent <= 1

(* An occurrence that an ordinary local step used is never dispatched by a *)
(* claim, and one that was granted is never written by a generic commit.   *)
OneRoute ==
    journal # None /\ journal.kind = "local" =>
        /\ appr.evidence = "none"
        /\ \A a \in Attempts : \A h \in held[a] : h.mode = "lookup"

(* What was acknowledged stands for good: a confirmation is what the       *)
(* journal and the retained copy hold, every report and assessment is an   *)
(* entry with the same content, although replays are answered from saved   *)
(* receipts.                                                               *)
AcksStand ==
    \A k \in acked :
        CASE k.kind = "confirm" ->
               /\ journal # None => journal.output = k.value
               /\ eff # None /\ eff.journal = k.value
          [] k.kind = "local" -> journal # None => journal.output = k.value
          [] k.kind = "observe" -> HasEntry("observation", k.id) /\ EntryOf("observation", k.id).output = k.value
          [] OTHER ->
               /\ HasEntry("assessment", k.id)
               /\ EntryOf("assessment", k.id).output = k.value.verdict
               /\ EntryOf("assessment", k.id).worker = k.value.actor

(* A journal record is never replaced; only retention removes it.          *)
JournalStep   == journal # None => journal' = journal \/ run'.state = "Gone"
JournalStands == [][JournalStep]_vars

Least(S)    == CHOOSE i \in S : \A j \in S : i <= j
Greatest(S) == CHOOSE i \in S : \A j \in S : j <= i
OfKind(es, kind) == {i \in 1 .. Len(es) : es[i].kind = kind}

(* The first report after the last assessment that contradicts it.         *)
FirstConflict(es) ==
    LET last == Greatest(OfKind(es, "assessment"))
        S == {i \in OfKind(es, "observation") :
                i > last /\ es[last].output \in Outputs /\ es[i].output # es[last].output}
    IN IF OfKind(es, "assessment") = {} \/ S = {} THEN 0 ELSE Least(S)

(* The summary an operator decides on is what the entries say: revision,   *)
(* reference, discrepancy, assessment and its first contradiction; and the *)
(* dispatch is called verified exactly when a recorded claim was granted   *)
(* it (Retained::report, next, ensure).                                    *)
SummaryFollows ==
    eff # None =>
        LET es  == eff.entries
            obs == OfKind(es, "observation")
            ass == OfKind(es, "assessment")
        IN /\ eff.revision = Len(es) + 1
           /\ eff.reference = IF obs = {} THEN None ELSE es[Least(obs)].output
           /\ eff.discrepancy = (\E i, j \in obs : es[i].output # es[j].output)
           /\ eff.resolution = IF ass = {} THEN None ELSE es[Greatest(ass)].id
           /\ eff.conflict = FirstConflict(es)
           /\ (eff.provenance = "verified") = (\E i \in OfKind(es, "claim") : es[i].mode = "dispatch")
           /\ Cardinality({i \in obs : es[i].op = "legacy_confirm"}) <= 1

(* No sequence of accepted commands leaves evidence that the store refuses *)
(* to save or to read back: the occurrence would be frozen for good        *)
(* (effect_retained::save, load, append).                                  *)
Readable ==
    eff # None => ValidSummary(eff) /\ \A i \in 1 .. Len(eff.entries) : ValidEntry(eff.entries, i)

(* Every assessment was made on the evidence just before it and supersedes *)
(* the assessment just before it: no operator decided on a stale read.     *)
AssessedOnCurrent ==
    eff # None =>
        \A i \in OfKind(eff.entries, "assessment") :
            LET before == {j \in OfKind(eff.entries, "assessment") : j < i}
            IN /\ eff.entries[i].basis = i
               /\ eff.entries[i].after = IF before = {} THEN None ELSE eff.entries[Greatest(before)].id

(* A report of a dispatch names the one claim that was granted it, and     *)
(* every report comes from the worker of its claim (claim_command).        *)
ReportsNameClaims ==
    eff # None =>
        \A i \in {j \in OfKind(eff.entries, "observation") : eff.entries[j].op # "legacy_confirm"} :
            \E j \in OfKind(eff.entries, "claim") :
                /\ j < i /\ eff.entries[j].id = eff.entries[i].claim
                /\ eff.entries[j].worker = eff.entries[i].worker
                /\ eff.entries[i].mode = "dispatch" => eff.entries[j].mode = "dispatch"

(* A parked run whose wait an assessment ended has its obligation queued:  *)
(* the assessment and the wait cannot miss each other.                     *)
WakeIsOwed ==
    run.state = "Waiting" /\ Eligible(run.wait, eff) => rows[run.wait.parking] = "open"

(* An activation is resumed with the evidence as of the revision it names: *)
(* the last assessment then, newer than the one it had seen, or the first  *)
(* report that disputed it.                                                *)
WakeTellsEvidence ==
    \A p \in Activations :
        wakes[p] # None =>
            LET es   == SubSeq(eff.entries, 1, wakes[p].revision - 1)
                last == es[Greatest(OfKind(es, "assessment"))]
            IN /\ OfKind(es, "assessment") # {}
               /\ wakes[p].id = last.id /\ last.id # wakes[p].after
               /\ wakes[p].outcome = IF FirstConflict(es) # 0
                                       THEN [kind |-> "disputed", value |-> None, at |-> FirstConflict(es)]
                                       ELSE [kind |-> "assessed", value |-> last.output, at |-> 0]

(* Retention never collects a run whose effect may have been dispatched    *)
(* and of which nothing is known.                                          *)
HeldUntilKnown ==
    run.state = "Gone" => eff = None \/ eff.journal # None \/ eff.resolution # None

(* One grant, one route, and everything that was acknowledged, reported,   *)
(* assessed and told about the effect agrees with it.                      *)
EffectSound ==
    /\ TypeOK /\ OneDispatch /\ OneRoute /\ AcksStand
    /\ SummaryFollows /\ Readable /\ AssessedOnCurrent /\ ReportsNameClaims
    /\ WakeIsOwed /\ WakeTellsEvidence /\ HeldUntilKnown

(* A run parked for an assessment goes on once there is one.               *)
AssessmentResumes ==
    (run.state = "Waiting" /\ Eligible(run.wait, eff)) ~> (run.state # "Waiting")
=============================================================================
