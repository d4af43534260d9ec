-------------------------- MODULE ProviderOperation --------------------------
(***************************************************************************)
(* One operation at an external provider, known by its business identity:  *)
(* the single dispatch that runs compete for, the reports of its outcome   *)
(* that arrive in any order, the finite series of checks (probes) that     *)
(* recovers an outcome nobody reported, the operators' assessments, and    *)
(* the run that waits for what is known.                                   *)
(*                                                                         *)
(* A transaction locks the run, the active probe's task and the retained   *)
(* occurrence, so it is one step. Answers may be lost, so every command    *)
(* may be repeated. The clock counts from the dispatch to the deadline of  *)
(* recovery; nothing changes after that. A probe's task has one attempt.   *)
(***************************************************************************)
EXTENDS Integers, Sequences, FiniteSets, FiniteSetsExt

CONSTANTS
    Runs,           \* workflow runs whose approvals name the same business identity
    Reports,        \* what a call or a probe may report: [kind, value, ref]
    Failures,       \* how a probe's attempt may fail: [phase, error]
    Assessments,    \* what an operator may conclude: [kind, value]
    Keys,           \* logical keys of the runs' waits
    Lookup,         \* "by_key", "by_reference", "unavailable"
    MaxChecks, FirstDelay, Interval, MaxInterval, MinDelay, Deadline,  \* ProviderReconciliationPolicy
    MaxAssessments, \* bound on assessments
    Ends,           \* how runs may end: "completing", "cancelling", "failing"
    LeasesLapse,    \* attempts of the runs' activations may be lost
    None

Terminal    == {"succeeded", "failed", "cancelled"}
NonTerminal == {"unknown", "pending", "requires_action"}

(* ProviderReport: the knowledge, its payload and the provider's reference.*)
Report == [kind : Terminal \cup NonTerminal, value : Nat, ref : Nat]

Phases == {"admission", "preparation", "startup", "execution", "cleanup"}
Preparing == {"admission", "preparation", "startup"}
Errors == {"not_found", "integrity", "invalid_input", "protocol", "incompatible", "timed_out",
           "runtime", "io", "unavailable", "cancelled", "capacity"}
(* ProviderReconciliationPolicy::validate.                                 *)
ValidPolicy ==
    /\ MaxChecks \in 1 .. 256
    /\ Interval \in Nat \ {0} /\ MinDelay \in 1 .. Interval /\ FirstDelay >= MinDelay
    /\ MaxInterval >= Interval
    /\ FirstDelay < Deadline /\ Deadline \in Nat

ProviderAssumption ==
    /\ ValidPolicy
    /\ Reports \subseteq Report                 \* ref 0: no reference was given
    /\ Failures \subseteq [phase : Phases, error : Errors]
    /\ \A a \in Assessments : a.kind \in {"success", "failure", "unknown"} /\ a.value \in Nat
    /\ Lookup \in {"by_key", "by_reference", "unavailable"}
    /\ MaxAssessments \in Nat /\ LeasesLapse \in BOOLEAN
    /\ Ends \subseteq {"completing", "cancelling", "failing"}

VARIABLES
    now,     \* time since the dispatch
    runs,    \* the runs: state, lease of the activation's attempt, wait
    op,      \* provider_operations and its retained occurrence, None before the dispatch
    owner,   \* the attempt that dispatched still holds its lease
    probe,   \* the task of the active probe
    said,    \* sources of reports, by generation (0: the dispatch)
    sent,    \* permissions to call the provider that reached a program
    told     \* what each run was last resumed with

vars == <<now, runs, op, owner, probe, said, sent, told>>

NoReport == [kind |-> "none", value |-> 0, ref |-> 0]
NoEntry  == [kind |-> "none", gen |-> 0, report |-> NoReport, how |-> "none"]
NoCandidate == [kind |-> "none", entry |-> 0, conflict |-> 0, reason |-> "none", checks |-> 0]
NoProbe  == [state |-> "none", cancel |-> FALSE, failure |-> None]

Stops == {"provider_terminal", "operator_assessment", "disputed", "action_required", "deadline",
          "budget_exhausted", "lookup_unavailable", "recovery_failed", "workflow_cancelled",
          "workflow_failed"}

TypeOK ==
    /\ now \in 0 .. Deadline
    /\ \A r \in Runs :
         /\ runs[r].state \in {"running", "waiting", "completing", "completed", "cancelling",
                               "cancelled", "failing", "failed"}
         /\ runs[r].live \in BOOLEAN /\ runs[r].row \in BOOLEAN /\ runs[r].used \subseteq Keys
         /\ (runs[r].wait # None) = (runs[r].state = "waiting")
    /\ op # None =>
         /\ op.run \in Runs /\ op.due \in 0 .. Deadline \cup {None}
         /\ op.knowledge \in Terminal \cup NonTerminal \cup {"disputed"}
         /\ op.handling \in {"unresolved", "provider_terminal", "operator_closed"}
         /\ op.stopped \in Stops \cup {None}
         /\ op.selected \in 0 .. Len(op.entries) /\ op.resolution \in 0 .. Len(op.entries)
         /\ op.active \in {0, op.gen}
    /\ owner \in BOOLEAN
    /\ probe.state \in {"none", "queued", "leased", "started", "completed", "failed", "lost", "cancelled"}
    /\ \A g \in DOMAIN said : said[g] \in Reports \cup {NoReport}
    /\ sent \in Nat

(***************************************************************************)
(* The evidence and its summary.                                           *)
(***************************************************************************)
Revision(o) == Len(o.entries) + 1

(* ProviderEffectSummary as the dispatch creates it.                       *)
NewOperation(r) ==
    [run |-> r, entries |-> <<[NoEntry EXCEPT !.kind = "dispatch"]>>,
     knowledge |-> "unknown", selected |-> 0, conflicts |-> <<>>, handling |-> "unresolved",
     candidate |-> NoCandidate, candidate_revision |-> 0, reference |-> 0,
     terminal_facts |-> <<>>, reference_facts |-> <<>>,
     checks |-> 0, gen |-> 0, active |-> 0, due |-> FirstDelay, stopped |-> None,
     resolution |-> 0, conflict |-> 0]

Rank(kind) == CASE kind = "unknown" -> 0 [] kind = "pending" -> 1
                [] kind = "requires_action" -> 2 [] OTHER -> 3

(* record_fact: a fact is known by the first report that states it.        *)
TerminalFact(report) == <<report.kind, report.value, report.ref>>
ReferenceOf(report)  == report.ref
Fresh(o, facts, kind, report) ==
    \A i \in 1 .. Len(facts) :
        LET known == o.entries[facts[i]].report
        IN IF kind = "terminal" THEN TerminalFact(known) # TerminalFact(report)
           ELSE ReferenceOf(known) # ReferenceOf(report)
RecordFact(o, facts, kind, report) ==
    IF Fresh(o, facts, kind, report) THEN Append(facts, Len(o.entries) + 1) ELSE facts

(* dispute: the earliest pair that established disagreement is kept.       *)
Dispute(o, pair) ==
    [o EXCEPT !.conflicts = IF \/ @ = <<>>
                               \/ pair[2] < @[2]
                               \/ pair[2] = @[2] /\ pair[1] < @[1] THEN pair ELSE @,
              !.knowledge = "disputed", !.selected = 0]

(* The earliest of the most informative reports is selected.               *)
Select(o, i, report) ==
    IF \/ Rank(report.kind) > Rank(o.knowledge)
       \/ o.knowledge = "unknown" /\ o.selected = 0
      THEN [o EXCEPT !.knowledge = report.kind, !.selected = i]
      ELSE o

(* A report agrees with an assessment.                                     *)
Compatible(verdict, report, refs) ==
    \/ verdict.kind = "unknown"
    \/ /\ ~refs
       /\ <<verdict.kind, report.kind>> \in {<<"success", "succeeded">>, <<"failure", "failed">>}
       /\ verdict.value = report.value

Verdict(o) == o.entries[o.resolution].report

(* refresh_candidate, in its three parts: what the evidence selects,       *)
(* whether it ends recovery, and what a run that waits is told.            *)
EvidenceCandidate(o) ==
    CASE o.resolution # 0 -> [NoCandidate EXCEPT !.kind = "assessment", !.entry = o.resolution, !.conflict = o.conflict]
      [] o.resolution = 0 /\ o.knowledge = "disputed" -> [NoCandidate EXCEPT !.kind = "disputed", !.entry = o.conflicts[2]]
      [] o.resolution = 0 /\ o.knowledge \in Terminal -> [NoCandidate EXCEPT !.kind = "provider", !.entry = o.selected]
      [] OTHER -> NoCandidate

EvidenceStop(o) ==
    CASE o.resolution # 0 -> "operator_assessment"
      [] o.resolution = 0 /\ o.knowledge \in Terminal -> "provider_terminal"
      [] o.resolution = 0 /\ o.knowledge = "disputed" -> "disputed"
      [] o.resolution = 0 /\ o.knowledge = "requires_action" -> "action_required"
      [] OTHER -> None

(* select_candidate: a candidate that changed is new at this revision.     *)
SelectCandidate(o, candidate, revision) ==
    IF candidate = o.candidate THEN o
    ELSE [o EXCEPT !.candidate = candidate, !.candidate_revision = revision]

RefreshCandidate(o, revision) ==
    LET stop == EvidenceStop(o)
        p    == IF stop = None THEN o ELSE [o EXCEPT !.stopped = stop, !.due = None]
        seen == EvidenceCandidate(o)
    IN SelectCandidate(p,
         IF seen = NoCandidate /\ p.stopped \notin {None, "provider_terminal", "operator_assessment"}
           THEN [NoCandidate EXCEPT !.kind = "review", !.reason = p.stopped, !.checks = p.checks]
           ELSE seen, revision)

(* The first part of aggregate: facts, selection and disputes.             *)
Weigh(o, report) ==
    LET i     == Len(o.entries) + 1
        refs  == IF report.ref = 0 THEN o.reference_facts
                 ELSE RecordFact(o, o.reference_facts, "reference", report)
        terms == IF report.kind \in Terminal
                   THEN RecordFact(o, o.terminal_facts, "terminal", report) ELSE o.terminal_facts
        noted == [o EXCEPT !.reference = IF report.ref # 0 /\ @ = 0 THEN report.ref ELSE @,
                           !.reference_facts = refs, !.terminal_facts = terms]
        chosen == IF report.kind \notin Terminal THEN Select(noted, i, report)
                  ELSE [(IF Len(terms) >= 2 THEN Dispute(noted, SubSeq(terms, 1, 2))
                         ELSE IF o.knowledge \in Terminal \cup {"disputed"} THEN noted
                         ELSE [noted EXCEPT !.knowledge = report.kind, !.selected = i])
                        EXCEPT !.handling = IF @ = "operator_closed" THEN @ ELSE "provider_terminal"]
    IN IF report.ref # 0 /\ Len(refs) >= 2 THEN Dispute(chosen, SubSeq(refs, 1, 2)) ELSE chosen

(* The second part: a fact that is new contradicts the assessment, once.   *)
Contradict(o, p, report) ==
    LET newTerminal  == Len(p.terminal_facts) > Len(o.terminal_facts)
        newReference == Len(p.reference_facts) > Len(o.reference_facts) /\ Len(p.reference_facts) >= 2
    IN IF /\ o.resolution # 0 /\ o.conflict = 0
          /\ newTerminal \/ newReference
          /\ ~Compatible(Verdict(o), report, newReference)
         THEN [p EXCEPT !.conflict = Len(o.entries) + 1] ELSE p

(* aggregate and append of one report of source g.                         *)
Aggregate(o, g, report, how) ==
    LET entry == [kind |-> "report", gen |-> g, report |-> report,
                  how |-> IF how = "live" /\ g # 0 THEN "probe" ELSE "other"]
        p     == Contradict(o, Weigh(o, report), report)
    IN [RefreshCandidate(p, Revision(o) + 1) EXCEPT !.entries = Append(o.entries, entry)]

Recorded(o, kind, g, how) ==
    [o EXCEPT !.entries = Append(@, [NoEntry EXCEPT !.kind = kind, !.gen = g, !.how = how])]

(* stop: the first reason stands.                                          *)
Stop(o, reason) ==
    IF o.stopped # None THEN o
    ELSE LET p == RefreshCandidate([o EXCEPT !.stopped = reason, !.due = None], Revision(o) + 1)
         IN Recorded(p, "stopped", 0, reason)

(***************************************************************************)
(* How a probe that reported nothing failed.                               *)
(***************************************************************************)

(* validate_settlement: the classification fits the failure it came with.  *)
ValidSettlement(class, f) ==
    CASE class = "incompatible_worker" -> f.error = "incompatible" /\ f.phase \in Preparing
      [] class = "contract_mismatch"   -> /\ f.error \in {"integrity", "incompatible"}
                                          /\ f.phase \in {"admission", "preparation", "execution"}
      [] class = "context_invalid"     -> /\ f.error \in {"protocol", "invalid_input"}
                                          /\ f.phase \in {"admission", "execution"}
      [] class = "result_invalid"      -> f.error = "protocol" /\ f.phase = "execution"
      [] class = "invocation_timeout"  -> f.error = "timed_out" /\ f.phase = "execution"
      [] class = "invocation_failed"   -> /\ f.error \in {"runtime", "io", "unavailable", "cancelled"}
                                          /\ f.phase \in {"execution", "cleanup"}
      [] class = "preparation_failed"  -> f.error # "incompatible" /\ f.phase \in Preparing
      [] OTHER -> FALSE

(* The host's classify_failure: the first classification that fits.        *)
HostOrder == <<"incompatible_worker", "contract_mismatch", "result_invalid", "context_invalid",
               "invocation_timeout", "invocation_failed", "preparation_failed">>
HostClass(f) ==
    LET fits == {i \in 1 .. Len(HostOrder) : ValidSettlement(HostOrder[i], f)}
    IN IF fits = {} THEN None ELSE HostOrder[Min(fits)]

(* Mutant of RejectionError: a rejected contract is a runtime error.       *)
RejectionErrorRuntime(class) ==
    CASE class = "contract_mismatch" -> "runtime" [] class = "context_invalid" -> "invalid_input"
      [] class = "result_invalid" -> "protocol" [] OTHER -> "runtime"

(* The error a host reports with a probe that rejected its invocation.     *)
RejectionError(class) ==
    CASE class = "contract_mismatch" -> "incompatible" [] class = "context_invalid" -> "invalid_input"
      [] class = "result_invalid" -> "protocol" [] OTHER -> "runtime"
Rejections ==
    {[phase |-> "execution", error |-> RejectionError(c), class |-> c] :
        c \in {"contract_mismatch", "context_invalid", "result_invalid", "invocation_failed"}}

(* What a host may settle with: its own classification, none when it is    *)
(* older, or a rejection by the program.                                   *)
Settlements ==
    {[phase |-> f.phase, error |-> f.error, class |-> c] : f \in Failures, c \in {None}}
    \cup {[phase |-> f.phase, error |-> f.error, class |-> HostClass(f)] : f \in Failures}
    \cup {s \in Rejections : \E f \in Failures : f.phase = s.phase /\ f.error = s.error}

(* classify_failure of the store: the kind that is recorded, and whether   *)
(* another check would fail as well.                                       *)
Definitive(f) == f.phase \in Preparing /\ f.error \in {"not_found", "integrity", "invalid_input", "protocol", "incompatible"}
FailureKind(p) ==
    IF p.state = "cancelled" THEN "cancelled"
    ELSE IF p.state = "lost" THEN "worker_lost"
    ELSE IF p.state = "completed" THEN "missing_report"
    ELSE IF p.failure.class # None THEN p.failure.class
    ELSE IF p.failure.phase \in Preparing
      THEN IF p.failure.error = "incompatible" THEN "incompatible_worker" ELSE "preparation_failed"
    ELSE IF p.failure.phase = "execution" /\ p.failure.error = "timed_out" THEN "invocation_timeout"
    ELSE IF p.failure.phase = "execution" /\ p.failure.error = "protocol" THEN "result_invalid"
    ELSE "invocation_failed"
Permanent(p) ==
    /\ p.state = "failed"
    /\ \/ Definitive(p.failure)
       \/ IF p.failure.class # None
            THEN p.failure.class \in {"incompatible_worker", "contract_mismatch", "context_invalid", "result_invalid"}
            ELSE FailureKind(p) = "result_invalid"

(***************************************************************************)
(* The run that waits.                                                     *)
(***************************************************************************)
Init ==
    /\ now = 0
    /\ runs = [r \in Runs |-> [state |-> "running", live |-> TRUE, wait |-> None, row |-> FALSE, used |-> {}]]
    /\ op = None /\ owner = FALSE /\ probe = NoProbe /\ said = [g \in {} |-> NoReport]
    /\ sent = 0
    /\ told = [r \in Runs |-> [candidate |-> NoCandidate, revision |-> 0, after |-> 0]]

LiveStates == {"running", "completing", "waiting"}   \* Running and Waiting of WorkflowState

(* Mutant of Eligible: whatever is known wakes the run.                    *)
EligibleAny(wait, o) == o.candidate_revision # 0

(* eligible: there is a candidate the run has not seen.                    *)
Eligible(wait, o) == o.candidate_revision # 0 /\ o.candidate_revision > wait.after

(* notify, with enqueue: the coordinator's row of a wait that became ready.*)
Notify(rs, o) ==
    IF rs[o.run].state = "waiting" /\ Eligible(rs[o.run].wait, o)
      THEN [rs EXCEPT ![o.run].row = TRUE] ELSE rs

(* select: the next activation is scheduled with what is known.            *)
Resumed(rs, r) == [rs EXCEPT ![r].state = "running", ![r].live = TRUE, ![r].wait = None, ![r].row = FALSE]
Tell(r, after) ==
    told' = [told EXCEPT ![r] = [candidate |-> op.candidate, revision |-> Revision(op), after |-> after]]

(* The run fails or is cancelled: its wait is closed, its attempt fenced.  *)
Leaving(r, state) == [runs EXCEPT ![r].state = state, ![r].live = FALSE, ![r].wait = None, ![r].row = FALSE]
Fenced(r) == owner' = (owner /\ op.run # r)

(* install_wait: the settled activation r parks under a key.               *)
Park(r, key, after) ==
    LET wait == [key |-> key, after |-> after]
        ok   == op # None /\ op.run = r /\ after <= Revision(op) /\ key \notin runs[r].used
        ready == Eligible(wait, op)
    IN /\ runs[r].state = "running" /\ runs[r].live
       /\ Fenced(r)
       /\ IF ~ok THEN runs' = Leaving(r, "failing") /\ UNCHANGED told
          ELSE /\ runs' = IF ready THEN [Resumed(runs, r) EXCEPT ![r].used = @ \cup {key}]
                          ELSE [runs EXCEPT ![r].state = "waiting", ![r].live = FALSE, ![r].wait = wait,
                                            ![r].used = @ \cup {key}]
               /\ IF ready THEN Tell(r, after) ELSE UNCHANGED told
       /\ UNCHANGED <<now, op, probe, said, sent>>

(* apply_wait: a coordinator applies the row.                              *)
ApplyWait(r) ==
    LET ready == runs[r].state = "waiting" /\ Eligible(runs[r].wait, op)
    IN /\ runs[r].row
       /\ runs' = IF ready THEN Resumed(runs, r) ELSE [runs EXCEPT ![r].row = FALSE]
       /\ IF ready THEN Tell(r, runs[r].wait.after) ELSE UNCHANGED told
       /\ UNCHANGED <<now, op, owner, probe, said, sent>>

(* The attempt's lease lapses, and the activation is attempted again.      *)
LoseAttempt(r) ==
    /\ LeasesLapse /\ runs[r].state = "running" /\ runs[r].live
    /\ runs' = [runs EXCEPT ![r].live = FALSE]
    /\ Fenced(r)
    /\ UNCHANGED <<now, op, probe, said, sent, told>>

Reattempt(r) ==
    /\ runs[r].state = "running" /\ ~runs[r].live
    /\ runs' = [runs EXCEPT ![r].live = TRUE]
    /\ UNCHANGED <<now, op, owner, probe, said, sent, told>>

(* The program decides to complete; the decision is applied only when the  *)
(* run's recovery has stopped and its last probe is gone.                  *)
Decide(r) ==
    /\ "completing" \in Ends /\ runs[r].state = "running" /\ runs[r].live
    /\ runs' = [runs EXCEPT ![r].state = "completing", ![r].live = FALSE]
    /\ Fenced(r)
    /\ UNCHANGED <<now, op, probe, said, sent, told>>

Quiet(r) == IF op = None THEN TRUE ELSE op.run = r => op.stopped # None /\ op.active = 0

Complete(r) ==
    /\ runs[r].state = "completing" /\ Quiet(r)
    /\ runs' = [runs EXCEPT ![r].state = "completed"]
    /\ UNCHANGED <<now, op, owner, probe, said, sent, told>>

EndRun(r, state) ==
    /\ runs[r].state \in LiveStates /\ state \in Ends \ {"completing"}
    /\ runs' = Leaving(r, state)
    /\ Fenced(r)
    /\ UNCHANGED <<now, op, probe, said, sent, told>>

(***************************************************************************)
(* The dispatch.                                                           *)
(***************************************************************************)

(* Mutant of Granted: only the run's own occurrence is looked up.          *)
GrantedPerRun(r) == op # None => op.run # r

(* claim_provider_tx: only the first claim of the business identity is     *)
(* granted; any other is told of the operation that exists.                *)
Granted(r) == op = None

(* The host hands the grant to the program when the answer arrives; it     *)
(* never asks for it again.                                                *)
Handed(delivered) == IF delivered THEN sent + 1 ELSE sent

Claim(r, delivered) ==
    /\ runs[r].state = "running" /\ runs[r].live
    /\ Granted(r)
    /\ op' = IF op = None THEN NewOperation(r) ELSE op
    /\ owner' = TRUE
    /\ said' = IF op = None THEN [g \in {0} |-> NoReport] ELSE said
    /\ sent' = Handed(delivered)
    /\ UNCHANGED <<now, runs, probe, told>>

(***************************************************************************)
(* Reports.                                                                *)
(***************************************************************************)

(* cancel_active: a queued task ends at once, a leased one is asked to.    *)
CancelActive(p) ==
    IF p.state = "queued" THEN [p EXCEPT !.state = "cancelled"]
    ELSE IF p.state \in {"leased", "started"} THEN [p EXCEPT !.cancel = TRUE] ELSE p

(* The owner of a source may report live: the dispatching attempt while it *)
(* holds its lease, a probe while it is the active one of a recovery that  *)
(* has not stopped.                                                        *)
OwnerLive(g) ==
    IF g = 0 THEN owner /\ runs[op.run].state = "running"
    ELSE /\ runs[op.run].state \in LiveStates
         /\ probe.state = "started" /\ ~probe.cancel
         /\ op.active = g /\ op.stopped = None

(* A source reports once; the same report again is answered from the       *)
(* first, and a different one is a conflict.                               *)
FirstReport(g, report) == said[g] = NoReport

(* provider_report_tx: a live report, or an observation by the same worker *)
(* that needs neither the run nor a lease.                                 *)
ReportProvider(g, report, how) ==
    /\ op # None /\ g \in DOMAIN said
    /\ FirstReport(g, report)
    /\ how = "live" => OwnerLive(g)
    /\ op' = Aggregate(op, g, report, how)
    /\ said' = [said EXCEPT ![g] = report]
    /\ probe' = IF (how = "live" => g = 0) /\ op'.stopped # None THEN CancelActive(probe) ELSE probe
    /\ runs' = Notify(runs, op')
    /\ UNCHANGED <<now, owner, sent, told>>

(***************************************************************************)
(* Recovery.                                                               *)
(***************************************************************************)
(* The clock is read only while recovery goes on.                          *)
Tick ==
    /\ now < Deadline /\ op # None /\ op.stopped = None
    /\ now' = now + 1
    /\ UNCHANGED <<runs, op, owner, probe, said, sent, told>>

(* The reason why a check that is due is not made.                         *)
DueReason ==
    CASE runs[op.run].state \in {"cancelling", "cancelled"} -> "workflow_cancelled"
      [] runs[op.run].state \in {"failing", "failed", "completed"} -> "workflow_failed"
      [] runs[op.run].state \in LiveStates /\ now >= Deadline -> "deadline"
      [] runs[op.run].state \in LiveStates /\ now < Deadline /\ op.checks >= MaxChecks -> "budget_exhausted"
      [] runs[op.run].state \in LiveStates /\ now < Deadline /\ op.checks < MaxChecks
           /\ (Lookup = "unavailable" \/ (Lookup = "by_reference" /\ op.reference = 0)) -> "lookup_unavailable"
      [] OTHER -> None

(* The next probe: until it ends only the deadline is due.                 *)
Allocate(o) ==
    Recorded([o EXCEPT !.checks = @ + 1, !.gen = @ + 1, !.active = o.gen + 1, !.due = Deadline],
             "scheduled", o.gen + 1, "none")

Due == op # None /\ op.due # None /\ op.due <= now

(* advance_provider_item: a due operation is stopped or checked again.     *)
Advance ==
    /\ Due
    /\ IF DueReason # None
         THEN /\ op' = Stop(op, DueReason)
              /\ probe' = CancelActive(probe)
              /\ runs' = Notify(runs, op')
         ELSE /\ op.active = 0
              /\ op' = Allocate(op)
              /\ probe' = [NoProbe EXCEPT !.state = "queued"]
              /\ UNCHANGED runs
    /\ UNCHANGED <<now, owner, said, sent, told>>

(* A worker leases the probe's task, and is allowed to start it.           *)
LeaseProbe ==
    /\ probe.state = "queued"
    /\ probe' = [probe EXCEPT !.state = "leased"]
    /\ UNCHANGED <<now, runs, op, owner, said, sent, told>>

StartProbe ==
    /\ probe.state = "leased" /\ ~probe.cancel /\ op.active \in DOMAIN said
    /\ probe' = [probe EXCEPT !.state = "started"]
    /\ UNCHANGED <<now, runs, op, owner, said, sent, told>>

(* probe_context: the attempt of the active probe gets a source of its own.*)
ProbeContext ==
    /\ op # None /\ runs[op.run].state \in LiveStates
    /\ op.active # 0 /\ op.stopped = None
    /\ probe.state = "leased" /\ ~probe.cancel
    /\ op.active \notin DOMAIN said
    /\ op' = Recorded(op, "source", op.active, "none")
    /\ said' = [g \in DOMAIN said \cup {op.active} |-> IF g \in DOMAIN said THEN said[g] ELSE NoReport]
    /\ UNCHANGED <<now, runs, owner, probe, sent, told>>

(* The attempt ends: settled as completed, failed or cancelled, or lost    *)
(* with its lease.  This repository's worker completes a probe once its    *)
(* report was answered; the settlement does not ask for it.                *)
EndProbe(state, failure) ==
    /\ probe.state \in {"leased", "started"}
    /\ state = "completed" => probe.state = "started"
    /\ state = "cancelled" => probe.cancel
    /\ (state = "failed") = (failure # None)
    /\ state = "failed" /\ failure.phase = "execution" => probe.state = "started"
    /\ probe' = [probe EXCEPT !.state = state, !.failure = failure]
    /\ UNCHANGED <<now, runs, op, owner, said, sent, told>>

(* jittered_delay of the doubled and capped interval.                      *)
Delay(checks) == Min({Interval * 2 ^ Min({checks - 1, 20}), MaxInterval})
Jittered(delay) == {Min({Max({delay - j, MinDelay}), delay}) : j \in 0 .. delay \div 5}

Reported(g) == g \in DOMAIN said /\ said[g] # NoReport
Ended(p) == p.state \in {"completed", "failed", "lost", "cancelled"}

FinalReason(o, p, reported) ==
    CASE ~reported /\ Permanent(p) -> "recovery_failed"
      [] (reported \/ ~Permanent(p)) /\ now >= Deadline -> "deadline"
      [] (reported \/ ~Permanent(p)) /\ now < Deadline /\ o.checks >= MaxChecks -> "budget_exhausted"
      [] OTHER -> None

(* finalize: the probe is consumed once, and recovery stops or goes on     *)
(* after a delay that never passes the deadline.                           *)
Finalized(o, p) ==
    LET g == o.active
        reported == Reported(g)
        q == Recorded([o EXCEPT !.active = 0], "finished", g, IF reported THEN "reported" ELSE FailureKind(p))
        reason == FinalReason(q, p, reported)
    IN IF q.stopped # None THEN {q}
       ELSE IF reason # None THEN {Stop(q, reason)}
       ELSE {[q EXCEPT !.due = Min({now + d, Deadline})] : d \in Jittered(Delay(q.checks))}

(* A classification that does not fit its failure is refused.              *)
Classified(p) ==
    p.failure # None => (p.failure.class # None => ValidSettlement(p.failure.class, p.failure))

FinalizeProbe ==
    /\ op # None /\ op.active # 0 /\ Ended(probe)
    /\ runs[op.run].state \notin {"completed", "cancelled", "failed"}
    /\ ~Reported(op.active) => Classified(probe)
    /\ op' \in Finalized(op, probe)
    /\ probe' = NoProbe
    /\ runs' = Notify(runs, op')
    /\ UNCHANGED <<now, owner, said, sent, told>>

(* drain of a run that fails or is cancelled: its recovery is stopped, the *)
(* probe cancelled and consumed, and the run ends when nothing is left.    *)
Drained(r, o, p) ==
    LET reason == IF runs[r].state = "cancelling" THEN "workflow_cancelled" ELSE "workflow_failed"
        o1 == Stop(o, reason)
        p1 == CancelActive(p)
    IN IF o1.active # 0 /\ Ended(p1)
         THEN {[op |-> o2, probe |-> NoProbe] : o2 \in Finalized(o1, p1)}
         ELSE {[op |-> o1, probe |-> p1]}

Drain(r) ==
    /\ runs[r].state \in {"cancelling", "failing"}
    /\ IF Quiet(r) THEN UNCHANGED <<op, probe>>
       ELSE /\ Ended(probe) /\ ~Reported(op.active) => Classified(probe)
            /\ \E d \in Drained(r, op, probe) : op' = d.op /\ probe' = d.probe
    /\ runs' = IF op' = None \/ op'.run # r \/ (op'.stopped # None /\ op'.active = 0)
                 THEN [runs EXCEPT ![r].state = IF @ = "cancelling" THEN "cancelled" ELSE "failed"]
                 ELSE runs
    /\ UNCHANGED <<now, owner, said, sent, told>>

Assessed(o) == {i \in 1 .. Len(o.entries) : o.entries[i].kind = "assessment"}

(* An operator assesses the operation at the revision read, and recovery   *)
(* is closed: resolve_effect_once and close_for_assessment.                *)
Assess(o, verdict) ==
    LET entry == [kind |-> "assessment", gen |-> 0, how |-> "none",
                  report |-> [kind |-> verdict.kind, value |-> verdict.value, ref |-> 0]]
        q == [o EXCEPT !.resolution = Len(o.entries) + 1, !.conflict = 0, !.handling = "operator_closed",
                       !.stopped = "operator_assessment", !.due = None]
    IN [RefreshCandidate(q, Revision(o) + 1) EXCEPT !.entries = Append(o.entries, entry)]

Resolve(verdict) ==
    /\ op # None /\ Cardinality(Assessed(op)) < MaxAssessments
    /\ op' = Assess(op, verdict)
    /\ probe' = CancelActive(probe)
    /\ runs' = Notify(runs, op')
    /\ UNCHANGED <<now, owner, said, sent, told>>

Sources == 0 .. MaxChecks

Next ==
    \/ \E r \in Runs : \/ \E d \in BOOLEAN : Claim(r, d)
                       \/ LoseAttempt(r) \/ Reattempt(r)
                       \/ Decide(r) \/ Complete(r) \/ ApplyWait(r) \/ Drain(r)
                       \/ \E s \in Ends : EndRun(r, s)
                       \/ \E k \in Keys, after \in {0, told[r].revision} : Park(r, k, after)
    \/ \E g \in Sources, rep \in Reports, how \in {"live", "observed"} : ReportProvider(g, rep, how)
    \/ \E v \in Assessments : Resolve(v)
    \/ Tick \/ Advance \/ LeaseProbe \/ StartProbe \/ ProbeContext \/ FinalizeProbe
    \/ \E s \in {"completed", "lost", "cancelled"} : EndProbe(s, None)
    \/ \E f \in Settlements : EndProbe("failed", f)

Spec == Init /\ [][Next]_vars

(* Orchestrators scan what is due and apply work rows, the clock runs, and *)
(* a leased task ends at the latest with its lease.                        *)
Fairness ==
    /\ WF_vars(Tick) /\ WF_vars(Advance) /\ WF_vars(FinalizeProbe)
    /\ WF_vars(\/ \E s \in {"completed", "lost", "cancelled"} : EndProbe(s, None)
               \/ \E f \in Settlements : EndProbe("failed", f))
    /\ \A r \in Runs : WF_vars(ApplyWait(r)) /\ WF_vars(Complete(r)) /\ WF_vars(Drain(r))

FairSpec == Spec /\ Fairness

(***************************************************************************)
(* Properties.                                                             *)
(***************************************************************************)

(* Whatever runs claim the same business identity, and whatever answers    *)
(* are lost and claims repeated, the provider is called at most once.      *)
OneDispatch == sent <= 1

ReportEntries(o)  == {i \in 1 .. Len(o.entries) : o.entries[i].kind = "report"}
FirstOf(o, S, Fact(_)) ==
    {i \in S : \A j \in S : Fact(o.entries[j].report) = Fact(o.entries[i].report) => i <= j}
TerminalFirsts(o)  == FirstOf(o, {i \in ReportEntries(o) : o.entries[i].report.kind \in Terminal}, TerminalFact)
ReferenceFirsts(o) == FirstOf(o, {i \in ReportEntries(o) : o.entries[i].report.ref # 0}, ReferenceOf)
Pairs(o, S) == {<<a, b>> \in S \X S : a < b}

(* What the reports in the order of their arrival say: a dispute as soon   *)
(* as two of them state different outcomes or references, shown by the     *)
(* earliest such pair; else the earliest of the most informative ones.     *)
(* The incremental summary of aggregate never drifts from it, and the      *)
(* conflict of an assessment is the first report with a new fact that      *)
(* contradicts it.                                                         *)
SummaryFollows ==
    op # None =>
    LET pairs == Pairs(op, TerminalFirsts(op)) \cup Pairs(op, ReferenceFirsts(op))
        best  == {i \in ReportEntries(op) :
                    \A j \in ReportEntries(op) : Rank(op.entries[j].report.kind) <= Rank(op.entries[i].report.kind)}
        contradicts(i) ==
            /\ i > op.resolution
            /\ \/ i \in TerminalFirsts(op)
               \/ i \in ReferenceFirsts(op) /\ \E j \in ReferenceFirsts(op) : j < i
            /\ ~Compatible(Verdict(op), op.entries[i].report,
                           i \in ReferenceFirsts(op) /\ \E j \in ReferenceFirsts(op) : j < i)
        conflicts == {i \in ReportEntries(op) : contradicts(i)}
    IN /\ (op.knowledge = "disputed") = (pairs # {})
       /\ pairs # {} => /\ op.conflicts \in pairs /\ op.selected = 0
                        /\ \A q \in pairs : \/ op.conflicts[2] < q[2]
                                            \/ (op.conflicts[2] = q[2] /\ op.conflicts[1] <= q[1])
       /\ pairs = {} => /\ op.conflicts = <<>>
                        /\ op.selected = IF best = {} THEN 0 ELSE Min(best)
                        /\ op.knowledge = IF best = {} THEN "unknown" ELSE op.entries[Min(best)].report.kind
       /\ op.resolution = (IF Assessed(op) = {} THEN 0 ELSE Max(Assessed(op)))
       /\ op.resolution # 0 => op.conflict = IF conflicts = {} THEN 0 ELSE Min(conflicts)

Entries(o, kind) == {i \in 1 .. Len(o.entries) : o.entries[i].kind = kind}

(* Recovery is finite and never overlaps itself: checks are counted as     *)
(* they are allocated, at most one probe is unfinished, each is finished   *)
(* once, and none is allocated once an outcome, a stop or an assessment is *)
(* on record.                                                              *)
ProbesBounded ==
    op # None =>
    LET scheduled == Entries(op, "scheduled")
        finished  == Entries(op, "finished")
        ending    == Entries(op, "stopped") \cup Entries(op, "assessment")
                     \cup {i \in ReportEntries(op) : op.entries[i].report.kind \in Terminal \cup {"requires_action"}}
    IN /\ op.checks = Cardinality(scheduled) /\ op.gen = op.checks /\ op.checks <= MaxChecks
       /\ Cardinality(scheduled) - Cardinality(finished) = IF op.active = 0 THEN 0 ELSE 1
       /\ (op.active = 0) = (probe = NoProbe)
       /\ \A g \in 1 .. op.gen :
             Cardinality({i \in scheduled : op.entries[i].gen = g}) = 1
             /\ Cardinality({i \in finished : op.entries[i].gen = g}) = IF g = op.active THEN 0 ELSE 1
       /\ \A i \in ending, j \in scheduled : j < i

(* The summary always passes the validation that save and every reader     *)
(* apply to it: ProviderReconciliationSummary::validate and                *)
(* ProviderEffectSummary::validate.                                        *)
ValidReconciliation(o) ==
    /\ o.due # None => o.due <= Deadline
    /\ o.checks <= MaxChecks /\ o.gen = o.checks
    /\ o.active # 0 => o.gen # 0
    /\ o.stopped # None => o.due = None
ValidSummary(o) ==
    /\ o.selected <= Len(o.entries) /\ o.candidate_revision <= Revision(o)
    /\ IF o.knowledge = "disputed"
         THEN Len(o.conflicts) = 2 /\ o.selected = 0 /\ o.conflicts[1] < o.conflicts[2]
         ELSE /\ o.conflicts = <<>>
              /\ o.selected # 0 => o.entries[o.selected].report.kind = o.knowledge
              /\ o.selected = 0 => o.knowledge = "unknown"
    /\ o.handling = "provider_terminal" => o.knowledge \in Terminal \cup {"disputed"}
    /\ o.handling = "unresolved" => o.knowledge \notin Terminal
    /\ (o.candidate = NoCandidate) = (o.candidate_revision = 0)
Readable == op # None => ValidReconciliation(op) /\ ValidSummary(op)

(* A run that waits for something it has not seen and that is there has a  *)
(* row a coordinator will apply, whichever of the wait, the report, the    *)
(* stop and the assessment came first.                                     *)
WakeIsOwed ==
    \A r \in Runs : runs[r].state = "waiting" /\ Eligible(runs[r].wait, op) => runs[r].row

(* A recovery that is over leaves something to tell: a run that waits for  *)
(* anything at all cannot be left without a candidate.                     *)
StopTells == op # None /\ op.stopped # None => op.candidate # NoCandidate

(* ProviderSelection::validate, at the revision of the wake.               *)
ValidSelection(o) ==
    LET c == o.candidate
    IN CASE c.kind = "provider"   -> c.entry \in ReportEntries(o) /\ o.entries[c.entry].report.kind \in Terminal
         [] c.kind = "assessment" -> /\ c.entry \in Entries(o, "assessment")
                                     /\ c.conflict # 0 => /\ o.entries[c.entry].report.kind # "unknown"
                                                          /\ c.conflict > c.entry /\ c.conflict < Revision(o)
         [] c.kind = "disputed"   -> c.entry \in 1 .. Revision(o) - 1
         [] OTHER -> /\ c.reason \in {"action_required", "lookup_unavailable", "budget_exhausted",
                                      "deadline", "recovery_failed"}
                     /\ c.reason = "deadline" => now >= Deadline

(* What a run that is not ending may be told passes the validation of the  *)
(* wake, which would otherwise refuse to resume it for ever.               *)
WakesAreValid ==
    op # None /\ op.candidate # NoCandidate /\ runs[op.run].state \in LiveStates => ValidSelection(op)

(* A run that asked for news after a revision it has seen is resumed with  *)
(* something else than what it was told then.                              *)
NewsStep ==
    \A r \in Runs :
        told'[r] # told[r] /\ told'[r].after # 0 /\ told'[r].after = told[r].revision
          => told'[r].candidate # told[r].candidate
WakeTellsNews == [][NewsStep]_vars

(* A run that is over has no recovery behind it: no probe is active and    *)
(* none will be scheduled.                                                 *)
OverMeansQuiet ==
    \A r \in Runs : runs[r].state \in {"completed", "cancelled", "failed"} /\ op # None /\ op.run = r =>
        op.active = 0 /\ op.due = None /\ probe = NoProbe

(* Every source speaks once, and what a probe reported live was reported   *)
(* between its allocation and its end, before anything ended recovery.     *)
EvidenceInOrder ==
    op # None =>
    /\ \A i, j \in ReportEntries(op) : op.entries[i].gen = op.entries[j].gen => i = j
    /\ \A i \in ReportEntries(op) : op.entries[i].how = "probe" =>
         /\ \A j \in Entries(op, "finished") : op.entries[j].gen = op.entries[i].gen => i < j
         /\ \A j \in Entries(op, "stopped") \cup Entries(op, "assessment") : i < j

(* needs_review: the review inbox lists the operation.                     *)
NeedsReview(o) ==
    \/ o.conflict # 0
    \/ o.handling # "operator_closed" /\ o.knowledge = "disputed"
    \/ /\ o.handling = "unresolved"
       /\ o.stopped \in {"action_required", "lookup_unavailable", "budget_exhausted", "deadline", "recovery_failed"}

(* ProviderInboxFilter::matches.                                           *)
Filters == {"pending", "needs_review", "succeeded", "failed", "cancelled", "disputed"}
InFilter(o, f) ==
    CASE f = "pending"      -> /\ o.knowledge \in {"unknown", "pending"} /\ o.handling = "unresolved"
                               /\ o.stopped = None /\ ~NeedsReview(o)
      [] f = "needs_review" -> NeedsReview(o)
      [] f = "disputed"     -> o.knowledge = "disputed" \/ o.conflict # 0
      [] OTHER              -> o.knowledge = f

(* An operation never falls out of every inbox: it is pending, has one     *)
(* outcome, or waits for review, and a dispute waits for review until an   *)
(* operator closes it. Only an operator's assessment, or the end of its    *)
(* run, takes an operation without an outcome off the lists.               *)
NobodyForgets ==
    op # None /\ op.resolution = 0 /\ op.stopped \notin {"workflow_cancelled", "workflow_failed"} =>
        /\ \E f \in Filters \ {"disputed"} : InFilter(op, f)
        /\ op.stopped # None => ~InFilter(op, "pending")

(* One dispatch, and the summary, the recovery, the wakes and the inboxes  *)
(* follow from what was reported, probed and assessed.                     *)
OperationSound ==
    /\ TypeOK /\ OneDispatch /\ SummaryFollows /\ ProbesBounded /\ Readable
    /\ WakeIsOwed /\ StopTells /\ WakesAreValid /\ OverMeansQuiet
    /\ EvidenceInOrder /\ NobodyForgets

(* Recovery ends, so a run that waits for the outcome goes on, and a run   *)
(* that decided to complete or is cancelled is over one day.               *)
RecoveryEnds == op # None ~> op # None /\ op.stopped # None /\ op.active = 0
WaitersResume ==
    \A r \in Runs : runs[r].state = "waiting" /\ runs[r].wait.after = 0 ~> runs[r].state # "waiting"
RunsEnd ==
    \A r \in Runs : runs[r].state \in {"completing", "cancelling", "failing"} ~>
                    runs[r].state \in {"completed", "cancelled", "failed"}
=============================================================================
