----------------------- MODULE ApprovedEffectProofs ------------------------
(***************************************************************************)
(* Proofs about ApprovedEffect, for any attempts, workers, claims, reports *)
(* and assessments.                                                        *)
(***************************************************************************)
EXTENDS ApprovedEffect, SequenceTheorems, FiniteSetTheorems, TLAPS

-----------------------------------------------------------------------------
(* A permission to dispatch is used up by the dispatch and exists only for *)
(* the claim that made the grant.                                          *)
OneGrant ==
    /\ sent \in {0, 1}
    /\ ~appr.claimed => sent = 0 /\ \A a \in Attempts : \A h \in held[a] : h.mode = "lookup"
    /\ \A a \in Attempts : \A h \in held[a] : h.mode = "dispatch" => sent = 0
    /\ \A a, b \in Attempts : \A h \in held[a], g \in held[b] :
         h.mode = "dispatch" /\ g.mode = "dispatch" => a = b /\ h = g
    /\ \A a \in Attempts : \A h \in held[a] :
         h.mode # "lookup" => appr.evidence # "none" \/ run.state = "Gone"

(* The approval, the journal and the retained copy tell the same story.    *)
Bound ==
    /\ appr.lookup # None \/ appr.evidence # "none" \/ eff # None => appr.claimed
    /\ appr.lookup # None => appr.evidence # "none"
    /\ Confirmed(appr) = (journal # None /\ journal.kind = "effect")
    /\ journal # None /\ journal.kind = "local" => appr.evidence = "none"
    /\ Confirmed(appr) => appr.lookup # None /\ eff # None /\ eff.journal = journal.output
    /\ eff # None /\ eff.journal # None => Confirmed(appr) \/ run.state = "Gone"
    /\ appr.evidence = "none" => eff = None \/ run.state = "Gone"
    /\ run.state = "Gone" => journal = None /\ appr.evidence = "none" /\ appr.lookup = None
    /\ HeldUntilKnown

(* What the retained evidence e is made of.                                *)
Shaped(es) ==
    \A i \in 1 .. Len(es) :
        /\ es[i].kind = "claim" =>
             /\ es[i].id \in ClaimIds /\ es[i].attempt \in Attempts /\ es[i].worker \in Workers
             /\ es[i].op = "claim"
        /\ es[i].kind = "observation" =>
             /\ es[i].output \in Outputs
             /\ es[i].op = "legacy_confirm" => es[i].id = None /\ es[i].attempt \in Attempts
             /\ es[i].op # "legacy_confirm" =>
                  es[i].id \in ObservationIds /\ es[i].claim \in ClaimIds /\ es[i].worker \in Workers
        /\ es[i].kind = "assessment" =>
             /\ es[i].id \in ResolutionIds /\ es[i].output \in Verdicts /\ es[i].op = "resolve"
             /\ es[i].basis = i /\ es[i].after # es[i].id

Distinct(es) ==
    \A i, j \in 1 .. Len(es) : es[i].kind = es[j].kind /\ es[i].id = es[j].id => i = j

IsLeast(m, S)    == m \in S /\ \A j \in S : m <= j
IsGreatest(m, S) == m \in S /\ \A j \in S : j <= m

(* Reports later than assessment g that contradict the success it records. *)
Contradicting(es, g) ==
    {i \in OfKind(es, "observation") : i > g /\ es[g].output \in Outputs /\ es[i].output # es[g].output}

(* The reference and the discrepancy are those of the reports.             *)
ReportsBooked(e) ==
    LET es == e.entries  obs == OfKind(es, "observation")
    IN /\ \/ obs = {} /\ e.reference = None
          \/ \E m \in obs : IsLeast(m, obs) /\ e.reference = es[m].output
       /\ e.discrepancy = \E i, j \in obs : es[i].output # es[j].output

(* The assessment in force is the last one, with its first contradiction.  *)
AssessmentBooked(e) ==
    LET es == e.entries  ass == OfKind(es, "assessment")
    IN \/ ass = {} /\ e.resolution = None /\ e.result = None /\ e.conflict = 0
       \/ \E g \in ass :
            /\ IsGreatest(g, ass) /\ e.resolution = es[g].id
            /\ e.result = IF es[g].output \in Outputs THEN es[g].output ELSE None
            /\ \/ Contradicting(es, g) = {} /\ e.conflict = 0
               \/ IsLeast(e.conflict, Contradicting(es, g))

(* Every assessment supersedes the one before it.                          *)
Earlier(es, i) == {j \in OfKind(es, "assessment") : j < i}

Superseding(es) ==
    \A i \in OfKind(es, "assessment") :
        \/ Earlier(es, i) = {} /\ es[i].after = None
        \/ \E g \in Earlier(es, i) : IsGreatest(g, Earlier(es, i)) /\ es[i].after = es[g].id

(* Every report but a mirrored one names a claim of its worker.            *)
Named(es) ==
    \A i \in OfKind(es, "observation") : es[i].op # "legacy_confirm" =>
        \E j \in OfKind(es, "claim") :
            /\ j < i /\ es[j].id = es[i].claim /\ es[j].worker = es[i].worker
            /\ es[i].mode = "dispatch" => es[j].mode = "dispatch"

Booked(e) ==
    /\ e.revision = Len(e.entries) + 1
    /\ Shaped(e.entries) /\ Distinct(e.entries)
    /\ ReportsBooked(e) /\ AssessmentBooked(e) /\ Superseding(e.entries) /\ Named(e.entries)
    /\ \A i \in 1 .. Len(e.entries) :
         e.entries[i].op \in {"confirm", "legacy_confirm"} => e.entries[i].output = e.journal

(* A dispatch is called verified when a recorded claim was granted it.     *)
Provenance(e) ==
    (e.provenance = "verified") = \E i \in OfKind(e.entries, "claim") : e.entries[i].mode = "dispatch"

(* Where a run is that waits, is parked, or is gone.                       *)
Parked ==
    /\ run.state \in {"Waiting", "Gone"} => run.lease = "over"
    /\ (run.wait # None) = (run.state = "Waiting")
    /\ run.state = "Waiting" =>
         eff # None /\ run.wait.parking = run.activation /\ run.activation < MaxActivation
    /\ WakeIsOwed

(* What was acknowledged, and what activations were told.                  *)
AckHolds(k) ==
    /\ k.kind \in {"confirm", "local", "observe", "resolve"}
    /\ k.kind = "confirm" => k.value \in Outputs /\ eff # None /\ eff.journal = k.value
    /\ k.kind = "local" =>
         run.state = "Gone" \/ (journal # None /\ journal.kind = "local" /\ journal.output = k.value)
    /\ k.kind = "observe" => eff # None /\ \E i \in Entry("observation", k.id) : eff.entries[i].output = k.value
    /\ k.kind = "resolve" =>
         eff # None /\ \E i \in Entry("assessment", k.id) :
                          eff.entries[i].output = k.value.verdict /\ eff.entries[i].worker = k.value.actor

Acknowledged == \A k \in acked : AckHolds(k)

Told ==
    /\ \A p \in Activations : wakes[p] # None => eff # None /\ wakes[p].revision \in 1 .. Len(eff.entries) + 1
    /\ WakeTellsEvidence

Asked == \A c \in calls : (c.version = 1) = (c.id = None)

EInv ==
    /\ TypeOK /\ Asked /\ OneGrant /\ Bound /\ (eff # None => Booked(eff) /\ Provenance(eff))
    /\ Parked /\ Acknowledged /\ Told

-----------------------------------------------------------------------------
(* One entry more: the others stay where they are.                         *)
LEMMA Appended ==
    ASSUME NEW es \in Seq(EvidenceEntry), NEW x \in EvidenceEntry
    PROVE  /\ Append(es, x) \in Seq(EvidenceEntry) /\ Len(es) \in Nat
           /\ Len(Append(es, x)) = Len(es) + 1
           /\ \A i \in 1 .. Len(es) : Append(es, x)[i] = es[i] /\ es[i] \in EvidenceEntry
           /\ Append(es, x)[Len(es) + 1] = x
           /\ \A k : OfKind(Append(es, x), k)
                       = IF x.kind = k THEN OfKind(es, k) \cup {Len(es) + 1} ELSE OfKind(es, k)
           /\ \A k : OfKind(es, k) \subseteq 1 .. Len(es)
<1>1. /\ Append(es, x) \in Seq(EvidenceEntry) /\ Len(es) \in Nat
      /\ Len(Append(es, x)) = Len(es) + 1
      /\ \A i \in 1 .. Len(es) : Append(es, x)[i] = es[i] /\ es[i] \in EvidenceEntry
      /\ Append(es, x)[Len(es) + 1] = x
  OBVIOUS
<1>2. ASSUME NEW k
      PROVE  OfKind(Append(es, x), k)
               = IF x.kind = k THEN OfKind(es, k) \cup {Len(es) + 1} ELSE OfKind(es, k)
  BY <1>1 DEF OfKind
<1> QED BY <1>1, <1>2 DEF OfKind

(* What an entry appended does to the entries of its kind.                *)
LEMMA KindAppended ==
    ASSUME NEW es \in Seq(EvidenceEntry), NEW x \in EvidenceEntry, NEW fs, fs = Append(es, x)
    PROVE  /\ Len(fs) = Len(es) + 1
           /\ \A i \in 1 .. Len(es) : fs[i] = es[i] /\ es[i] \in EvidenceEntry
           /\ fs[Len(es) + 1] = x
           /\ OfKind(fs, x.kind) = OfKind(es, x.kind) \cup {Len(es) + 1}
           /\ \A k : OfKind(es, k) \subseteq 1 .. Len(es)
BY Appended

(* A new copy has no entries.                                              *)
LEMMA BookedNew ==
    ASSUME NEW p \in {"verified", "attempt", "fence"}, NEW l \in Lookups \cup {None}
    PROVE  /\ NewEffect(p, l) \in Retained /\ Booked(NewEffect(p, l))
           /\ p # "verified" => Provenance(NewEffect(p, l))
<1> DEFINE e == NewEffect(p, l)
<1>1. e \in Retained /\ e.entries = <<>> /\ e.revision = 1 /\ e.reference = None /\ e.discrepancy = FALSE
      /\ e.resolution = None /\ e.result = None /\ e.conflict = 0 /\ e.provenance = p
  BY DEF NewEffect, Retained
<1>2. Len(e.entries) = 0 /\ \A k : OfKind(e.entries, k) = {}
  BY <1>1 DEF OfKind
<1> HIDE DEF e
<1>3. ReportsBooked(e)
  BY <1>1, <1>2 DEF ReportsBooked
<1>4. AssessmentBooked(e) /\ Superseding(e.entries) /\ Named(e.entries)
  BY <1>1, <1>2 DEF AssessmentBooked, Superseding, Named
<1>5. Shaped(e.entries) /\ Distinct(e.entries)
  BY <1>2 DEF Shaped, Distinct
<1>6. Booked(e)
  BY <1>1, <1>2, <1>3, <1>4, <1>5 DEF Booked
<1> QED BY <1>1, <1>2, <1>6 DEF e, Provenance

(* The lookup a copy is kept under is no part of its books.                *)
LEMMA BookedLookup ==
    ASSUME NEW e \in Retained, Booked(e), NEW l \in Lookups \cup {None}
    PROVE  LET f == [e EXCEPT !.lookup = l]
           IN f \in Retained /\ Booked(f) /\ (Provenance(e) => Provenance(f))
<1> DEFINE f == [e EXCEPT !.lookup = l]
<1>1. /\ f \in Retained /\ f.entries = e.entries /\ f.revision = e.revision /\ f.reference = e.reference
      /\ f.discrepancy = e.discrepancy /\ f.resolution = e.resolution /\ f.result = e.result
      /\ f.conflict = e.conflict /\ f.provenance = e.provenance /\ f.journal = e.journal
  BY DEF Retained
<1> HIDE DEF f
<1>2. Booked(f)
  BY <1>1 DEF Booked, ReportsBooked, AssessmentBooked
<1> QED BY <1>1, <1>2 DEF f, Provenance


-----------------------------------------------------------------------------
(* append and next write the entries and the revision.                     *)
LEMMA Append1Fields ==
    ASSUME NEW e \in Retained, NEW x \in EvidenceEntry
    PROVE  LET f == Append1(e, x)
           IN /\ f \in Retained /\ f.entries = Append(e.entries, x) /\ f.revision = e.revision + 1
              /\ f.reference = e.reference /\ f.discrepancy = e.discrepancy
              /\ f.resolution = e.resolution /\ f.result = e.result /\ f.conflict = e.conflict
              /\ f.provenance = e.provenance /\ f.journal = e.journal
<1>1. e.entries \in Seq(EvidenceEntry) /\ e.revision + 1 \in Nat
  BY DEF Retained
<1>0. Append(e.entries, x) \in Seq(EvidenceEntry)
  BY <1>1, Appended
<1>2. ASSUME NEW s \in Seq(EvidenceEntry), NEW r \in Nat
      PROVE  [e EXCEPT !.revision = r, !.entries = s] \in Retained
  BY DEF Retained
<1>3. [e EXCEPT !.revision = e.revision + 1, !.entries = Append(e.entries, x)] \in Retained
  BY <1>0, <1>1, <1>2
<1>4. Append1(e, x) = [e EXCEPT !.revision = e.revision + 1, !.entries = Append(e.entries, x)]
  BY DEF Append1, Retained
<1>5. Append1(e, x) \in Retained
  BY <1>3, <1>4
<1> QED BY <1>5 DEF Append1, Retained

(* report writes the reference, the discrepancy and the conflict.          *)
LEMMA ReportFields ==
    ASSUME NEW e \in Retained, NEW j \in Outputs \cup {None}, NEW o \in Outputs
    PROVE  LET f == Report([e EXCEPT !.journal = j], o)
           IN /\ f \in Retained /\ f.entries = e.entries /\ f.revision = e.revision
              /\ f.reference = (IF e.reference = None THEN o ELSE e.reference)
              /\ f.discrepancy = (e.discrepancy \/ (e.reference # None /\ e.reference # o))
              /\ f.resolution = e.resolution /\ f.result = e.result
              /\ f.conflict = (IF e.resolution # None /\ e.conflict = 0 /\ e.result # None /\ e.result # o
                                 THEN Len(e.entries) + 1 ELSE e.conflict)
              /\ f.provenance = e.provenance /\ f.journal = j
<1> DEFINE d == [e EXCEPT !.journal = j]
           c == IF e.resolution # None /\ e.conflict = 0 /\ e.result # None /\ e.result # o
                  THEN Len(e.entries) + 1 ELSE e.conflict
           y == (e.discrepancy \/ (e.reference # None /\ e.reference # o))
           r == IF e.reference = None THEN o ELSE e.reference
<1>1. /\ d \in Retained /\ d.entries = e.entries /\ d.revision = e.revision /\ d.reference = e.reference
      /\ d.discrepancy = e.discrepancy /\ d.resolution = e.resolution /\ d.result = e.result
      /\ d.conflict = e.conflict /\ d.provenance = e.provenance /\ d.journal = j
  BY DEF Retained
<1> HIDE DEF d
<1>2. e.entries \in Seq(EvidenceEntry) /\ Len(e.entries) \in Nat /\ c \in Nat /\ y \in BOOLEAN
      /\ r \in Outputs \cup {None}
  BY DEF Retained
<1>3. Report(d, o) = [d EXCEPT !.conflict = c, !.discrepancy = y, !.reference = r]
  BY <1>1 DEF Report, Retained
<1> HIDE DEF c, y, r
<1>4. [d EXCEPT !.conflict = c, !.discrepancy = y, !.reference = r] \in Retained
  BY <1>1, <1>2 DEF Retained
<1>5. LET f == [d EXCEPT !.conflict = c, !.discrepancy = y, !.reference = r]
      IN /\ f.entries = e.entries /\ f.revision = e.revision /\ f.reference = r /\ f.discrepancy = y
         /\ f.resolution = e.resolution /\ f.result = e.result /\ f.conflict = c
         /\ f.provenance = e.provenance /\ f.journal = j
  BY <1>1 DEF Retained
<1> QED BY <1>3, <1>4, <1>5 DEF c, d, r, y

-----------------------------------------------------------------------------
(* A claim appended to the books.                                          *)
LEMMA BookedClaim ==
    ASSUME NEW e \in Retained, Booked(e), NEW x \in EvidenceEntry,
           x.kind = "claim", x.op = "claim", x.id \in ClaimIds, x.attempt \in Attempts, x.worker \in Workers,
           \A i \in OfKind(e.entries, "claim") : e.entries[i].id # x.id
    PROVE  LET f == Append1(e, x) IN f \in Retained /\ Booked(f)
<1> DEFINE f == Append1(e, x)  es == e.entries  fs == f.entries  n == Len(e.entries)
<1>0. es \in Seq(EvidenceEntry) /\ n \in Nat /\ Append(es, x) \in Seq(EvidenceEntry)
  BY Appended DEF Retained
<1>1. /\ f \in Retained /\ fs = Append(es, x) /\ f.revision = e.revision + 1 /\ f.reference = e.reference
      /\ f.discrepancy = e.discrepancy /\ f.resolution = e.resolution /\ f.result = e.result
      /\ f.conflict = e.conflict /\ f.provenance = e.provenance /\ f.journal = e.journal
  BY Append1Fields
<1>2. /\ es \in Seq(EvidenceEntry) /\ n \in Nat /\ Len(fs) = n + 1
      /\ \A i \in 1 .. n : fs[i] = es[i] /\ es[i] \in EvidenceEntry
      /\ fs[n + 1] = x
      /\ OfKind(fs, "claim") = OfKind(es, "claim") \cup {n + 1}
      /\ OfKind(fs, "observation") = OfKind(es, "observation")
      /\ OfKind(fs, "assessment") = OfKind(es, "assessment")
      /\ \A k : OfKind(es, k) \subseteq 1 .. n
  <2> HIDE DEF f, fs, es
  <2>1. /\ Len(fs) = Len(es) + 1
        /\ \A i \in 1 .. Len(es) : fs[i] = es[i] /\ es[i] \in EvidenceEntry
        /\ fs[Len(es) + 1] = x
        /\ OfKind(fs, x.kind) = OfKind(es, x.kind) \cup {Len(es) + 1}
        /\ \A k : k # x.kind => OfKind(fs, k) = OfKind(es, k)
        /\ \A k : OfKind(es, k) \subseteq 1 .. Len(es)
    <3>1. es \in Seq(EvidenceEntry) /\ fs = Append(es, x)
      BY <1>0, <1>1
    <3>2. Len(fs) = Len(es) + 1 /\ Len(es) \in Nat
      BY <3>1, KindAppended
    <3>3. OfKind(fs, x.kind) = OfKind(es, x.kind) \cup {Len(es) + 1}
      BY <3>1, KindAppended
    <3>4. fs[Len(es) + 1] = x /\ \A i \in 1 .. Len(es) : fs[i] = es[i] /\ es[i] \in EvidenceEntry
      BY <3>1, KindAppended
    <3>5. \A k : k # x.kind => OfKind(fs, k) = OfKind(es, k)
      BY <3>2, <3>4 DEF OfKind
    <3>6. \A k : OfKind(es, k) \subseteq 1 .. Len(es)
      BY <3>1, KindAppended
    <3> QED BY <3>2, <3>3, <3>4, <3>5, <3>6
  <2>2. n = Len(es)
    BY DEF es
  <2> HIDE DEF n
  <2> QED BY <1>0, <2>1, <2>2
<1> HIDE DEF f, fs
<1>3. Shaped(fs)
  BY SMTT(30), <1>2 DEF Booked, Shaped
<1>4. Distinct(fs)
  BY SMTT(30), <1>2 DEF Booked, Distinct, OfKind
<1>5. ReportsBooked(f)
  BY <1>1, <1>2 DEF Booked, ReportsBooked, fs
<1>6. AssessmentBooked(f)
  <2>1. \A g \in OfKind(es, "assessment") : fs[g] = es[g] /\ Contradicting(fs, g) = Contradicting(es, g)
    BY <1>2 DEF Contradicting
  <2> QED BY <1>1, <1>2, <2>1 DEF Booked, AssessmentBooked, fs
<1>7. Superseding(fs)
  <2>0. \A g \in OfKind(es, "assessment") : fs[g] = es[g]
    BY <1>2
  <2>1. \A i : Earlier(fs, i) = Earlier(es, i) /\ Earlier(es, i) \subseteq OfKind(es, "assessment")
    BY <1>2 DEF Earlier
  <2> QED BY <1>2, <2>0, <2>1 DEF Booked, Superseding
<1>8. Named(fs)
  BY SMTT(30), <1>2 DEF Booked, Named
<1>9. \A i \in 1 .. Len(fs) : fs[i].op \in {"confirm", "legacy_confirm"} => fs[i].output = f.journal
  BY <1>1, <1>2 DEF Booked
<1> QED BY <1>1, <1>2, <1>3, <1>4, <1>5, <1>6, <1>7, <1>8, <1>9 DEF Booked, f, fs

(* A report appended to the books, whose journal may be set with it.       *)
LEMMA BookedReport ==
    ASSUME NEW e \in Retained, Booked(e), NEW x \in EvidenceEntry, NEW j \in Outputs \cup {None},
           x.kind = "observation", x.output \in Outputs,
           x.op = "legacy_confirm" => x.id = None /\ x.attempt \in Attempts,
           x.op # "legacy_confirm" =>
             /\ x.id \in ObservationIds /\ x.claim \in ClaimIds /\ x.worker \in Workers
             /\ \E i \in OfKind(e.entries, "claim") :
                  /\ e.entries[i].id = x.claim /\ e.entries[i].worker = x.worker
                  /\ x.mode = "dispatch" => e.entries[i].mode = "dispatch",
           \A i \in OfKind(e.entries, "observation") : e.entries[i].id # x.id,
           \A i \in 1 .. Len(e.entries) :
             e.entries[i].op \in {"confirm", "legacy_confirm"} => e.entries[i].output = j,
           x.op \in {"confirm", "legacy_confirm"} => x.output = j
    PROVE  LET f == Append1(Report([e EXCEPT !.journal = j], x.output), x)
           IN f \in Retained /\ Booked(f) /\ f.resolution = e.resolution /\ f.journal = j
              /\ f.entries = Append(e.entries, x) /\ f.provenance = e.provenance
<1> DEFINE f == Append1(Report([e EXCEPT !.journal = j], x.output), x)
           es == e.entries  fs == f.entries  n == Len(e.entries)  o == x.output
<1>0. es \in Seq(EvidenceEntry) /\ n \in Nat /\ Append(es, x) \in Seq(EvidenceEntry)
  BY Appended DEF Retained
<1>1. /\ fs = Append(es, x) /\ f.revision = e.revision + 1
      /\ f.reference = (IF e.reference = None THEN o ELSE e.reference)
      /\ f.discrepancy = (e.discrepancy \/ (e.reference # None /\ e.reference # o))
      /\ f.resolution = e.resolution /\ f.result = e.result
      /\ f.conflict = (IF e.resolution # None /\ e.conflict = 0 /\ e.result # None /\ e.result # o
                         THEN n + 1 ELSE e.conflict)
      /\ f.provenance = e.provenance /\ f.journal = j
      /\ f \in Retained
  <2> DEFINE d == Report([e EXCEPT !.journal = j], o)
  <2>1. /\ d \in Retained /\ d.entries = es /\ d.revision = e.revision
        /\ d.reference = (IF e.reference = None THEN o ELSE e.reference)
        /\ d.discrepancy = (e.discrepancy \/ (e.reference # None /\ e.reference # o))
        /\ d.resolution = e.resolution /\ d.result = e.result
        /\ d.conflict = (IF e.resolution # None /\ e.conflict = 0 /\ e.result # None /\ e.result # o
                           THEN n + 1 ELSE e.conflict)
        /\ d.provenance = e.provenance /\ d.journal = j
    BY ReportFields
  <2> HIDE DEF d
  <2>2. LET h == Append1(d, x)
        IN /\ h \in Retained /\ h.entries = Append(d.entries, x) /\ h.revision = d.revision + 1
           /\ h.reference = d.reference /\ h.discrepancy = d.discrepancy
           /\ h.resolution = d.resolution /\ h.result = d.result /\ h.conflict = d.conflict
           /\ h.provenance = d.provenance /\ h.journal = d.journal
    BY <2>1, Append1Fields
  <2>3. f = Append1(d, x)
    BY DEF d
  <2> HIDE DEF f
  <2> QED BY <2>1, <2>2, <2>3
<1>3. /\ Len(fs) = n + 1
      /\ \A i \in 1 .. n : fs[i] = es[i] /\ es[i] \in EvidenceEntry
      /\ fs[n + 1] = x
      /\ OfKind(fs, "claim") = OfKind(es, "claim")
      /\ OfKind(fs, "observation") = OfKind(es, "observation") \cup {n + 1}
      /\ OfKind(fs, "assessment") = OfKind(es, "assessment")
      /\ \A k : OfKind(es, k) \subseteq 1 .. n
  <2> HIDE DEF f, fs, es
  <2>1. /\ Len(fs) = Len(es) + 1
        /\ \A i \in 1 .. Len(es) : fs[i] = es[i] /\ es[i] \in EvidenceEntry
        /\ fs[Len(es) + 1] = x
        /\ OfKind(fs, x.kind) = OfKind(es, x.kind) \cup {Len(es) + 1}
        /\ \A k : k # x.kind => OfKind(fs, k) = OfKind(es, k)
        /\ \A k : OfKind(es, k) \subseteq 1 .. Len(es)
    <3>1. es \in Seq(EvidenceEntry) /\ fs = Append(es, x)
      BY <1>0, <1>1
    <3>2. Len(fs) = Len(es) + 1 /\ Len(es) \in Nat
      BY <3>1, KindAppended
    <3>3. OfKind(fs, x.kind) = OfKind(es, x.kind) \cup {Len(es) + 1}
      BY <3>1, KindAppended
    <3>4. fs[Len(es) + 1] = x /\ \A i \in 1 .. Len(es) : fs[i] = es[i] /\ es[i] \in EvidenceEntry
      BY <3>1, KindAppended
    <3>5. \A k : k # x.kind => OfKind(fs, k) = OfKind(es, k)
      BY <3>2, <3>4 DEF OfKind
    <3>6. \A k : OfKind(es, k) \subseteq 1 .. Len(es)
      BY <3>1, KindAppended
    <3> QED BY <3>2, <3>3, <3>4, <3>5, <3>6
  <2>2. n = Len(es)
    BY DEF es
  <2> HIDE DEF n
  <2> QED BY <1>0, <2>1, <2>2
<1> HIDE DEF f, fs
<1>4. Shaped(fs)
  BY SMTT(30), <1>0, <1>3 DEF Booked, Shaped
<1>5. Distinct(fs)
  <2>1. \A i \in 1 .. n : fs[i].kind = "observation" => fs[i].id # x.id
    BY <1>3 DEF OfKind
  <2>2. \A i, k \in 1 .. n : fs[i].kind = fs[k].kind /\ fs[i].id = fs[k].id => i = k
    BY <1>3 DEF Booked, Distinct
  <2>3. \A i \in 1 .. Len(fs) : i \in 1 .. n \/ (i = n + 1 /\ fs[i] = x)
    BY <1>0, <1>3
  <2> QED BY <2>1, <2>2, <2>3 DEF Distinct
<1>6. ReportsBooked(f)
  <2> DEFINE obs == OfKind(es, "observation")
  <2>1. \A i \in obs : es[i].output \in Outputs /\ i \in 1 .. n
    BY <1>3 DEF Booked, Shaped, OfKind
  <2>2. None \notin Outputs
    BY EffectAssumption DEF ValidParameters
  <2>3. CASE obs = {}
    <3>1. e.reference = None /\ e.discrepancy = FALSE
      BY <2>3 DEF Booked, ReportsBooked
    <3>2. f.reference = fs[n + 1].output /\ f.discrepancy = FALSE
      BY <3>1, <1>1, <1>3
    <3>3. IsLeast(n + 1, OfKind(fs, "observation"))
      BY <2>3, <1>0, <1>3 DEF IsLeast
    <3>4. ~\E i, k \in OfKind(fs, "observation") : fs[i].output # fs[k].output
      BY <2>3, <1>3
    <3> QED BY <3>2, <3>3, <3>4 DEF ReportsBooked, IsLeast, fs
  <2>4. CASE obs # {}
    <3>1. PICK m \in obs : IsLeast(m, obs) /\ e.reference = es[m].output
      BY <2>4 DEF Booked, ReportsBooked
    <3>2. e.reference # None
      BY <2>1, <2>2, <3>1
    <3>3. m \in OfKind(fs, "observation") /\ IsLeast(m, OfKind(fs, "observation")) /\ f.reference = fs[m].output
      BY <1>0, <1>1, <1>3, <2>1, <3>1, <3>2 DEF IsLeast
    <3>4. e.discrepancy = \E i, k \in obs : es[i].output # es[k].output
      BY DEF Booked, ReportsBooked
    <3>5. (\E i, k \in OfKind(fs, "observation") : fs[i].output # fs[k].output)
             <=> (\E i, k \in obs : es[i].output # es[k].output) \/ es[m].output # o
      <4>1. ASSUME es[m].output # o
            PROVE  \E i, k \in OfKind(fs, "observation") : fs[i].output # fs[k].output
        BY <4>1, <1>3, <2>1
      <4>2. ASSUME NEW i \in obs, NEW k \in obs, es[i].output # es[k].output
            PROVE  \E a, b \in OfKind(fs, "observation") : fs[a].output # fs[b].output
        BY SMTT(30), <4>2, <1>3, <2>1
      <4>3. ASSUME NEW i \in OfKind(fs, "observation"), NEW k \in OfKind(fs, "observation"),
                   fs[i].output # fs[k].output, es[m].output = o
            PROVE  \E a, b \in obs : es[a].output # es[b].output
        <5>1. (i \in obs /\ fs[i] = es[i]) \/ (i = n + 1 /\ fs[i].output = es[m].output)
          BY <4>3, <1>3, <2>1
        <5>2. (k \in obs /\ fs[k] = es[k]) \/ (k = n + 1 /\ fs[k].output = es[m].output)
          BY <4>3, <1>3, <2>1
        <5> QED BY <4>3, <5>1, <5>2
      <4> QED BY <4>1, <4>2, <4>3
    <3>6. f.discrepancy = \E i, k \in OfKind(fs, "observation") : fs[i].output # fs[k].output
      BY <1>1, <3>1, <3>2, <3>4, <3>5
    <3> QED BY <3>3, <3>6 DEF ReportsBooked, fs
  <2> QED BY <2>3, <2>4
<1>7. AssessmentBooked(f)
  <2> DEFINE ass == OfKind(es, "assessment")
  <2>1. CASE ass = {} /\ e.resolution = None /\ e.result = None /\ e.conflict = 0
    BY <2>1, <1>1, <1>3 DEF AssessmentBooked, fs
  <2>2. ASSUME NEW g \in ass, IsGreatest(g, ass), e.resolution = es[g].id,
               e.result = (IF es[g].output \in Outputs THEN es[g].output ELSE None),
               \/ Contradicting(es, g) = {} /\ e.conflict = 0
               \/ IsLeast(e.conflict, Contradicting(es, g))
        PROVE  AssessmentBooked(f)
    <3>1. g \in 1 .. n /\ fs[g] = es[g] /\ IsGreatest(g, OfKind(fs, "assessment"))
      BY <1>3, <2>2
    <3>2. e.resolution # None /\ None \notin Outputs
      BY <2>2, EffectAssumption DEF Booked, Shaped, OfKind, ValidParameters
    <3>3. Contradicting(fs, g)
            = IF es[g].output \in Outputs /\ o # es[g].output THEN Contradicting(es, g) \cup {n + 1}
              ELSE Contradicting(es, g)
      BY <1>0, <1>3, <3>1 DEF Contradicting
    <3>4. \A i \in Contradicting(es, g) : i \in 1 .. n
      BY <1>3 DEF Contradicting
    <3>5. \/ Contradicting(fs, g) = {} /\ f.conflict = 0
          \/ IsLeast(f.conflict, Contradicting(fs, g))
      <4>1. CASE Contradicting(es, g) = {} /\ e.conflict = 0
        BY <4>1, <1>0, <1>1, <2>2, <3>2, <3>3 DEF IsLeast
      <4>2. CASE IsLeast(e.conflict, Contradicting(es, g))
        BY <4>2, <1>0, <1>1, <3>3, <3>4 DEF IsLeast
      <4> QED BY <2>2, <4>1, <4>2
    <3> QED BY <1>1, <1>3, <2>2, <3>1, <3>5 DEF AssessmentBooked, fs
  <2> QED BY <2>1, <2>2 DEF Booked, AssessmentBooked
<1>8. Superseding(fs)
  <2>0. \A g \in OfKind(es, "assessment") : fs[g] = es[g]
    BY <1>3
  <2>1. \A i : Earlier(fs, i) = Earlier(es, i) /\ Earlier(es, i) \subseteq OfKind(es, "assessment")
    BY <1>3 DEF Earlier
  <2> QED BY <1>3, <2>0, <2>1 DEF Booked, Superseding
<1>9. Named(fs)
  <2> SUFFICES ASSUME NEW i \in OfKind(fs, "observation"), fs[i].op # "legacy_confirm"
               PROVE  \E k \in OfKind(fs, "claim") :
                        /\ k < i /\ fs[k].id = fs[i].claim /\ fs[k].worker = fs[i].worker
                        /\ fs[i].mode = "dispatch" => fs[k].mode = "dispatch"
    BY DEF Named
  <2>1. CASE i = n + 1
    BY <2>1, <1>0, <1>3
  <2>2. CASE i \in OfKind(es, "observation")
    BY SMTT(30), <2>2, <1>0, <1>3 DEF Booked, Named
  <2> QED BY <1>3, <2>1, <2>2
<1>10. \A i \in 1 .. Len(fs) : fs[i].op \in {"confirm", "legacy_confirm"} => fs[i].output = f.journal
  BY <1>1, <1>3
<1> QED BY ZenonT(60), <1>0, <1>1, <1>3, <1>4, <1>5, <1>6, <1>7, <1>8, <1>9, <1>10 DEF Booked, f, fs

-----------------------------------------------------------------------------
(* What Assessed writes.                                                   *)
LEMMA AssessedFields ==
    ASSUME NEW e \in Retained, NEW c \in ResolutionCommand
    PROVE  LET f == Assessed(e, c)
           IN /\ AssessmentEntry(c) \in EvidenceEntry /\ f \in Retained
              /\ f.entries = Append(e.entries, AssessmentEntry(c)) /\ f.revision = e.revision + 1
              /\ f.reference = e.reference /\ f.discrepancy = e.discrepancy
              /\ f.resolution = c.id /\ f.result = (IF c.verdict \in Outputs THEN c.verdict ELSE None)
              /\ f.conflict = 0 /\ f.provenance = e.provenance /\ f.journal = e.journal
<1> DEFINE x == AssessmentEntry(c)
           d == Append1(e, x)
           r == IF c.verdict \in Outputs THEN c.verdict ELSE None
<1>0. MaxEntries \in Nat
  BY EffectAssumption DEF ValidParameters
<1>1. x \in EvidenceEntry
  <2>1. /\ c.id \in ResolutionIds /\ c.actor \in Actors /\ c.verdict \in Verdicts /\ c.expected \in Nat
        /\ c.after \in ResolutionIds \cup {None}
    BY <1>0 DEF ResolutionCommand
  <2>2. 0 \in Attempts \cup {0} /\ 0 \in Nat
    OBVIOUS
  <2> QED BY <2>1, <2>2, Zenon DEF AssessmentEntry, NoEntry, EvidenceEntry
<1>2. /\ d \in Retained /\ d.entries = Append(e.entries, x) /\ d.revision = e.revision + 1
      /\ d.reference = e.reference /\ d.discrepancy = e.discrepancy
      /\ d.provenance = e.provenance /\ d.journal = e.journal
  <2> HIDE DEF x
  <2> QED BY <1>1, Append1Fields
<1>3. Assessed(e, c) = [d EXCEPT !.resolution = c.id, !.conflict = 0, !.result = r]
  BY DEF Assessed
<1> HIDE DEF d
<1>4. r \in Outputs \cup {None} /\ c.id \in ResolutionIds
  BY DEF ResolutionCommand
<1> HIDE DEF r
<1>5. LET f == [d EXCEPT !.resolution = c.id, !.conflict = 0, !.result = r]
      IN /\ f \in Retained /\ f.entries = d.entries /\ f.revision = d.revision
         /\ f.reference = d.reference /\ f.discrepancy = d.discrepancy
         /\ f.resolution = c.id /\ f.result = r /\ f.conflict = 0
         /\ f.provenance = d.provenance /\ f.journal = d.journal
  BY <1>2, <1>4 DEF Retained
<1> HIDE DEF x
<1> QED BY <1>1, <1>2, <1>3, <1>5 DEF r, x

(* An assessment of the evidence as it is, appended to the books.          *)
LEMMA BookedAssessed ==
    ASSUME NEW e \in Retained, Booked(e), NEW c \in ResolutionCommand, c.after # c.id,
           e.revision = c.expected, e.resolution = c.after,
           \A i \in OfKind(e.entries, "assessment") : e.entries[i].id # c.id
    PROVE  Booked(Assessed(e, c))
<1> DEFINE f == Assessed(e, c)  es == e.entries  fs == f.entries  n == Len(e.entries)
           x == AssessmentEntry(c)
<1>a. /\ x.kind = "assessment" /\ x.op = "resolve" /\ x.id = c.id /\ x.output = c.verdict
      /\ x.basis = c.expected /\ x.after = c.after
  BY DEF AssessmentEntry, NoEntry
<1>b. /\ c.id \in ResolutionIds /\ c.verdict \in Verdicts
  BY DEF ResolutionCommand
<1>c. /\ x \in EvidenceEntry /\ f \in Retained /\ fs = Append(es, x) /\ f.revision = e.revision + 1
      /\ f.reference = e.reference /\ f.discrepancy = e.discrepancy
      /\ f.resolution = c.id /\ f.result = (IF c.verdict \in Outputs THEN c.verdict ELSE None)
      /\ f.conflict = 0 /\ f.provenance = e.provenance /\ f.journal = e.journal
  BY AssessedFields
<1> HIDE DEF x, f
<1>0. es \in Seq(EvidenceEntry) /\ n \in Nat
  BY Appended DEF Retained
<1>2. /\ Len(fs) = n + 1
      /\ \A i \in 1 .. n : fs[i] = es[i] /\ es[i] \in EvidenceEntry
      /\ fs[n + 1] = x
      /\ OfKind(fs, "claim") = OfKind(es, "claim")
      /\ OfKind(fs, "observation") = OfKind(es, "observation")
      /\ OfKind(fs, "assessment") = OfKind(es, "assessment") \cup {n + 1}
      /\ \A k : OfKind(es, k) \subseteq 1 .. n
  <2> HIDE DEF fs, es
  <2>0. n = Len(es)
    BY DEF es
  <2> HIDE DEF n
  <2>1. es \in Seq(EvidenceEntry) /\ fs = Append(es, x)
    BY <1>0, <1>c
  <2>2. Len(fs) = Len(es) + 1 /\ Len(es) \in Nat
    BY <1>c, <2>1, KindAppended
  <2>3. OfKind(fs, x.kind) = OfKind(es, x.kind) \cup {Len(es) + 1}
    BY ZenonT(60), <1>c, <2>1, KindAppended
  <2>4. fs[Len(es) + 1] = x /\ \A i \in 1 .. Len(es) : fs[i] = es[i] /\ es[i] \in EvidenceEntry
    BY <1>c, <2>1, KindAppended
  <2>5. \A k : k # x.kind => OfKind(fs, k) = OfKind(es, k)
    BY <2>2, <2>4 DEF OfKind
  <2>6. \A k : OfKind(es, k) \subseteq 1 .. Len(es)
    BY <1>c, <2>1, KindAppended
  <2> QED BY <1>a, <2>0, <2>2, <2>3, <2>4, <2>5, <2>6
<1> HIDE DEF fs
<1>3. e.revision = n + 1 /\ c.expected = n + 1
  BY DEF Booked
<1>4. Shaped(fs)
  <2>1. \A i \in 1 .. Len(fs) : i \in 1 .. n \/ (i = n + 1 /\ fs[i] = x)
    BY <1>0, <1>2
  <2>2. x.basis = n + 1 /\ x.after # x.id
    BY <1>3, <1>a
  <2> QED BY SMTT(30), <1>2, <2>1, <2>2, <1>a, <1>b DEF Booked, Shaped
<1>5. Distinct(fs)
  <2>1. \A i \in 1 .. n : fs[i].kind = "assessment" => fs[i].id # x.id
    BY <1>2, <1>a DEF OfKind
  <2>2. \A i, k \in 1 .. n : fs[i].kind = fs[k].kind /\ fs[i].id = fs[k].id => i = k
    BY <1>2 DEF Booked, Distinct
  <2>3. \A i \in 1 .. Len(fs) : i \in 1 .. n \/ (i = n + 1 /\ fs[i] = x)
    BY <1>0, <1>2
  <2> QED BY <1>a, <2>1, <2>2, <2>3 DEF Distinct
<1>6. ReportsBooked(f)
  BY <1>c, <1>2 DEF Booked, ReportsBooked, fs
<1>7. AssessmentBooked(f)
  <2>1. n + 1 \in OfKind(fs, "assessment") /\ IsGreatest(n + 1, OfKind(fs, "assessment"))
    BY <1>0, <1>2 DEF IsGreatest
  <2>2. Contradicting(fs, n + 1) = {}
    <3>1. \A i \in OfKind(fs, "observation") : ~(i > n + 1)
      BY <1>0, <1>2
    <3> QED BY <3>1 DEF Contradicting
  <2> QED BY <1>a, <1>c, <1>2, <2>1, <2>2 DEF AssessmentBooked, fs
<1>8. Superseding(fs)
  <2>1. \A i \in OfKind(es, "assessment") : fs[i] = es[i] /\ i \in 1 .. n
    BY <1>2
  <2>2. Earlier(fs, n + 1) = OfKind(es, "assessment")
    BY <1>0, <1>2 DEF Earlier
  <2>3. \A i \in OfKind(es, "assessment") :
          Earlier(fs, i) = Earlier(es, i) /\ Earlier(es, i) \subseteq OfKind(es, "assessment")
    BY <1>0, <1>2 DEF Earlier
  <2>4. \/ OfKind(es, "assessment") = {} /\ c.after = None
        \/ \E g \in OfKind(es, "assessment") : IsGreatest(g, OfKind(es, "assessment")) /\ c.after = es[g].id
    BY DEF Booked, AssessmentBooked
  <2>5. \/ Earlier(fs, n + 1) = {} /\ fs[n + 1].after = None
        \/ \E g \in Earlier(fs, n + 1) : IsGreatest(g, Earlier(fs, n + 1)) /\ fs[n + 1].after = fs[g].id
    BY <1>2, <1>a, <2>1, <2>2, <2>4
  <2>6. ASSUME NEW i \in OfKind(es, "assessment")
        PROVE  \/ Earlier(fs, i) = {} /\ fs[i].after = None
               \/ \E g \in Earlier(fs, i) : IsGreatest(g, Earlier(fs, i)) /\ fs[i].after = fs[g].id
    BY <2>1, <2>3 DEF Booked, Superseding
  <2> QED BY <1>2, <2>5, <2>6 DEF Superseding
<1>9. Named(fs)
  BY <1>2 DEF Booked, Named
<1>10. \A i \in 1 .. Len(fs) : fs[i].op \in {"confirm", "legacy_confirm"} => fs[i].output = f.journal
  BY <1>a, <1>c, <1>2 DEF Booked
<1> QED BY <1>0, <1>2, <1>3, <1>4, <1>5, <1>6, <1>7, <1>8, <1>9, <1>10, <1>c DEF Booked, f, fs

-----------------------------------------------------------------------------
(* An entry appended that is no granted claim leaves the provenance.       *)
LEMMA ProvenanceKept ==
    ASSUME NEW e \in Retained, NEW f \in Retained, NEW x \in EvidenceEntry,
           f.entries = Append(e.entries, x), f.provenance = e.provenance, Provenance(e),
           x.kind # "claim" \/ x.mode # "dispatch"
    PROVE  Provenance(f)
<1> DEFINE es == e.entries  fs == f.entries  n == Len(es)
<1>0. es \in Seq(EvidenceEntry)
  BY DEF Retained
<1>1. /\ Len(fs) = n + 1 /\ n \in Nat /\ fs[n + 1] = x /\ \A i \in 1 .. n : fs[i] = es[i]
      /\ \A i \in 1 .. Len(fs) : i \in 1 .. n \/ i = n + 1
  BY <1>0, Appended
<1> HIDE DEF es, fs
<1>2. (\E i \in OfKind(fs, "claim") : fs[i].mode = "dispatch")
         <=> (\E i \in OfKind(es, "claim") : es[i].mode = "dispatch")
  <2>1. ASSUME NEW i \in OfKind(fs, "claim"), fs[i].mode = "dispatch"
        PROVE  i \in OfKind(es, "claim") /\ es[i].mode = "dispatch"
    BY <1>1, <2>1 DEF OfKind
  <2>2. ASSUME NEW i \in OfKind(es, "claim"), es[i].mode = "dispatch"
        PROVE  i \in OfKind(fs, "claim") /\ fs[i].mode = "dispatch"
    BY <1>1, <2>2 DEF OfKind
  <2> QED BY <2>1, <2>2
<1> QED BY <1>2 DEF Provenance, es, fs

(* ensure keeps the books, and a copy that was there.                      *)
LEMMA EnsureBooked ==
    ASSUME NEW ap, ap.lookup \in Lookups \cup {None}, NEW c,
           eff \in Retained \cup {None}, eff # None => Booked(eff) /\ Provenance(eff)
    PROVE  LET e == Ensure(ap, c)
           IN /\ e \in Retained /\ Booked(e)
              /\ eff # None \/ c = None => Provenance(e)
              /\ eff # None => /\ e.entries = eff.entries /\ e.journal = eff.journal
                               /\ e.resolution = eff.resolution
              /\ eff = None => /\ e.entries = <<>> /\ e.journal = None
                               /\ c # None => e.provenance = "verified"
<1> DEFINE e == Ensure(ap, c)
<1>1. CASE eff # None
  <2>1. eff \in Retained /\ e = [eff EXCEPT !.lookup = ap.lookup]
    BY <1>1 DEF Ensure
  <2>2. e.entries = eff.entries /\ e.journal = eff.journal /\ e.resolution = eff.resolution
    BY <2>1 DEF Retained
  <2> HIDE DEF e
  <2>3. e \in Retained /\ Booked(e) /\ Provenance(e)
    BY <1>1, <2>1, BookedLookup
  <2> QED BY <1>1, <2>2, <2>3 DEF e
<1>2. CASE eff = None
  <2> DEFINE p == IF c # None THEN "verified" ELSE IF ap.dispatcher # 0 THEN "attempt" ELSE "fence"
  <2>1. e = NewEffect(p, ap.lookup)
    BY <1>2 DEF Ensure
  <2>2. p \in {"verified", "attempt", "fence"} /\ (c = None => p # "verified") /\ (c # None => p = "verified")
    OBVIOUS
  <2> HIDE DEF e, p
  <2>3. e \in Retained /\ Booked(e) /\ (p # "verified" => Provenance(e))
    BY <2>1, <2>2, BookedNew
  <2>4. e.entries = <<>> /\ e.journal = None /\ e.provenance = p
    BY <2>1 DEF NewEffect
  <2> QED BY <1>2, <2>2, <2>3, <2>4 DEF e
<1> QED BY <1>1, <1>2

(* Evidence without a journal holds no confirmation.                       *)
LEMMA NoneConfirmed ==
    ASSUME NEW e \in Retained, Booked(e), e.journal = None
    PROVE  \A i \in 1 .. Len(e.entries) : e.entries[i].op \notin {"confirm", "legacy_confirm"}
<1> SUFFICES ASSUME NEW i \in 1 .. Len(e.entries), e.entries[i].op \in {"confirm", "legacy_confirm"}
             PROVE  FALSE
  OBVIOUS
<1>1. e.entries[i] \in EvidenceEntry
  BY Appended DEF Retained
<1>2. e.entries[i].kind = "observation"
  BY <1>1 DEF Booked, Shaped, EvidenceEntry
<1>3. e.entries[i].output \in Outputs /\ e.entries[i].output = None
  BY <1>2 DEF Booked, Shaped
<1> QED BY <1>3, EffectAssumption DEF ValidParameters

(* legacy_confirmation keeps the books, and writes once.                   *)
LEMMA LegacyBooked ==
    ASSUME NEW e \in Retained, Booked(e), Provenance(e), NEW ap, NEW j,
           Confirmed(ap) => j \in Journal
    PROVE  LET f == LegacyConfirmation(e, ap, j)
           IN /\ f \in Retained /\ Booked(f) /\ Provenance(f) /\ f.resolution = e.resolution
              /\ e.journal # None \/ ~Confirmed(ap) => f = e
              /\ e.journal = None /\ Confirmed(ap) => f.journal = j.output
              /\ f.entries = e.entries \/ \E x \in EvidenceEntry : f.entries = Append(e.entries, x)
<1>1. CASE e.journal # None \/ ~Confirmed(ap)
  BY <1>1 DEF LegacyConfirmation
<1>2. CASE e.journal = None /\ Confirmed(ap)
  <2> DEFINE x == [NoEntry EXCEPT !.kind = "observation", !.op = "legacy_confirm", !.attempt = j.attempt,
                                  !.output = j.output]
             f == Append1(Report([e EXCEPT !.journal = j.output], j.output), x)
             g == Append1(Report([e EXCEPT !.journal = j.output], x.output), x)
  <2>1. LegacyConfirmation(e, ap, j) = f
    BY <1>2 DEF LegacyConfirmation
  <2>2. j.output \in Outputs /\ j.attempt \in Attempts
    BY <1>2 DEF Journal
  <2>3. 0 \in Nat
    OBVIOUS
  <2>4. x \in EvidenceEntry
    BY <2>2, <2>3, Zenon DEF NoEntry, EvidenceEntry, Verdicts
  <2>5. x.kind = "observation" /\ x.op = "legacy_confirm" /\ x.id = None /\ x.attempt = j.attempt /\ x.output = j.output
    BY DEF NoEntry
  <2>6. f = g
    BY <2>5
  <2> HIDE DEF x, f
  <2>7. \A i \in 1 .. Len(e.entries) : e.entries[i].op \notin {"confirm", "legacy_confirm"}
    BY <1>2, NoneConfirmed
  <2>8. \A i \in OfKind(e.entries, "observation") : e.entries[i].id # x.id
    <3>1. None \notin ObservationIds
      BY EffectAssumption DEF ValidParameters
    <3> QED BY <2>5, <2>7, <3>1 DEF Booked, Shaped, OfKind
  <2>9. /\ g \in Retained /\ Booked(g) /\ g.resolution = e.resolution /\ g.journal = j.output
        /\ g.entries = Append(e.entries, x) /\ g.provenance = e.provenance
    BY <2>2, <2>4, <2>5, <2>7, <2>8, BookedReport
  <2>10. Provenance(f)
    <3> HIDE DEF g
    <3> QED BY <2>4, <2>5, <2>6, <2>9, ProvenanceKept
  <2> HIDE DEF g
  <2> QED BY <1>2, <2>1, <2>4, <2>6, <2>9, <2>10
<1> QED BY <1>1, <1>2

-----------------------------------------------------------------------------
(* A least or a greatest element is the one CHOOSE finds.                  *)
LEMMA LeastIs ==
    ASSUME NEW S, S \subseteq Nat, NEW m, IsLeast(m, S)
    PROVE  Least(S) = m
<1>1. m \in S /\ \A j \in S : m <= j
  BY DEF IsLeast
<1>2. Least(S) \in S /\ \A j \in S : Least(S) <= j
  BY <1>1 DEF Least
<1>3. Least(S) <= m /\ m <= Least(S) /\ m \in Nat /\ Least(S) \in Nat
  BY <1>1, <1>2
<1> QED BY <1>3

LEMMA GreatestIs ==
    ASSUME NEW S, S \subseteq Nat, NEW m, IsGreatest(m, S)
    PROVE  Greatest(S) = m
<1>1. m \in S /\ \A j \in S : j <= m
  BY DEF IsGreatest
<1>2. Greatest(S) \in S /\ \A j \in S : j <= Greatest(S)
  BY <1>1 DEF Greatest
<1>3. Greatest(S) <= m /\ m <= Greatest(S) /\ m \in Nat /\ Greatest(S) \in Nat
  BY <1>1, <1>2
<1> QED BY <1>3

LEMMA KindsAreIndices ==
    ASSUME NEW es \in Seq(EvidenceEntry), NEW k
    PROVE  OfKind(es, k) \subseteq 1 .. Len(es) /\ OfKind(es, k) \subseteq Nat /\ Len(es) \in Nat
BY DEF OfKind

(* The conflict of the books is the first contradiction of the entries.    *)
LEMMA ConflictFollows ==
    ASSUME NEW e \in Retained, AssessmentBooked(e)
    PROVE  e.conflict = FirstConflict(e.entries)
<1> DEFINE es == e.entries  ass == OfKind(es, "assessment")
<1>0. es \in Seq(EvidenceEntry)
  BY DEF Retained
<1>1. CASE ass = {} /\ e.resolution = None /\ e.result = None /\ e.conflict = 0
  BY <1>1 DEF FirstConflict
<1>2. ASSUME NEW g \in ass, IsGreatest(g, ass),
             \/ Contradicting(es, g) = {} /\ e.conflict = 0
             \/ IsLeast(e.conflict, Contradicting(es, g))
      PROVE  e.conflict = FirstConflict(es)
  <2>1. Greatest(ass) = g
    BY <1>0, <1>2, KindsAreIndices, GreatestIs
  <2>2. FirstConflict(es) = IF Contradicting(es, g) = {} THEN 0 ELSE Least(Contradicting(es, g))
    BY <1>2, <2>1 DEF FirstConflict, Contradicting
  <2>3. Contradicting(es, g) \subseteq Nat
    BY <1>0, KindsAreIndices DEF Contradicting
  <2>4. CASE Contradicting(es, g) = {} /\ e.conflict = 0
    BY <2>2, <2>4
  <2>5. CASE IsLeast(e.conflict, Contradicting(es, g))
    <3>1. Contradicting(es, g) # {}
      BY <2>5 DEF IsLeast
    <3>2. Least(Contradicting(es, g)) = e.conflict
      BY <2>3, <2>5, LeastIs
    <3> QED BY <2>2, <3>1, <3>2
  <2> QED BY <1>2, <2>4, <2>5
<1> QED BY <1>1, <1>2 DEF AssessmentBooked

(* The books, read as an operator reads them.                              *)
LEMMA BooksFollow ==
    ASSUME eff \in Retained \cup {None}, eff # None => Booked(eff) /\ Provenance(eff)
    PROVE  SummaryFollows
<1> SUFFICES ASSUME eff # None
             PROVE  SummaryFollows
  BY DEF SummaryFollows
<1> DEFINE es == eff.entries  obs == OfKind(es, "observation")  ass == OfKind(es, "assessment")
           old == {i \in obs : es[i].op = "legacy_confirm"}
<1>0. eff \in Retained /\ es \in Seq(EvidenceEntry) /\ Booked(eff) /\ Provenance(eff)
  BY DEF Retained
<1>1. obs \subseteq Nat /\ ass \subseteq Nat
  BY <1>0, KindsAreIndices
<1>2. eff.reference = IF obs = {} THEN None ELSE es[Least(obs)].output
  BY <1>0, <1>1, LeastIs DEF Booked, ReportsBooked
<1>3. eff.discrepancy = (\E i, j \in obs : es[i].output # es[j].output)
  BY <1>0 DEF Booked, ReportsBooked
<1>4. eff.resolution = IF ass = {} THEN None ELSE es[Greatest(ass)].id
  BY <1>0, <1>1, GreatestIs DEF Booked, AssessmentBooked
<1>5. eff.conflict = FirstConflict(es)
  BY <1>0, ConflictFollows DEF Booked
<1>6. Cardinality(old) <= 1
  <2>1. ASSUME NEW i \in old, NEW j \in old
        PROVE  i = j
    BY <1>0, <2>1 DEF Booked, Shaped, Distinct, OfKind
  <2> HIDE DEF old
  <2>2. CASE old = {}
    <3>1. Cardinality(old) = 0
      BY <2>2, FS_EmptySet
    <3> QED BY <3>1
  <2>3. CASE old # {}
    <3>1. PICK i \in old : TRUE
      BY <2>3
    <3>2. old = {i}
      BY <2>1, <3>1
    <3>3. Cardinality(old) = 1
      BY <3>2, FS_Singleton
    <3> QED BY <3>3
  <2> QED BY <2>2, <2>3
<1>7. eff.revision = Len(es) + 1
  BY <1>0 DEF Booked
<1>8. (eff.provenance = "verified") = (\E i \in OfKind(es, "claim") : es[i].mode = "dispatch")
  BY <1>0 DEF Provenance
<1> HIDE DEF old
<1>9. Cardinality({i \in obs : es[i].op = "legacy_confirm"}) <= 1
  BY <1>6 DEF old
<1> QED BY <1>2, <1>3, <1>4, <1>5, <1>7, <1>8, <1>9, Zenon DEF SummaryFollows

(* Booked evidence can be saved and read back.                             *)
LEMMA BooksReadable ==
    ASSUME eff \in Retained \cup {None}, eff # None => Booked(eff)
    PROVE  Readable
<1> SUFFICES ASSUME eff # None
             PROVE  ValidSummary(eff) /\ \A i \in 1 .. Len(eff.entries) : ValidEntry(eff.entries, i)
  BY DEF Readable
<1> DEFINE es == eff.entries  ass == OfKind(es, "assessment")
<1>0. eff \in Retained /\ es \in Seq(EvidenceEntry) /\ Booked(eff) /\ Len(es) \in Nat /\ eff.conflict \in Nat
  BY DEF Retained
<1>1. \A i \in 1 .. Len(es) : ValidEntry(es, i)
  <2> TAKE i \in 1 .. Len(es)
  <2>0. es[i] \in EvidenceEntry
    BY <1>0
  <2>1. es[i].kind \in {"claim", "observation", "assessment"}
    BY <2>0 DEF EvidenceEntry
  <2>2. 0 \notin Attempts
    BY EffectAssumption, FS_CardinalityType DEF ValidParameters
  <2>3. CASE es[i].kind = "claim"
    BY <1>0, <2>2, <2>3 DEF Booked, Shaped, ValidEntry
  <2>4. CASE es[i].kind = "observation"
    BY <1>0, <2>2, <2>4 DEF Booked, Shaped, ValidEntry
  <2>5. CASE es[i].kind = "assessment"
    BY <1>0, <2>5 DEF Booked, Shaped, ValidEntry
  <2> QED BY <2>1, <2>3, <2>4, <2>5
<1>2. ValidSummary(eff)
  <2>1. Len(es) < eff.revision
    BY <1>0 DEF Booked
  <2>2. CASE ass = {} /\ eff.resolution = None /\ eff.conflict = 0
    BY <2>1, <2>2 DEF ValidSummary
  <2>3. ASSUME NEW g \in ass, IsGreatest(g, ass), eff.resolution = es[g].id,
               eff.result = (IF es[g].output \in Outputs THEN es[g].output ELSE None),
               \/ Contradicting(es, g) = {} /\ eff.conflict = 0
               \/ IsLeast(eff.conflict, Contradicting(es, g))
        PROVE  ValidSummary(eff)
    <3>1. g \in 1 .. Len(es) /\ es[g].kind = "assessment"
      BY <2>3 DEF OfKind
    <3>2. eff.resolution # None
      BY <1>0, <2>3, <3>1, EffectAssumption DEF Booked, Shaped, ValidParameters
    <3>3. Entry("assessment", eff.resolution) = {g}
      BY <1>0, <2>3, <3>1 DEF Entry, Booked, Distinct
    <3>4. eff.conflict # 0 => /\ eff.conflict <= Len(es) /\ eff.result # None /\ g < eff.conflict
      <4>1. None \notin Outputs
        BY EffectAssumption DEF ValidParameters
      <4>2. ASSUME eff.conflict # 0
            PROVE  eff.conflict \in Contradicting(es, g)
        BY <2>3, <4>2 DEF IsLeast
      <4> QED BY <1>0, <2>3, <3>1, <4>1, <4>2 DEF Contradicting, OfKind
    <3>5. ValidResolutionSummary(eff)
      BY <3>3, <3>4 DEF ValidResolutionSummary, HasEntry
    <3> QED BY <2>1, <3>2, <3>5 DEF ValidSummary
  <2> QED BY <1>0, <2>2, <2>3 DEF Booked, AssessmentBooked
<1> QED BY <1>1, <1>2

(* Assessments and reports of the books.                                   *)
LEMMA BooksOrdered ==
    ASSUME eff \in Retained \cup {None}, eff # None => Booked(eff)
    PROVE  AssessedOnCurrent /\ ReportsNameClaims
<1> SUFFICES ASSUME eff # None
             PROVE  AssessedOnCurrent /\ ReportsNameClaims
  BY DEF AssessedOnCurrent, ReportsNameClaims
<1> DEFINE es == eff.entries
<1>0. eff \in Retained /\ es \in Seq(EvidenceEntry) /\ Booked(eff)
  BY DEF Retained
<1>1. ReportsNameClaims
  BY <1>0 DEF Booked, Named, ReportsNameClaims
<1>2. ASSUME NEW i \in OfKind(es, "assessment")
      PROVE  /\ es[i].basis = i
             /\ es[i].after = IF Earlier(es, i) = {} THEN None ELSE es[Greatest(Earlier(es, i))].id
  <2>1. es[i].basis = i
    BY <1>0 DEF Booked, Shaped, OfKind
  <2>2. Earlier(es, i) \subseteq Nat
    BY <1>0, KindsAreIndices DEF Earlier
  <2>3. CASE Earlier(es, i) = {}
    BY <1>0, <2>1, <2>3 DEF Booked, Superseding
  <2>4. CASE Earlier(es, i) # {}
    BY <1>0, <2>1, <2>2, <2>4, GreatestIs DEF Booked, Superseding
  <2> QED BY <2>3, <2>4
<1>3. AssessedOnCurrent
  BY <1>2 DEF AssessedOnCurrent, Earlier
<1> QED BY <1>1, <1>3

-----------------------------------------------------------------------------
(* How a step may change the retained copy: it stays, its journal is set   *)
(* once, and at most one entry is appended.                                *)
Grown(e, f) ==
    e # None =>
        /\ f # None /\ (e.journal # None => f.journal = e.journal)
        /\ f.entries = e.entries \/ \E x \in EvidenceEntry : f.entries = Append(e.entries, x)

LEMMA GrownSame == \A e : Grown(e, e)
BY DEF Grown

LEMMA GrownIndices ==
    ASSUME NEW e \in Retained, NEW f \in Retained, Grown(e, f), e # None
    PROVE  /\ Len(e.entries) \in Nat /\ Len(f.entries) \in Nat /\ Len(e.entries) <= Len(f.entries)
           /\ \A i \in 1 .. Len(e.entries) : f.entries[i] = e.entries[i]
<1>1. e.entries \in Seq(EvidenceEntry)
  BY DEF Retained
<1>2. CASE f.entries = e.entries
  BY <1>1, <1>2
<1>3. ASSUME NEW x \in EvidenceEntry, f.entries = Append(e.entries, x)
      PROVE  /\ Len(e.entries) \in Nat /\ Len(f.entries) \in Nat /\ Len(e.entries) <= Len(f.entries)
             /\ \A i \in 1 .. Len(e.entries) : f.entries[i] = e.entries[i]
  BY <1>1, <1>3, Appended
<1> QED BY <1>2, <1>3 DEF Grown

(* Entries that stay give the same history up to an earlier revision.      *)
LEMMA PrefixKept ==
    ASSUME NEW e \in Retained, NEW f \in Retained, Grown(e, f), e # None, NEW m \in 0 .. Len(e.entries)
    PROVE  SubSeq(f.entries, 1, m) = SubSeq(e.entries, 1, m)
<1>1. e.entries \in Seq(EvidenceEntry) /\ f.entries \in Seq(EvidenceEntry)
  BY DEF Retained
<1>2. /\ Len(e.entries) \in Nat /\ Len(f.entries) \in Nat /\ Len(e.entries) <= Len(f.entries)
      /\ \A i \in 1 .. Len(e.entries) : f.entries[i] = e.entries[i]
  BY GrownIndices
<1> DEFINE s == SubSeq(e.entries, 1, m)  t == SubSeq(f.entries, 1, m)
<1>3. s \in Seq(EvidenceEntry) /\ Len(s) = m /\ \A i \in 1 .. m : s[i] = e.entries[i]
  BY <1>1, <1>2
<1>4. t \in Seq(EvidenceEntry) /\ Len(t) = m /\ \A i \in 1 .. m : t[i] = f.entries[i]
  BY <1>1, <1>2
<1> HIDE DEF s, t
<1>5. \A i \in 1 .. m : s[i] = t[i]
  BY <1>2, <1>3, <1>4
<1>6. s = t
  BY <1>3, <1>4, <1>5, SeqEqual
<1> QED BY <1>6 DEF s, t

(* What a resumed activation was told agrees with the history es.          *)
Tells(es, w) ==
    LET last == es[Greatest(OfKind(es, "assessment"))]
    IN /\ OfKind(es, "assessment") # {}
       /\ w.id = last.id /\ last.id # w.after
       /\ w.outcome = IF FirstConflict(es) # 0
                        THEN [kind |-> "disputed", value |-> None, at |-> FirstConflict(es)]
                        ELSE [kind |-> "assessed", value |-> last.output, at |-> 0]

LEMMA ToldIs ==
    Told <=> \A p \in Activations : wakes[p] # None =>
               /\ eff # None /\ wakes[p].revision \in 1 .. Len(eff.entries) + 1
               /\ Tells(SubSeq(eff.entries, 1, wakes[p].revision - 1), wakes[p])
BY DEF Told, WakeTellsEvidence, Tells

LEMMA ToldKept ==
    ASSUME eff \in Retained \cup {None}, eff' \in Retained \cup {None}, Told, Grown(eff, eff'), wakes' = wakes
    PROVE  Told'
<1> SUFFICES ASSUME NEW p \in Activations, wakes[p] # None
             PROVE  /\ eff' # None /\ wakes[p].revision \in 1 .. Len(eff'.entries) + 1
                    /\ Tells(SubSeq(eff'.entries, 1, wakes[p].revision - 1), wakes[p])
  BY DEF Told, WakeTellsEvidence, Tells
<1>1. /\ eff # None /\ wakes[p].revision \in 1 .. Len(eff.entries) + 1
      /\ Tells(SubSeq(eff.entries, 1, wakes[p].revision - 1), wakes[p])
  BY ToldIs
<1>2. eff' # None
  BY <1>1 DEF Grown
<1>3. /\ Len(eff.entries) \in Nat /\ Len(eff'.entries) \in Nat /\ Len(eff.entries) <= Len(eff'.entries)
  BY <1>1, <1>2, GrownIndices
<1>4. wakes[p].revision - 1 \in 0 .. Len(eff.entries) /\ wakes[p].revision \in 1 .. Len(eff'.entries) + 1
  BY <1>1, <1>3
<1>5. SubSeq(eff'.entries, 1, wakes[p].revision - 1) = SubSeq(eff.entries, 1, wakes[p].revision - 1)
  BY <1>1, <1>2, <1>4, PrefixKept
<1> QED BY <1>1, <1>2, <1>4, <1>5

(* Acknowledgements outlive every step that grows the evidence.            *)
LEMMA AcksKept ==
    ASSUME eff \in Retained \cup {None}, eff' \in Retained \cup {None}, Acknowledged, Grown(eff, eff'),
           run.state = "Gone" => run'.state = "Gone",
           journal # None /\ journal.kind = "local" => journal' = journal \/ run'.state = "Gone"
    PROVE  \A k \in acked : AckHolds(k)'
<1> TAKE k \in acked
<1>0. AckHolds(k)
  BY DEF Acknowledged
<1>1. ASSUME eff # None
      PROVE  /\ eff' # None /\ (eff.journal # None => eff'.journal = eff.journal)
             /\ \A c, i : i \in Entry(c, k.id) => i \in Entry(c, k.id)' /\ eff'.entries[i] = eff.entries[i]
  <2>1. eff' # None /\ (eff.journal # None => eff'.journal = eff.journal)
    BY <1>1 DEF Grown
  <2>2. /\ Len(eff.entries) \in Nat /\ Len(eff'.entries) \in Nat /\ Len(eff.entries) <= Len(eff'.entries)
        /\ \A i \in 1 .. Len(eff.entries) : eff'.entries[i] = eff.entries[i]
    BY <1>1, <2>1, GrownIndices
  <2> QED BY <2>1, <2>2 DEF Entry
<1>2. None \notin Outputs
  BY EffectAssumption DEF ValidParameters
<1> QED BY <1>0, <1>1, <1>2 DEF AckHolds

(* An id names one entry of its kind.                                      *)
LEMMA EntryIsOf ==
    ASSUME eff \in Retained, Booked(eff), NEW kind, NEW id, NEW i \in Entry(kind, id)
    PROVE  EntryOf(kind, id) = eff.entries[i] /\ Entry(kind, id) = {i}
<1>1. Entry(kind, id) = {i}
  BY DEF Entry, Booked, Distinct
<1>2. (CHOOSE j \in Entry(kind, id) : TRUE) = i
  BY <1>1
<1> QED BY <1>1, <1>2 DEF EntryOf

-----------------------------------------------------------------------------
(* The invariant implies everything EffectSound says.                      *)
LEMMA InvariantSound == EInv => EffectSound
<1> SUFFICES ASSUME EInv PROVE EffectSound
  OBVIOUS
<1>0. TypeOK /\ eff \in Retained \cup {None} /\ (eff # None => Booked(eff) /\ Provenance(eff))
  BY DEF EInv, TypeOK
<1>1. OneDispatch
  BY DEF EInv, OneGrant, OneDispatch
<1>2. OneRoute
  BY DEF EInv, OneGrant, Bound, OneRoute
<1>3. AcksStand
  <2> SUFFICES ASSUME NEW k \in acked
               PROVE  CASE k.kind = "confirm" ->
                             /\ journal # None => journal.output = k.value
                             /\ eff # None /\ eff.journal = k.value
                        [] k.kind = "local" -> journal # None => journal.output = k.value
                        [] k.kind = "observe" ->
                             HasEntry("observation", k.id) /\ EntryOf("observation", k.id).output = k.value
                        [] OTHER ->
                             /\ HasEntry("assessment", k.id)
                             /\ EntryOf("assessment", k.id).output = k.value.verdict
                             /\ EntryOf("assessment", k.id).worker = k.value.actor
    BY DEF AcksStand
  <2>0. AckHolds(k)
    BY DEF EInv, Acknowledged
  <2>1. CASE k.kind = "confirm"
    <3>1. eff # None /\ eff.journal = k.value
      BY <2>0, <2>1 DEF AckHolds
    <3>2. journal # None => journal.output = k.value
      <4>1. journal # None => journal.kind \in {"effect", "local"}
        BY <1>0 DEF TypeOK, Journal
      <4> QED BY <3>1, <4>1 DEF EInv, Bound
    <3> QED BY <2>1, <3>1, <3>2
  <2>2. CASE k.kind = "local"
    BY <2>0, <2>2 DEF AckHolds, EInv, Bound
  <2>3. CASE k.kind = "observe"
    <3>1. PICK i \in Entry("observation", k.id) : eff.entries[i].output = k.value
      BY <2>0, <2>3 DEF AckHolds
    <3>2. eff # None /\ eff \in Retained /\ Booked(eff)
      BY <1>0, <2>0, <2>3 DEF AckHolds
    <3>3. EntryOf("observation", k.id) = eff.entries[i] /\ HasEntry("observation", k.id)
      BY <3>1, <3>2, EntryIsOf DEF HasEntry
    <3> QED BY <2>3, <3>1, <3>3
  <2>4. CASE k.kind = "resolve"
    <3>1. PICK i \in Entry("assessment", k.id) :
                 eff.entries[i].output = k.value.verdict /\ eff.entries[i].worker = k.value.actor
      BY <2>0, <2>4 DEF AckHolds
    <3>2. eff # None /\ eff \in Retained /\ Booked(eff)
      BY <1>0, <2>0, <2>4 DEF AckHolds
    <3>3. EntryOf("assessment", k.id) = eff.entries[i] /\ HasEntry("assessment", k.id)
      BY <3>1, <3>2, EntryIsOf DEF HasEntry
    <3> QED BY <2>4, <3>1, <3>3
  <2> QED BY <2>0, <2>1, <2>2, <2>3, <2>4 DEF AckHolds
<1>4. SummaryFollows /\ Readable /\ AssessedOnCurrent /\ ReportsNameClaims
  BY <1>0, BooksFollow, BooksReadable, BooksOrdered
<1>5. WakeIsOwed /\ WakeTellsEvidence /\ HeldUntilKnown
  BY DEF EInv, Parked, Told, Bound
<1> QED BY <1>0, <1>1, <1>2, <1>3, <1>4, <1>5 DEF EffectSound

-----------------------------------------------------------------------------
(* A step that leaves the evidence leaves what was told about it.          *)
LEMMA EvidenceFrame ==
    ASSUME EInv, eff' = eff, wakes' = wakes
    PROVE  Told' /\ (eff' # None => Booked(eff') /\ Provenance(eff'))
<1>1. Told'
  BY ToldKept, GrownSame DEF EInv, TypeOK
<1>2. eff' # None => Booked(eff') /\ Provenance(eff')
  BY DEF EInv
<1> QED BY <1>1, <1>2

LEMMA AckFrame ==
    ASSUME EInv, eff' = eff, acked' = acked, run.state = "Gone" => run'.state = "Gone",
           journal # None /\ journal.kind = "local" => journal' = journal \/ run'.state = "Gone"
    PROVE  Acknowledged'
<1>1. eff \in Retained \cup {None} /\ eff' \in Retained \cup {None} /\ Acknowledged /\ Grown(eff, eff')
  BY GrownSame DEF EInv, TypeOK
<1>2. \A k \in acked : AckHolds(k)'
  BY <1>1, AcksKept
<1> QED BY <1>2 DEF Acknowledged

(* A step about claims under way or permissions leaves the rest.           *)
LEMMA ClaimFrame ==
    ASSUME EInv, UNCHANGED <<run, appr, journal, eff, keys, rows, wakes, acked>>
    PROVE  /\ Bound' /\ (eff' # None => Booked(eff') /\ Provenance(eff')) /\ Parked' /\ Acknowledged' /\ Told'
<1>1. Bound'
  BY DEF EInv, Bound, Confirmed, HeldUntilKnown
<1>2. Parked'
  BY DEF EInv, Parked, WakeIsOwed, Eligible
<1>3. Acknowledged'
  BY AckFrame
<1> QED BY <1>1, <1>2, <1>3, EvidenceFrame

LEMMA AskKeeps ==
    ASSUME EInv, NEW a \in Attempts, NEW v \in Versions, NEW id \in ClaimIds \cup {None}, NEW l \in Lookups,
           Ask(a, v, id, l)
    PROVE  EInv'
<1> DEFINE c == [attempt |-> a, version |-> v, id |-> id, lookup |-> l, waiting |-> TRUE]
<1>1. TypeOK'
  <2>1. c \in Call
    BY DEF Call
  <2>2. calls \subseteq Call /\ calls' = calls \cup {c}
    BY DEF Ask, EInv, TypeOK
  <2> HIDE DEF c
  <2>3. calls' \subseteq Call
    BY <2>1, <2>2
  <2> QED BY <2>3 DEF Ask, EInv, TypeOK
<1>2. Asked'
  BY DEF Ask, EInv, Asked
<1>3. OneGrant'
  BY DEF Ask, EInv, OneGrant
<1>4. /\ Bound' /\ (eff' # None => Booked(eff') /\ Provenance(eff')) /\ Parked' /\ Acknowledged' /\ Told'
  BY ClaimFrame DEF Ask
<1> QED BY <1>1, <1>2, <1>3, <1>4 DEF EInv

LEMMA StopWaitingKeeps ==
    ASSUME EInv, NEW c \in calls, StopWaiting(c)
    PROVE  EInv'
<1>0. c \in Call
  BY DEF EInv, TypeOK
<1>1. TypeOK'
  <2>1. [c EXCEPT !.waiting = FALSE] \in Call
    BY <1>0 DEF Call
  <2>2. calls' \subseteq Call
    BY <2>1 DEF StopWaiting, EInv, TypeOK
  <2> QED BY <2>2 DEF StopWaiting, EInv, TypeOK
<1>2. Asked'
  BY <1>0 DEF StopWaiting, EInv, Asked, Call
<1>3. OneGrant'
  BY DEF StopWaiting, EInv, OneGrant
<1>4. /\ Bound' /\ (eff' # None => Booked(eff') /\ Provenance(eff')) /\ Parked' /\ Acknowledged' /\ Told'
  BY ClaimFrame DEF StopWaiting
<1> QED BY <1>1, <1>2, <1>3, <1>4 DEF EInv

LEMMA ClaimRefusedKeeps ==
    ASSUME EInv, NEW c \in calls, ClaimRefused(c)
    PROVE  EInv'
<1>1. TypeOK'
  BY DEF ClaimRefused, EInv, TypeOK
<1>2. Asked' /\ OneGrant'
  BY DEF ClaimRefused, EInv, Asked, OneGrant
<1>3. /\ Bound' /\ (eff' # None => Booked(eff') /\ Provenance(eff')) /\ Parked' /\ Acknowledged' /\ Told'
  BY ClaimFrame DEF ClaimRefused
<1> QED BY <1>1, <1>2, <1>3 DEF EInv

(* The permission a dispatch uses is the only one there is.                *)
LEMMA DispatchKeeps ==
    ASSUME EInv, NEW a \in Attempts, NEW h \in held[a], Dispatch(a, h)
    PROVE  EInv'
<1> DEFINE P == [id : ClaimIds \cup {None}, mode : {"dispatch", "lookup", "sent"}]
           g == [h EXCEPT !.mode = "sent"]
<1>0. held \in [Attempts -> SUBSET P] /\ h \in P /\ h.mode = "dispatch"
  BY DEF EInv, TypeOK, Dispatch
<1>1. g \in P /\ g.mode = "sent"
  BY <1>0
<1> HIDE DEF g
<1>2. held' = [held EXCEPT ![a] = (held[a] \ {h}) \cup {g}]
  BY DEF Dispatch, g
<1>3. \A b \in Attempts : held'[b] = IF b = a THEN (held[a] \ {h}) \cup {g} ELSE held[b]
  BY <1>0, <1>2
<1>4. sent = 0 /\ sent' = 1 /\ appr.claimed /\ (appr.evidence # "none" \/ run.state = "Gone")
  BY <1>0 DEF EInv, OneGrant, Dispatch
<1>5. TypeOK'
  <2>1. held' \in [Attempts -> SUBSET P]
    BY <1>0, <1>1, <1>2
  <2> QED BY <1>4, <2>1 DEF Dispatch, EInv, TypeOK
<1>6. \A b \in Attempts : \A p \in held'[b] : p.mode # "dispatch" /\ (p \in held[b] \/ p = g)
  <2> TAKE b \in Attempts
  <2> TAKE p \in held'[b]
  <2>1. p = g \/ (p \in held[b] /\ ~(b = a /\ p = h))
    BY <1>3
  <2>2. p \in held[b] /\ p.mode = "dispatch" => b = a /\ p = h
    BY <1>0 DEF EInv, OneGrant
  <2> QED BY <1>1, <2>1, <2>2
<1>7. OneGrant'
  <2>1. appr' = appr /\ run' = run
    BY DEF Dispatch
  <2> QED BY <1>4, <1>6, <2>1 DEF OneGrant
<1>8. Asked'
  BY DEF Dispatch, EInv, Asked
<1>9. /\ Bound' /\ (eff' # None => Booked(eff') /\ Provenance(eff')) /\ Parked' /\ Acknowledged' /\ Told'
  BY ClaimFrame DEF Dispatch
<1> QED BY <1>5, <1>7, <1>8, <1>9 DEF EInv

-----------------------------------------------------------------------------
(* A step of the run alone, which neither ends up collected nor was.       *)
LEMMA RunFrame ==
    ASSUME EInv, UNCHANGED <<appr, journal, eff, calls, held, sent, acked>>,
           run.state # "Gone", run'.state # "Gone"
    PROVE  /\ Asked' /\ OneGrant' /\ Bound' /\ (eff' # None => Booked(eff') /\ Provenance(eff'))
           /\ Acknowledged' /\ (wakes' = wakes => Told')
<1>1. Asked' /\ OneGrant'
  BY DEF EInv, Asked, OneGrant
<1>2. Bound'
  BY DEF EInv, Bound, Confirmed, HeldUntilKnown
<1>3. Acknowledged'
  BY AckFrame
<1>4. eff' # None => Booked(eff') /\ Provenance(eff')
  BY DEF EInv
<1> QED BY <1>1, <1>2, <1>3, <1>4, EvidenceFrame

LEMMA SettleKeeps ==
    ASSUME EInv, Settle
    PROVE  EInv'
<1>1. TypeOK /\ run.state = "Running" /\ run.wait = None
  BY DEF EInv, Settle, Live, Parked
<1>2. /\ run' \in [state : {"Running", "Waiting", "Ended", "Gone"}, activation : Activations,
                   attempt : Attempts, lease : {"live", "lapsed", "over"}, wait : EffectWait \cup {None}]
      /\ run'.state = "Running" /\ run'.wait = None
  BY <1>1 DEF TypeOK, Settle
<1>3. TypeOK'
  BY <1>1, <1>2 DEF TypeOK, Settle
<1>4. Parked'
  BY <1>2 DEF Parked, WakeIsOwed
<1>5. /\ Asked' /\ OneGrant' /\ Bound' /\ (eff' # None => Booked(eff') /\ Provenance(eff'))
      /\ Acknowledged' /\ Told'
  BY <1>1, <1>2, RunFrame DEF Settle
<1> QED BY <1>3, <1>4, <1>5 DEF EInv

LEMMA LapseKeeps ==
    ASSUME EInv, Lapse
    PROVE  EInv'
<1>1. TypeOK /\ run.state \in {"Running", "Ended"} /\ run.wait = None
  BY DEF EInv, TypeOK, Lapse, Parked
<1>2. /\ run' \in [state : {"Running", "Waiting", "Ended", "Gone"}, activation : Activations,
                   attempt : Attempts, lease : {"live", "lapsed", "over"}, wait : EffectWait \cup {None}]
      /\ run'.state = run.state /\ run'.wait = None
  BY <1>1 DEF TypeOK, Lapse
<1>3. TypeOK'
  BY <1>1, <1>2 DEF TypeOK, Lapse
<1>4. Parked'
  BY <1>1, <1>2 DEF Parked, WakeIsOwed
<1>5. /\ Asked' /\ OneGrant' /\ Bound' /\ (eff' # None => Booked(eff') /\ Provenance(eff'))
      /\ Acknowledged' /\ Told'
  BY <1>1, <1>2, RunFrame DEF Lapse
<1> QED BY <1>3, <1>4, <1>5 DEF EInv

LEMMA RecoverKeeps ==
    ASSUME EInv, Recover
    PROVE  EInv'
<1>1. TypeOK /\ run.state \in {"Running", "Ended"} /\ run.wait = None
  BY DEF EInv, TypeOK, Recover, Parked
<1>2. /\ run' \in [state : {"Running", "Waiting", "Ended", "Gone"}, activation : Activations,
                   attempt : Attempts, lease : {"live", "lapsed", "over"}, wait : EffectWait \cup {None}]
      /\ run'.state \in {"Running", "Ended"} /\ run'.wait = None
  BY <1>1 DEF TypeOK, Recover
<1>3. TypeOK'
  BY <1>1, <1>2 DEF TypeOK, Recover
<1>4. Parked'
  BY <1>2 DEF Parked, WakeIsOwed
<1>5. /\ Asked' /\ OneGrant' /\ Bound' /\ (eff' # None => Booked(eff') /\ Provenance(eff'))
      /\ Acknowledged' /\ Told'
  BY <1>1, <1>2, RunFrame DEF Recover
<1> QED BY <1>3, <1>4, <1>5 DEF EInv

LEMMA EndKeeps ==
    ASSUME EInv, End
    PROVE  EInv'
<1>1. TypeOK /\ run.state # "Gone"
  BY DEF EInv, End
<1>2. /\ run' \in [state : {"Running", "Waiting", "Ended", "Gone"}, activation : Activations,
                   attempt : Attempts, lease : {"live", "lapsed", "over"}, wait : EffectWait \cup {None}]
      /\ run'.state = "Ended" /\ run'.wait = None
  BY <1>1 DEF TypeOK, End
<1>3. rows' \in [Activations -> {"none", "open", "done"}]
  BY <1>1 DEF TypeOK, End
<1>4. TypeOK'
  BY <1>1, <1>2, <1>3 DEF TypeOK, End
<1>5. Parked'
  BY <1>2 DEF Parked, WakeIsOwed
<1>6. /\ Asked' /\ OneGrant' /\ Bound' /\ (eff' # None => Booked(eff') /\ Provenance(eff'))
      /\ Acknowledged' /\ Told'
  BY <1>1, <1>2, RunFrame DEF End
<1> QED BY <1>4, <1>5, <1>6 DEF EInv

(* Retention lets go only of an effect something is known of.              *)
LEMMA CollectKeeps ==
    ASSUME EInv, Collect
    PROVE  EInv'
<1>0. /\ TypeOK /\ run.state = "Ended" /\ run.lease = "over" /\ run.wait = None
      /\ appr.evidence \in {"none", "open", "confirmed", "legacy_confirmed"}
  BY DEF EInv, TypeOK, Collect, Parked
<1>1. /\ run' \in [state : {"Running", "Waiting", "Ended", "Gone"}, activation : Activations,
                   attempt : Attempts, lease : {"live", "lapsed", "over"}, wait : EffectWait \cup {None}]
      /\ run'.state = "Gone" /\ run'.wait = None /\ run'.lease = "over"
  BY <1>0 DEF TypeOK, Collect
<1>2. /\ appr' \in [claimed : BOOLEAN, evidence : {"none", "open", "confirmed", "legacy_confirmed"},
                    lookup : Lookups \cup {None}, dispatcher : Attempts \cup {0}, confirmer : Attempts \cup {0}]
      /\ appr'.claimed = appr.claimed /\ appr'.evidence = "none" /\ appr'.lookup = None
  BY <1>0 DEF TypeOK, Collect
<1>3. TypeOK'
  BY <1>0, <1>1, <1>2 DEF TypeOK, Collect
<1>4. Asked'
  BY DEF EInv, Asked, Collect
<1>5. OneGrant'
  BY <1>1, <1>2 DEF EInv, OneGrant, Collect
<1>6. HeldUntilKnown'
  <2>1. CASE appr.evidence = "none"
    BY <1>0, <2>1 DEF EInv, Bound, HeldUntilKnown, Collect
  <2>2. CASE appr.evidence = "open"
    BY <2>2 DEF HeldUntilKnown, Collect, Releasable
  <2>3. CASE Confirmed(appr)
    <3>1. eff.journal = journal.output /\ journal # None
      BY <2>3 DEF EInv, Bound
    <3>2. journal.output \in Outputs
      BY <1>0, <3>1 DEF TypeOK, Journal
    <3>3. eff.journal # None
      BY <3>1, <3>2, EffectAssumption DEF ValidParameters
    <3> QED BY <3>3 DEF HeldUntilKnown, Collect
  <2> QED BY <1>0, <2>1, <2>2, <2>3 DEF Confirmed
<1>7. Bound'
  <2>1. Confirmed(appr') = FALSE
    BY <1>2 DEF Confirmed
  <2>2. journal' = None /\ eff' = eff
    BY DEF Collect
  <2>3. eff # None => appr.claimed
    BY DEF EInv, Bound
  <2> QED BY <1>1, <1>2, <1>6, <2>1, <2>2, <2>3 DEF Bound
<1>8. Parked'
  BY <1>1 DEF Parked, WakeIsOwed
<1>9. Acknowledged'
  BY <1>0, <1>1, AckFrame DEF Collect
<1>10. Told' /\ (eff' # None => Booked(eff') /\ Provenance(eff'))
  BY EvidenceFrame DEF Collect
<1> QED BY <1>3, <1>4, <1>5, <1>7, <1>8, <1>9, <1>10 DEF EInv

(* An ordinary record under the reserved key is written before any grant.  *)
LEMMA RecordLocalKeeps ==
    ASSUME EInv, NEW a \in Attempts, NEW o \in Outputs, RecordLocal(a, o)
    PROVE  EInv'
<1> DEFINE j == [kind |-> "local", lookup |-> None, output |-> o, attempt |-> a]
<1>0. /\ TypeOK /\ run.state # "Gone" /\ appr.evidence = "none" /\ eff = None /\ None \notin Journal
      /\ UNCHANGED <<run, appr, eff, keys, rows, wakes, calls, held, sent>>
  BY EffectAssumption DEF EInv, Bound, RecordLocal, LocalAllowed, ValidParameters
<1>1. j \in Journal /\ j.kind = "local" /\ j.output = o
  BY DEF Journal
<1>2. ~Confirmed(appr)
  BY <1>0 DEF Confirmed
<1>3. /\ journal' # None /\ journal' \in Journal /\ journal'.kind = "local" /\ journal'.output = o
      /\ journal # None => journal' = journal
  <2>1. CASE journal # None
    <3>1. journal' = journal /\ journal.output = o
      BY <2>1 DEF RecordLocal, MayRepeat
    <3>2. journal \in Journal /\ journal.kind \in {"effect", "local"}
      BY <1>0, <2>1 DEF TypeOK, Journal
    <3>3. journal.kind # "effect"
      BY <1>2, <2>1 DEF EInv, Bound
    <3> QED BY <2>1, <3>1, <3>2, <3>3
  <2>2. CASE journal = None
    BY <1>0, <1>1, <2>2 DEF RecordLocal
  <2> QED BY <2>1, <2>2
<1>4. TypeOK'
  BY <1>0, <1>3 DEF TypeOK
<1>5. Asked' /\ OneGrant'
  BY <1>0 DEF EInv, Asked, OneGrant
<1>6. Bound'
  <2>1. ~Confirmed(appr)' /\ journal'.kind # "effect"
    BY <1>0, <1>2, <1>3 DEF Confirmed
  <2> QED BY <1>0, <1>3, <2>1 DEF EInv, Bound, HeldUntilKnown
<1>7. Parked'
  BY <1>0 DEF EInv, Parked, WakeIsOwed, Eligible
<1>8. Acknowledged'
  <2> DEFINE m == [kind |-> "local", id |-> None, value |-> o]
  <2>1. acked' = acked \cup {m}
    BY DEF RecordLocal, Ack
  <2>2. AckHolds(m)'
    BY <1>3 DEF AckHolds
  <2>3. \A k \in acked : AckHolds(k)'
    <3>1. eff \in Retained \cup {None} /\ eff' \in Retained \cup {None} /\ Acknowledged /\ Grown(eff, eff')
      BY <1>0, GrownSame DEF EInv, TypeOK
    <3>2. run.state = "Gone" => run'.state = "Gone"
      BY <1>0
    <3> QED BY <1>3, <3>1, <3>2, AcksKept
  <2> HIDE DEF m
  <2> QED BY <2>1, <2>2, <2>3 DEF Acknowledged
<1>9. Told' /\ (eff' # None => Booked(eff') /\ Provenance(eff'))
  BY <1>0, EvidenceFrame
<1> QED BY <1>4, <1>5, <1>6, <1>7, <1>8, <1>9 DEF EInv

-----------------------------------------------------------------------------
(* A claim that is granted or replayed finds the run at work.              *)
LEMMA GrantBinds ==
    ASSUME EInv, NEW c \in calls, Claimable(c)
    PROVE  /\ c \in Call /\ run.state = "Running" /\ run.wait = None /\ (journal # None => Confirmed(appr))
           /\ Grant(c) \in [claimed : BOOLEAN, evidence : {"none", "open", "confirmed", "legacy_confirmed"},
                            lookup : Lookups \cup {None}, dispatcher : Attempts \cup {0},
                            confirmer : Attempts \cup {0}]
           /\ Grant(c).claimed = TRUE /\ Grant(c).evidence # "none" /\ Grant(c).lookup \in Lookups
           /\ Confirmed(Grant(c)) = Confirmed(appr)
<1> DEFINE A == [claimed : BOOLEAN, evidence : {"none", "open", "confirmed", "legacy_confirmed"},
                 lookup : Lookups \cup {None}, dispatcher : Attempts \cup {0}, confirmer : Attempts \cup {0}]
<1>1. c \in Call /\ c.attempt \in Attempts /\ c.lookup \in Lookups /\ appr \in A
  BY DEF EInv, TypeOK, Call
<1>2. run.state = "Running" /\ run.wait = None /\ (journal # None => Confirmed(appr))
  BY DEF EInv, Parked, Claimable, Live
<1>3. CASE appr.lookup # None
  <2>1. Grant(c) = appr /\ appr.claimed /\ appr.evidence # "none" /\ appr.lookup \in Lookups
    BY <1>1, <1>3 DEF Grant, EInv, Bound
  <2>2. appr.claimed = TRUE
    BY <1>1, <2>1
  <2> QED BY <1>1, <1>2, <2>1, <2>2
<1>4. CASE appr.lookup = None
  <2> DEFINE d == IF appr.claimed THEN appr.dispatcher ELSE c.attempt
             g == [appr EXCEPT !.dispatcher = d, !.claimed = TRUE, !.evidence = "open", !.lookup = c.lookup]
  <2>1. d \in Attempts \cup {0}
    BY <1>1
  <2>2. Grant(c) = g
    BY <1>1, <1>4 DEF Grant
  <2> HIDE DEF d
  <2>3. g \in A /\ g.claimed = TRUE /\ g.evidence = "open" /\ g.lookup = c.lookup
    BY <1>1, <2>1
  <2>4. Confirmed(appr) = FALSE
    BY <1>4 DEF EInv, Bound, Confirmed
  <2> HIDE DEF g
  <2>5. Confirmed(g) = FALSE
    BY <2>3 DEF Confirmed
  <2> QED BY <1>1, <1>2, <2>2, <2>3, <2>4, <2>5
<1> QED BY <1>3, <1>4

(* Only the claim that makes the grant can be answered with a dispatch.    *)
LEMMA AnswerKeeps ==
    ASSUME EInv, NEW c \in calls, Claimable(c), NEW m \in {"dispatch", "lookup"}, Answer(c, m),
           sent' = sent, run' = run, m = "dispatch" => ~appr.claimed,
           appr' = Grant(c) \/ (appr' = appr /\ m = "lookup")
    PROVE  /\ held' \in [Attempts -> SUBSET [id : ClaimIds \cup {None}, mode : {"dispatch", "lookup", "sent"}]]
           /\ OneGrant'
<1> DEFINE P == [id : ClaimIds \cup {None}, mode : {"dispatch", "lookup", "sent"}]
           h == [id |-> c.id, mode |-> m]
<1>0. held \in [Attempts -> SUBSET P] /\ c.attempt \in Attempts /\ c.id \in ClaimIds \cup {None}
  BY DEF EInv, TypeOK, Call
<1>1. h \in P /\ h.mode = m
  BY <1>0
<1> HIDE DEF h
<1>2. held' = held \/ held' = [held EXCEPT ![c.attempt] = held[c.attempt] \cup {h}]
  BY DEF Answer, h
<1>3. held' \in [Attempts -> SUBSET P]
  BY <1>0, <1>1, <1>2
<1>4. \A a \in Attempts : \A p \in held'[a] : p \in held[a] \/ (p = h /\ a = c.attempt)
  BY <1>0, <1>2
<1>5. OneGrant /\ run.state = "Running" /\ Grant(c).claimed = TRUE /\ Grant(c).evidence # "none"
  BY GrantBinds DEF EInv
<1>6. appr'.claimed = TRUE \/ (appr' = appr /\ m = "lookup")
  BY <1>5
<1>7. sent' \in {0, 1}
  BY <1>5 DEF OneGrant
<1>8. ~appr'.claimed => sent' = 0 /\ \A a \in Attempts : \A p \in held'[a] : p.mode = "lookup"
  BY <1>1, <1>4, <1>5, <1>6 DEF OneGrant
<1>9. \A a \in Attempts : \A p \in held'[a] : p.mode = "dispatch" => sent' = 0
  BY <1>1, <1>4, <1>5 DEF OneGrant
<1>10. \A a, b \in Attempts : \A p \in held'[a], q \in held'[b] :
         p.mode = "dispatch" /\ q.mode = "dispatch" => a = b /\ p = q
  <2> SUFFICES ASSUME NEW a \in Attempts, NEW b \in Attempts, NEW p \in held'[a], NEW q \in held'[b],
                      p.mode = "dispatch", q.mode = "dispatch"
               PROVE  a = b /\ p = q
    OBVIOUS
  <2>1. CASE m = "dispatch"
    <3>1. \A d \in Attempts : \A r \in held[d] : r.mode = "lookup"
      BY <1>5, <2>1 DEF OneGrant
    <3>2. (p = h /\ a = c.attempt) /\ (q = h /\ b = c.attempt)
      BY <1>4, <3>1
    <3> QED BY <3>2
  <2>2. CASE m = "lookup"
    <3>1. p \in held[a] /\ q \in held[b]
      BY <1>1, <1>4, <2>2
    <3> QED BY <1>5, <3>1 DEF OneGrant
  <2> QED BY <2>1, <2>2
<1>11. \A a \in Attempts : \A p \in held'[a] : p.mode # "lookup" => appr'.evidence # "none" \/ run'.state = "Gone"
  BY <1>1, <1>4, <1>5 DEF OneGrant
<1>12. OneGrant'
  BY <1>7, <1>8, <1>9, <1>10, <1>11 DEF OneGrant
<1> QED BY <1>3, <1>12

LEMMA ClaimV1Keeps ==
    ASSUME EInv, NEW c \in calls, ClaimV1(c)
    PROVE  EInv'
<1> DEFINE e == Ensure(Grant(c), None)
           f == LegacyConfirmation(e, Grant(c), journal)
<1>0. /\ Claimable(c) /\ appr' = Grant(c) /\ eff' = f /\ Answer(c, Permission(c))
      /\ calls' = calls \ {c} /\ UNCHANGED <<run, journal, keys, rows, wakes, sent, acked>>
  BY DEF ClaimV1
<1>1. /\ run.state = "Running" /\ run.wait = None /\ (journal # None => Confirmed(appr))
      /\ Grant(c) \in [claimed : BOOLEAN, evidence : {"none", "open", "confirmed", "legacy_confirmed"},
                       lookup : Lookups \cup {None}, dispatcher : Attempts \cup {0},
                       confirmer : Attempts \cup {0}]
      /\ Grant(c).claimed = TRUE /\ Grant(c).evidence # "none" /\ Grant(c).lookup \in Lookups
      /\ Confirmed(Grant(c)) = Confirmed(appr)
  BY <1>0, GrantBinds
<1>2. /\ TypeOK /\ Bound /\ eff \in Retained \cup {None} /\ (eff # None => Booked(eff) /\ Provenance(eff))
      /\ None \notin Retained /\ None \notin Outputs
  BY EffectAssumption DEF EInv, TypeOK, ValidParameters
<1>3. /\ e \in Retained /\ Booked(e) /\ Provenance(e)
      /\ eff # None => /\ e.entries = eff.entries /\ e.journal = eff.journal
                       /\ e.resolution = eff.resolution
      /\ eff = None => e.journal = None
  <2>1. Grant(c).lookup \in Lookups \cup {None}
    BY <1>1
  <2> QED BY <1>2, <2>1, EnsureBooked
<1> HIDE DEF e
<1>4. Confirmed(appr) => journal \in Journal /\ eff # None /\ eff.journal = journal.output /\ eff.journal # None
  <2>1. Confirmed(appr) => journal # None /\ eff # None /\ eff.journal = journal.output
    BY <1>2 DEF Bound
  <2>2. journal # None => journal \in Journal /\ journal.output \in Outputs
    BY <1>2 DEF TypeOK, Journal
  <2> QED BY <1>2, <2>1, <2>2
<1>5. f = e
  BY <1>1, <1>3, <1>4 DEF LegacyConfirmation
<1> HIDE DEF f
<1>6. Permission(c) \in {"dispatch", "lookup"} /\ (Permission(c) = "dispatch" => ~appr.claimed)
  BY DEF Permission
<1>7. held' \in [Attempts -> SUBSET [id : ClaimIds \cup {None}, mode : {"dispatch", "lookup", "sent"}]] /\ OneGrant'
  BY <1>0, <1>6, AnswerKeeps
<1>8. TypeOK'
  <2>1. eff' \in Retained \cup {None} /\ calls' \subseteq Call
    BY <1>0, <1>2, <1>3, <1>5 DEF TypeOK
  <2> QED BY <1>0, <1>1, <1>2, <1>7, <2>1 DEF TypeOK
<1>9. Asked'
  BY <1>0 DEF EInv, Asked
<1>10. Bound'
  <2>1. eff' # None /\ eff' = e
    BY <1>0, <1>2, <1>3, <1>5
  <2>2. journal # None => journal.kind # "local"
    BY <1>1, <1>2 DEF Bound
  <2>3. e.journal # None => Confirmed(appr)
    BY <1>1, <1>2, <1>3 DEF Bound
  <2>4. Confirmed(appr) = (journal # None /\ journal.kind = "effect")
    BY <1>2 DEF Bound
  <2>5. Confirmed(appr') = Confirmed(appr)
    BY <1>0, <1>1
  <2>6. appr'.lookup # None
    BY <1>0, <1>1, EffectAssumption DEF ValidParameters
  <2> QED BY <1>0, <1>1, <1>3, <1>4, <2>1, <2>2, <2>3, <2>4, <2>5, <2>6 DEF Bound, HeldUntilKnown
<1>11. Grown(eff, eff')
  BY <1>0, <1>2, <1>3, <1>5 DEF Grown
<1>12. Told'
  BY <1>0, <1>2, <1>3, <1>5, <1>11, ToldKept DEF EInv
<1>13. Acknowledged'
  <2>1. \A k \in acked : AckHolds(k)'
    BY <1>0, <1>2, <1>3, <1>5, <1>11, AcksKept DEF EInv
  <2> QED BY <1>0, <2>1 DEF Acknowledged
<1>14. Parked'
  BY <1>0, <1>1 DEF Parked, WakeIsOwed
<1>15. Booked(eff') /\ Provenance(eff')
  BY <1>0, <1>3, <1>5
<1> QED BY <1>7, <1>8, <1>9, <1>10, <1>12, <1>13, <1>14, <1>15 DEF EInv

-----------------------------------------------------------------------------
(* The entry of a claim is a claim, of its attempt and its worker.         *)
LEMMA ClaimEntryIs ==
    ASSUME NEW c \in Call, c.id \in ClaimIds
    PROVE  /\ ClaimEntry(c) \in EvidenceEntry /\ ClaimEntry(c).kind = "claim" /\ ClaimEntry(c).op = "claim"
           /\ ClaimEntry(c).id = c.id /\ ClaimEntry(c).attempt \in Attempts
           /\ ClaimEntry(c).worker \in Workers /\ ClaimEntry(c).mode = Permission(c)
<1>1. /\ c.attempt \in Attempts /\ c.lookup \in Lookups /\ WorkerOf[c.attempt] \in Workers /\ 0 \in Nat
      /\ Permission(c) \in {"none", "dispatch", "lookup"}
  BY DEF Call, Permission, Workers
<1>2. ClaimEntry(c) \in EvidenceEntry
  BY <1>1, Zenon DEF ClaimEntry, NoEntry, EvidenceEntry
<1>3. /\ ClaimEntry(c).kind = "claim" /\ ClaimEntry(c).op = "claim" /\ ClaimEntry(c).id = c.id
      /\ ClaimEntry(c).attempt = c.attempt /\ ClaimEntry(c).worker = WorkerOf[c.attempt]
      /\ ClaimEntry(c).mode = Permission(c)
  BY DEF ClaimEntry, NoEntry
<1> QED BY <1>1, <1>2, <1>3

(* A new claim: the copy is kept or made, and the claim is its last entry. *)
LEMMA ClaimV2Grants ==
    ASSUME EInv, NEW c \in calls, c.version = 2, Claimable(c), journal = None, ~HasEntry("claim", c.id),
           LET first == Ensure(Grant(c), IF appr.claimed THEN None ELSE c.id)
           IN appr' = Grant(c) /\ eff' = Append1(first, ClaimEntry(c)) /\ Answer(c, Permission(c)),
           calls' = calls \ {c}, UNCHANGED <<run, journal, keys, rows, wakes, sent, acked>>
    PROVE  EInv'
<1> DEFINE i == IF appr.claimed THEN None ELSE c.id
           e == Ensure(Grant(c), i)
           x == ClaimEntry(c)
           f == Append1(e, x)
<1>0. /\ appr' = Grant(c) /\ eff' = f /\ Answer(c, Permission(c))
  OBVIOUS
<1>1. /\ c \in Call /\ run.state = "Running" /\ run.wait = None /\ (journal # None => Confirmed(appr))
      /\ Grant(c) \in [claimed : BOOLEAN, evidence : {"none", "open", "confirmed", "legacy_confirmed"},
                       lookup : Lookups \cup {None}, dispatcher : Attempts \cup {0},
                       confirmer : Attempts \cup {0}]
      /\ Grant(c).claimed = TRUE /\ Grant(c).evidence # "none" /\ Grant(c).lookup \in Lookups
      /\ Confirmed(Grant(c)) = Confirmed(appr)
  BY <1>0, GrantBinds
<1>2. /\ TypeOK /\ Bound /\ eff \in Retained \cup {None} /\ (eff # None => Booked(eff) /\ Provenance(eff))
      /\ None \notin Retained /\ None \notin Outputs /\ None \notin ClaimIds
  BY EffectAssumption DEF EInv, TypeOK, ValidParameters
<1>3. c.id \in ClaimIds
  <2>1. c.id # None
    BY DEF EInv, Asked
  <2> QED BY <1>1, <2>1 DEF Call
<1>4. eff # None => appr.claimed
  BY <1>2 DEF Bound
<1>5. /\ e \in Retained /\ Booked(e) /\ (eff # None \/ i = None => Provenance(e))
      /\ eff # None => /\ e.entries = eff.entries /\ e.journal = eff.journal
                       /\ e.resolution = eff.resolution
      /\ eff = None => e.entries = <<>> /\ e.journal = None /\ (i # None => e.provenance = "verified")
  <2>1. Grant(c).lookup \in Lookups \cup {None}
    BY <1>1
  <2> QED BY <1>2, <2>1, EnsureBooked
<1>6. /\ x \in EvidenceEntry /\ x.kind = "claim" /\ x.op = "claim" /\ x.id = c.id /\ x.attempt \in Attempts
      /\ x.worker \in Workers /\ x.mode = Permission(c)
  BY <1>1, <1>3, ClaimEntryIs
<1> HIDE DEF e, x
<1>7. \A k \in OfKind(e.entries, "claim") : e.entries[k].id # x.id
  <2>1. CASE eff # None
    BY <1>5, <1>6, <2>1 DEF HasEntry, Entry, OfKind
  <2>2. CASE eff = None
    <3>1. e.entries = <<>>
      BY <1>5, <2>2
    <3> QED BY <3>1 DEF OfKind
  <2> QED BY <2>1, <2>2
<1>8. /\ f \in Retained /\ f.entries = Append(e.entries, x) /\ f.resolution = e.resolution
      /\ f.provenance = e.provenance /\ f.journal = e.journal
  BY <1>5, <1>6, Append1Fields
<1>9. Booked(f)
  BY <1>3, <1>5, <1>6, <1>7, BookedClaim
<1> HIDE DEF f
<1>10. Provenance(f)
  <2>1. CASE appr.claimed
    <3>1. x.mode # "dispatch" /\ Provenance(e)
      BY <1>5, <1>6, <2>1 DEF Permission
    <3> QED BY <1>5, <1>6, <1>8, <3>1, ProvenanceKept
  <2>2. CASE ~appr.claimed
    <3>1. eff = None /\ i = c.id /\ c.id # None /\ x.mode = "dispatch"
      BY <1>2, <1>3, <1>4, <1>6, <2>2 DEF Permission
    <3>2. f.provenance = "verified"
      BY <1>5, <1>8, <3>1
    <3>3. f.entries = Append(<<>>, x)
      BY <1>5, <1>8, <3>1
    <3>4. f.entries[1] = x /\ Len(f.entries) = 1
      BY <3>3
    <3>5. 1 \in OfKind(f.entries, "claim") /\ f.entries[1].mode = "dispatch"
      BY <1>6, <3>1, <3>4 DEF OfKind
    <3> QED BY <3>2, <3>5 DEF Provenance
  <2> QED BY <2>1, <2>2
<1>11. Permission(c) \in {"dispatch", "lookup"} /\ (Permission(c) = "dispatch" => ~appr.claimed)
  BY DEF Permission
<1>12. held' \in [Attempts -> SUBSET [id : ClaimIds \cup {None}, mode : {"dispatch", "lookup", "sent"}]] /\ OneGrant'
  BY <1>0, <1>11, AnswerKeeps
<1>13. TypeOK'
  <2>1. eff' \in Retained \cup {None} /\ calls' \subseteq Call
    BY <1>0, <1>2, <1>8 DEF TypeOK
  <2> QED BY <1>0, <1>1, <1>2, <1>12, <2>1 DEF TypeOK
<1>14. Asked'
  BY <1>0 DEF EInv, Asked
<1>15. Bound'
  <2>1. eff' # None /\ eff' = f
    BY <1>0, <1>2, <1>8
  <2>2. Confirmed(appr) = FALSE
    BY <1>2 DEF Bound
  <2>3. f.journal = None
    BY <1>1, <1>2, <1>5, <1>8, <2>2 DEF Bound
  <2>4. Confirmed(appr') = FALSE
    BY <1>0, <1>1, <2>2
  <2> QED BY <1>0, <1>1, <2>1, <2>3, <2>4 DEF Bound, HeldUntilKnown
<1>16. Grown(eff, eff')
  BY <1>0, <1>2, <1>5, <1>6, <1>8 DEF Grown
<1>17. Told'
  BY <1>0, <1>2, <1>8, <1>16, ToldKept DEF EInv
<1>18. Acknowledged'
  <2>1. \A k \in acked : AckHolds(k)'
    BY <1>0, <1>2, <1>8, <1>16, AcksKept DEF EInv
  <2> QED BY <2>1 DEF Acknowledged
<1>19. Parked'
  BY <1>1 DEF Parked, WakeIsOwed
<1> QED BY <1>0, <1>9, <1>10, <1>12, <1>13, <1>14, <1>15, <1>17, <1>18, <1>19 DEF EInv

LEMMA ClaimV2Keeps ==
    ASSUME EInv, NEW c \in calls, ClaimV2(c)
    PROVE  EInv'
<1>0. /\ c.version = 2 /\ Claimable(c) /\ calls' = calls \ {c}
      /\ UNCHANGED <<run, journal, keys, rows, wakes, sent, acked>>
  BY DEF ClaimV2
<1>1. TypeOK /\ OneGrant
  BY DEF EInv
<1>2. ASSUME appr' = appr, eff' = eff, OneGrant',
             held' \in [Attempts -> SUBSET [id : ClaimIds \cup {None}, mode : {"dispatch", "lookup", "sent"}]]
      PROVE  EInv'
  <2>1. TypeOK'
    BY <1>0, <1>1, <1>2 DEF TypeOK
  <2>2. Asked'
    BY <1>0 DEF EInv, Asked
  <2>3. /\ Bound' /\ (eff' # None => Booked(eff') /\ Provenance(eff')) /\ Parked' /\ Acknowledged' /\ Told'
    BY <1>0, <1>2, ClaimFrame
  <2> QED BY <1>2, <2>1, <2>2, <2>3 DEF EInv
<1>3. CASE journal # None
  <2>1. appr' = appr /\ eff' = eff /\ held' = held
    BY <1>3 DEF ClaimV2
  <2>2. held' \in [Attempts -> SUBSET [id : ClaimIds \cup {None}, mode : {"dispatch", "lookup", "sent"}]]
    BY <1>1, <2>1 DEF TypeOK
  <2>3. OneGrant'
    BY <1>0, <1>1, <2>1 DEF OneGrant
  <2> QED BY <1>2, <2>1, <2>2, <2>3
<1>4. CASE journal = None /\ HasEntry("claim", c.id)
  <2>1. appr' = appr /\ eff' = eff /\ Answer(c, "lookup")
    BY <1>4 DEF ClaimV2, ReplayedMode
  <2>2. /\ held' \in [Attempts -> SUBSET [id : ClaimIds \cup {None}, mode : {"dispatch", "lookup", "sent"}]]
        /\ OneGrant'
    BY <1>0, <2>1, AnswerKeeps
  <2> QED BY <1>2, <2>1, <2>2
<1>5. CASE journal = None /\ ~HasEntry("claim", c.id)
  <2>1. LET first == Ensure(Grant(c), IF appr.claimed THEN None ELSE c.id)
        IN appr' = Grant(c) /\ eff' = Append1(first, ClaimEntry(c)) /\ Answer(c, Permission(c))
    BY <1>5 DEF ClaimV2
  <2> QED BY <1>0, <1>5, <2>1, ClaimV2Grants
<1> QED BY <1>3, <1>4, <1>5

-----------------------------------------------------------------------------
(* The entry of a report is a report, of its worker.                       *)
LEMMA ObservationEntryIs ==
    ASSUME NEW op \in {"confirm", "observe"}, NEW w \in Workers, NEW id \in ClaimIds,
           NEW obs \in ObservationIds, NEW mode \in Modes, NEW o \in Outputs
    PROVE  LET x == ObservationEntry(op, w, id, obs, mode, o)
           IN /\ x \in EvidenceEntry /\ x.kind = "observation" /\ x.op = op /\ x.id = obs /\ x.claim = id
              /\ x.mode = mode /\ x.worker = w /\ x.output = o
<1> DEFINE x == ObservationEntry(op, w, id, obs, mode, o)
<1>1. /\ op \in {"claim", "legacy_confirm", "confirm", "observe", "resolve"} /\ 0 \in Nat
      /\ mode \in {"none", "dispatch", "lookup"}
  BY DEF Modes
<1>2. x \in EvidenceEntry
  BY <1>1, Zenon DEF ObservationEntry, NoEntry, EvidenceEntry, Verdicts
<1>3. x.kind = "observation" /\ x.op = op /\ x.id = obs /\ x.claim = id /\ x.mode = mode /\ x.worker = w /\ x.output = o
  BY DEF ObservationEntry, NoEntry
<1> QED BY <1>2, <1>3

(* A report that names its claim keeps the books.                          *)
LEMMA ReportBooked ==
    ASSUME eff \in Retained, Booked(eff), Provenance(eff),
           NEW op \in {"confirm", "observe"}, NEW w \in Workers, NEW id \in ClaimIds,
           NEW obs \in ObservationIds, NEW mode \in Modes, NEW o \in Outputs, NEW j \in Outputs \cup {None},
           OwnsClaim(w, id, mode), ~HasEntry("observation", obs), eff # None,
           eff.journal # None => j = eff.journal, op = "confirm" => j = o
    PROVE  LET x == ObservationEntry(op, w, id, obs, mode, o)
               f == Append1(Report([eff EXCEPT !.journal = j], o), x)
           IN /\ x \in EvidenceEntry /\ x.kind = "observation" /\ x.id = obs /\ x.output = o
              /\ f \in Retained /\ Booked(f) /\ Provenance(f) /\ f.resolution = eff.resolution
              /\ f.journal = j /\ f.entries = Append(eff.entries, x)
<1> DEFINE x == ObservationEntry(op, w, id, obs, mode, o)
           f == Append1(Report([eff EXCEPT !.journal = j], o), x)
           g == Append1(Report([eff EXCEPT !.journal = j], x.output), x)
           es == eff.entries
<1>1. /\ x \in EvidenceEntry /\ x.kind = "observation" /\ x.op = op /\ x.id = obs /\ x.claim = id
      /\ x.mode = mode /\ x.worker = w /\ x.output = o
  BY ObservationEntryIs
<1>2. f = g
  BY <1>1
<1> HIDE DEF x
<1>3. PICK i \in Entry("claim", id) : TRUE
  BY DEF OwnsClaim, HasEntry
<1>4. EntryOf("claim", id) = es[i] /\ i \in OfKind(es, "claim") /\ es[i].id = id
  BY <1>3, EntryIsOf DEF Entry, OfKind
<1>5. es[i].worker = w /\ (mode = "dispatch" => es[i].mode = "dispatch")
  BY <1>4 DEF OwnsClaim
<1>6. \A k \in OfKind(es, "observation") : es[k].id # x.id
  BY <1>1 DEF HasEntry, Entry, OfKind
<1>7. \A k \in 1 .. Len(es) : es[k].op \in {"confirm", "legacy_confirm"} => es[k].output = j
  <2>1. CASE eff.journal = None
    BY <2>1, NoneConfirmed
  <2>2. CASE eff.journal # None
    BY <2>2 DEF Booked
  <2> QED BY <2>1, <2>2
<1>8. x.op # "legacy_confirm" /\ (x.op \in {"confirm", "legacy_confirm"} => x.output = j)
  BY <1>1
<1>9. /\ g \in Retained /\ Booked(g) /\ g.resolution = eff.resolution /\ g.journal = j
      /\ g.entries = Append(es, x) /\ g.provenance = eff.provenance
  <2>1. /\ x.id \in ObservationIds /\ x.claim \in ClaimIds /\ x.worker \in Workers /\ x.output \in Outputs
        /\ \E k \in OfKind(eff.entries, "claim") :
             /\ eff.entries[k].id = x.claim /\ eff.entries[k].worker = x.worker
             /\ x.mode = "dispatch" => eff.entries[k].mode = "dispatch"
    BY <1>1, <1>4, <1>5
  <2> QED BY <1>1, <1>6, <1>7, <1>8, <2>1, BookedReport
<1> HIDE DEF f, g
<1>10. Provenance(f)
  BY <1>1, <1>2, <1>9, ProvenanceKept
<1> QED BY <1>1, <1>2, <1>9, <1>10 DEF f, x

LEMMA ObserveKeeps ==
    ASSUME EInv, NEW w \in Workers, NEW id \in ClaimIds, NEW obs \in ObservationIds, NEW mode \in Modes,
           NEW o \in Outputs, Observe(w, id, obs, mode, o)
    PROVE  EInv'
<1> DEFINE x == ObservationEntry("observe", w, id, obs, mode, o)
           m == [kind |-> "observe", id |-> obs, value |-> o]
<1>0. /\ OwnsClaim(w, id, mode) /\ acked' = acked \cup {m}
      /\ UNCHANGED <<run, appr, journal, keys, rows, wakes, calls, held, sent>>
  BY DEF Observe, Ack
<1>1. /\ TypeOK /\ Bound /\ eff \in Retained /\ eff # None /\ Booked(eff) /\ Provenance(eff)
      /\ None \notin Retained
  BY <1>0, EffectAssumption DEF EInv, TypeOK, OwnsClaim, HasEntry, ValidParameters
<1>2. /\ eff' \in Retained /\ eff' # None /\ Booked(eff') /\ Provenance(eff') /\ Grown(eff, eff')
      /\ eff'.journal = eff.journal /\ eff'.resolution = eff.resolution
      /\ \E i \in Entry("observation", obs)' : eff'.entries[i].output = o
  <2>1. CASE HasEntry("observation", obs)
    <3>1. eff' = eff /\ EntryOf("observation", obs) = x
      BY <2>1 DEF Observe, SameObservation
    <3>2. PICK i \in Entry("observation", obs) : TRUE
      BY <2>1 DEF HasEntry
    <3>3. eff.entries[i] = x /\ x.output = o
      BY <1>1, <3>1, <3>2, EntryIsOf, ObservationEntryIs
    <3>4. i \in Entry("observation", obs)'
      BY <3>1, <3>2 DEF Entry
    <3> QED BY <1>1, <3>1, <3>3, <3>4, GrownSame
  <2>2. CASE ~HasEntry("observation", obs)
    <3> DEFINE f == Append1(Report([eff EXCEPT !.journal = eff.journal], o), x)
    <3>1. [eff EXCEPT !.journal = eff.journal] = eff
      BY <1>1 DEF Retained
    <3>2. eff' = f
      BY <2>2, <3>1 DEF Observe
    <3>3. eff.journal \in Outputs \cup {None}
      BY <1>1 DEF Retained
    <3>4. /\ x \in EvidenceEntry /\ x.kind = "observation" /\ x.id = obs /\ x.output = o
          /\ f \in Retained /\ Booked(f) /\ Provenance(f) /\ f.resolution = eff.resolution
          /\ f.journal = eff.journal /\ f.entries = Append(eff.entries, x)
      <4> DEFINE op == "observe"  j == eff.journal
      <4>1. op \in {"confirm", "observe"} /\ (op = "confirm" => j = o)
        OBVIOUS
      <4>2. x = ObservationEntry(op, w, id, obs, mode, o) /\ f = Append1(Report([eff EXCEPT !.journal = j], o), x)
        OBVIOUS
      <4>3. j \in Outputs \cup {None} /\ (eff.journal # None => j = eff.journal) /\ j = eff.journal
        BY <3>3
      <4> HIDE DEF op, j, x, f
      <4> QED BY <1>0, <1>1, <2>2, <4>1, <4>2, <4>3, ReportBooked
    <3> HIDE DEF f, x
    <3>5. Len(eff.entries) \in Nat /\ Len(f.entries) = Len(eff.entries) + 1 /\ f.entries[Len(eff.entries) + 1] = x
      BY <1>1, <3>4, Appended DEF Retained
    <3>6. Len(eff.entries) + 1 \in Entry("observation", obs)' /\ eff'.entries[Len(eff.entries) + 1].output = o
      BY <3>2, <3>4, <3>5 DEF Entry
    <3>7. Grown(eff, eff')
      BY <1>1, <3>2, <3>4 DEF Grown
    <3> QED BY <1>1, <3>2, <3>4, <3>6, <3>7
  <2> QED BY <2>1, <2>2
<1>3. TypeOK'
  BY <1>0, <1>1, <1>2 DEF TypeOK
<1>4. Asked' /\ OneGrant'
  BY <1>0 DEF EInv, Asked, OneGrant
<1>5. Bound'
  BY <1>0, <1>1, <1>2 DEF Bound, Confirmed, HeldUntilKnown
<1>6. Parked'
  BY <1>0, <1>1, <1>2 DEF EInv, Parked, WakeIsOwed, Eligible
<1>7. Told'
  BY <1>0, <1>1, <1>2, ToldKept DEF EInv
<1>8. Acknowledged'
  <2>1. \A k \in acked : AckHolds(k)'
    BY <1>0, <1>1, <1>2, AcksKept DEF EInv
  <2>2. AckHolds(m)'
    BY <1>2 DEF AckHolds
  <2> HIDE DEF m
  <2> QED BY <1>0, <2>1, <2>2 DEF Acknowledged
<1> QED BY <1>2, <1>3, <1>4, <1>5, <1>6, <1>7, <1>8 DEF EInv

-----------------------------------------------------------------------------
(* What a first confirmation writes beside the evidence.                   *)
LEMMA ConfirmedByIs ==
    ASSUME TypeOK, NEW a \in Attempts
    PROVE  /\ ConfirmedBy(a) \in [claimed : BOOLEAN, evidence : {"none", "open", "confirmed", "legacy_confirmed"},
                                  lookup : Lookups \cup {None}, dispatcher : Attempts \cup {0},
                                  confirmer : Attempts \cup {0}]
           /\ ConfirmedBy(a).claimed = appr.claimed /\ ConfirmedBy(a).lookup = appr.lookup
           /\ Confirmed(ConfirmedBy(a)) = TRUE
<1>1. /\ ConfirmedBy(a) \in [claimed : BOOLEAN, evidence : {"none", "open", "confirmed", "legacy_confirmed"},
                             lookup : Lookups \cup {None}, dispatcher : Attempts \cup {0},
                             confirmer : Attempts \cup {0}]
      /\ ConfirmedBy(a).claimed = appr.claimed /\ ConfirmedBy(a).evidence = "confirmed"
      /\ ConfirmedBy(a).lookup = appr.lookup
  BY DEF TypeOK, ConfirmedBy
<1> QED BY <1>1 DEF Confirmed

LEMMA JournalledIs ==
    ASSUME NEW a \in Attempts, NEW l \in Lookups, NEW o \in Outputs
    PROVE  /\ Journalled(a, l, o) \in Journal /\ Journalled(a, l, o) # None
           /\ Journalled(a, l, o).kind = "effect" /\ Journalled(a, l, o).output = o
<1>1. Journalled(a, l, o) \in Journal /\ Journalled(a, l, o).kind = "effect" /\ Journalled(a, l, o).output = o
  BY DEF Journalled, Journal
<1> QED BY <1>1, EffectAssumption DEF ValidParameters

(* A confirmation is kept once the journal, the approval and the copy say  *)
(* the same output.                                                        *)
LEMMA ConfirmationKeeps ==
    ASSUME EInv, NEW o \in Outputs, NEW obs,
           eff' \in Retained, Booked(eff'), Provenance(eff'), Grown(eff, eff'), eff'.journal = o,
           eff # None => eff'.resolution = eff.resolution,
           run.state # "Gone", appr.lookup \in Lookups,
           appr' \in [claimed : BOOLEAN, evidence : {"none", "open", "confirmed", "legacy_confirmed"},
                      lookup : Lookups \cup {None}, dispatcher : Attempts \cup {0}, confirmer : Attempts \cup {0}],
           appr'.claimed = appr.claimed, appr'.lookup = appr.lookup, Confirmed(appr') = TRUE,
           journal' \in Journal, journal' # None, journal'.kind = "effect", journal'.output = o,
           journal # None => journal' = journal,
           acked' = acked \cup {[kind |-> "confirm", id |-> obs, value |-> o]},
           UNCHANGED <<run, keys, rows, wakes, calls, held, sent>>
    PROVE  EInv'
<1> DEFINE m == [kind |-> "confirm", id |-> obs, value |-> o]
<1>0. /\ TypeOK /\ Bound /\ Parked /\ eff \in Retained \cup {None} /\ eff' # None
      /\ None \notin Outputs /\ None \notin Lookups
  BY EffectAssumption DEF EInv, TypeOK, ValidParameters
<1>1. appr.lookup # None /\ appr.claimed /\ appr'.evidence # "none"
  BY <1>0 DEF Bound, Confirmed
<1>2. TypeOK'
  BY <1>0 DEF TypeOK
<1>3. Asked'
  BY DEF EInv, Asked
<1>4. OneGrant'
  BY <1>1 DEF EInv, OneGrant
<1>5. Bound'
  <2>1. Confirmed(appr') = (journal' # None /\ journal'.kind = "effect")
    OBVIOUS
  <2> QED BY <1>0, <1>1, <2>1 DEF Bound, HeldUntilKnown
<1>6. Parked'
  <2>1. run.state = "Waiting" => eff # None /\ eff'.resolution = eff.resolution
    BY <1>0 DEF Parked
  <2> QED BY <1>0, <2>1 DEF Parked, WakeIsOwed, Eligible
<1>7. Told'
  BY <1>0, ToldKept DEF EInv
<1>8. Acknowledged'
  <2>1. \A k \in acked : AckHolds(k)'
    BY <1>0, AcksKept DEF EInv
  <2>2. AckHolds(m)'
    BY <1>0 DEF AckHolds
  <2>3. acked' = acked \cup {m}
    OBVIOUS
  <2> HIDE DEF m
  <2> QED BY <2>1, <2>2, <2>3 DEF Acknowledged
<1> QED BY <1>2, <1>3, <1>4, <1>5, <1>6, <1>7, <1>8 DEF EInv

LEMMA ConfirmV1Keeps ==
    ASSUME EInv, NEW a \in Attempts, NEW l \in Lookups, NEW o \in Outputs, ConfirmV1(a, l, o)
    PROVE  EInv'
<1>0. /\ run.state # "Gone" /\ appr.lookup = l /\ appr.lookup \in Lookups
      /\ acked' = acked \cup {[kind |-> "confirm", id |-> None, value |-> o]}
      /\ UNCHANGED <<run, keys, rows, wakes, calls, held, sent>>
  BY DEF ConfirmV1, Ack
<1>1. /\ TypeOK /\ Bound /\ eff \in Retained \cup {None} /\ (eff # None => Booked(eff) /\ Provenance(eff))
      /\ None \notin Retained /\ None \notin Outputs
  BY EffectAssumption DEF EInv, TypeOK, ValidParameters
<1>2. CASE Confirmed(appr)
  <2> DEFINE e == Ensure(appr, None)
  <2>1. /\ journal.output = o /\ appr' = appr /\ journal' = journal
        /\ eff' = LegacyConfirmation(e, appr, journal)
    BY <1>2 DEF ConfirmV1, MayRepeat
  <2>2. /\ journal # None /\ journal \in Journal /\ journal.kind = "effect" /\ eff # None /\ eff.journal = o
    BY <1>1, <1>2, <2>1 DEF Bound, TypeOK
  <2>3. /\ e \in Retained /\ Booked(e) /\ Provenance(e) /\ e.entries = eff.entries /\ e.journal = eff.journal
        /\ e.resolution = eff.resolution
    BY <1>0, <1>1, <2>2, EnsureBooked
  <2> HIDE DEF e
  <2>4. eff' = e
    BY <1>1, <2>1, <2>2, <2>3 DEF LegacyConfirmation
  <2>5. Grown(eff, eff')
    BY <1>1, <2>3, <2>4 DEF Grown
  <2>6. Confirmed(appr') = TRUE
    BY <1>2, <2>1 DEF Confirmed
  <2>7. appr' \in [claimed : BOOLEAN, evidence : {"none", "open", "confirmed", "legacy_confirmed"},
                   lookup : Lookups \cup {None}, dispatcher : Attempts \cup {0}, confirmer : Attempts \cup {0}]
    BY <1>1, <2>1 DEF TypeOK
  <2>8. /\ eff' \in Retained /\ Booked(eff') /\ Provenance(eff') /\ eff'.journal = o
        /\ eff # None => eff'.resolution = eff.resolution
    BY <2>2, <2>3, <2>4
  <2> QED BY <1>0, <2>1, <2>2, <2>5, <2>6, <2>7, <2>8, ConfirmationKeeps
<1>3. CASE ~Confirmed(appr)
  <2> DEFINE e == Ensure(appr', None)
             f == LegacyConfirmation(e, appr', journal')
  <2>1. /\ journal = None /\ journal' = Journalled(a, l, o) /\ appr' = ConfirmedBy(a) /\ eff' = f
    BY <1>3 DEF ConfirmV1
  <2>2. /\ appr' \in [claimed : BOOLEAN, evidence : {"none", "open", "confirmed", "legacy_confirmed"},
                      lookup : Lookups \cup {None}, dispatcher : Attempts \cup {0},
                      confirmer : Attempts \cup {0}]
        /\ appr'.claimed = appr.claimed /\ appr'.lookup = appr.lookup /\ Confirmed(appr') = TRUE
        /\ journal' \in Journal /\ journal' # None /\ journal'.kind = "effect" /\ journal'.output = o
    <3> HIDE DEF e, f
    <3>1. /\ ConfirmedBy(a) \in [claimed : BOOLEAN, evidence : {"none", "open", "confirmed", "legacy_confirmed"},
                                  lookup : Lookups \cup {None}, dispatcher : Attempts \cup {0},
                                  confirmer : Attempts \cup {0}]
          /\ ConfirmedBy(a).claimed = appr.claimed /\ ConfirmedBy(a).lookup = appr.lookup
          /\ Confirmed(ConfirmedBy(a)) = TRUE
      BY <1>1, ConfirmedByIs
    <3>2. /\ Journalled(a, l, o) \in Journal /\ Journalled(a, l, o) # None
          /\ Journalled(a, l, o).kind = "effect" /\ Journalled(a, l, o).output = o
      BY JournalledIs
    <3> QED BY <2>1, <3>1, <3>2
  <2>3. appr'.lookup \in Lookups \cup {None}
    BY <1>0, <2>2
  <2>4. /\ e \in Retained /\ Booked(e) /\ Provenance(e)
        /\ eff # None => /\ e.entries = eff.entries /\ e.journal = eff.journal
                         /\ e.resolution = eff.resolution
        /\ eff = None => e.journal = None
    BY <1>1, <2>3, EnsureBooked
  <2>5. e.journal = None
    BY <1>0, <1>1, <1>3, <2>4 DEF Bound
  <2> HIDE DEF e
  <2>6. /\ f \in Retained /\ Booked(f) /\ Provenance(f) /\ f.resolution = e.resolution /\ f.journal = o
        /\ f.entries = e.entries \/ \E x \in EvidenceEntry : f.entries = Append(e.entries, x)
    BY <2>2, <2>4, <2>5, LegacyBooked
  <2> HIDE DEF f
  <2>7. Grown(eff, eff')
    <3>1. ASSUME eff # None
          PROVE  /\ eff' # None /\ eff.journal = None
                 /\ eff'.entries = eff.entries \/ \E x \in EvidenceEntry : eff'.entries = Append(eff.entries, x)
      BY <1>1, <2>1, <2>4, <2>5, <2>6, <3>1
    <3> QED BY <3>1 DEF Grown
  <2>8. /\ eff' \in Retained /\ Booked(eff') /\ Provenance(eff') /\ eff'.journal = o
        /\ eff # None => eff'.resolution = eff.resolution
    BY <2>1, <2>4, <2>6
  <2> QED BY <1>0, <2>1, <2>2, <2>7, <2>8, ConfirmationKeeps
<1> QED BY <1>2, <1>3

-----------------------------------------------------------------------------
LEMMA ConfirmV2Keeps ==
    ASSUME EInv, NEW a \in Attempts, NEW id \in ClaimIds, NEW obs \in ObservationIds, NEW mode \in Modes,
           NEW l \in Lookups, NEW o \in Outputs, ConfirmV2(a, id, obs, mode, l, o)
    PROVE  EInv'
<1> DEFINE w == WorkerOf[a]
           x == ObservationEntry("confirm", w, id, obs, mode, o)
           m == [kind |-> "confirm", id |-> obs, value |-> o]
<1>0. /\ OwnsClaim(w, id, mode) /\ acked' = acked \cup {m} /\ w \in Workers
      /\ UNCHANGED <<run, keys, rows, wakes, calls, held, sent>>
  BY DEF ConfirmV2, Ack, Workers
<1>1. /\ TypeOK /\ Bound /\ eff \in Retained /\ eff # None /\ Booked(eff) /\ Provenance(eff)
      /\ None \notin Retained /\ None \notin Outputs
  BY <1>0, EffectAssumption DEF EInv, TypeOK, OwnsClaim, HasEntry, ValidParameters
<1>2. CASE HasEntry("observation", obs)
  <2>1. appr' = appr /\ journal' = journal /\ eff' = eff /\ EntryOf("observation", obs) = x
    BY <1>2 DEF ConfirmV2, SameObservation
  <2>2. PICK i \in Entry("observation", obs) : TRUE
    BY <1>2 DEF HasEntry
  <2>3. eff.entries[i] = x /\ i \in 1 .. Len(eff.entries)
    BY <1>1, <2>1, <2>2, EntryIsOf DEF Entry
  <2>4. x.op = "confirm" /\ x.output = o
    BY DEF ObservationEntry, NoEntry
  <2> HIDE DEF x
  <2>5. eff.journal = o
    BY <1>1, <2>3, <2>4 DEF Booked
  <2>6. TypeOK' /\ Asked' /\ OneGrant'
    BY <1>0, <1>1, <2>1 DEF EInv, TypeOK, Asked, OneGrant
  <2>7. Bound' /\ Parked'
    BY <1>0, <2>1 DEF EInv, Bound, Confirmed, HeldUntilKnown, Parked, WakeIsOwed, Eligible
  <2>8. Told' /\ (eff' # None => Booked(eff') /\ Provenance(eff'))
    BY <1>0, <2>1, EvidenceFrame
  <2>9. Acknowledged'
    <3>1. \A k \in acked : AckHolds(k)'
      BY <1>0, <1>1, <2>1, AcksKept, GrownSame DEF EInv
    <3>2. AckHolds(m)'
      BY <1>1, <2>1, <2>5 DEF AckHolds
    <3> HIDE DEF m
    <3> QED BY <1>0, <3>1, <3>2 DEF Acknowledged
  <2> QED BY <2>6, <2>7, <2>8, <2>9 DEF EInv
<1>3. CASE ~HasEntry("observation", obs)
  <2> DEFINE f == Append1(Report([eff EXCEPT !.journal = o], o), x)
  <2>1. /\ Live(a) /\ appr.lookup = l /\ ConfirmsJournal(a, o)
        /\ journal' = (IF journal = None THEN Journalled(a, l, o) ELSE journal)
        /\ appr' = (IF journal = None THEN ConfirmedBy(a) ELSE appr)
        /\ eff' = Append1(Report([eff EXCEPT !.journal = journal'.output], o), x)
    BY <1>3 DEF ConfirmV2
  <2>2. run.state = "Running" /\ run.state # "Gone"
    BY <2>1 DEF Live
  <2>3. /\ appr' \in [claimed : BOOLEAN, evidence : {"none", "open", "confirmed", "legacy_confirmed"},
                      lookup : Lookups \cup {None}, dispatcher : Attempts \cup {0},
                      confirmer : Attempts \cup {0}]
        /\ appr'.claimed = appr.claimed /\ appr'.lookup = appr.lookup /\ Confirmed(appr') = TRUE
        /\ journal' \in Journal /\ journal' # None /\ journal'.kind = "effect" /\ journal'.output = o
        /\ journal # None => journal' = journal
    <3> HIDE DEF x, m, w
    <3>1. CASE journal = None
      <4>1. /\ ConfirmedBy(a) \in [claimed : BOOLEAN, evidence : {"none", "open", "confirmed", "legacy_confirmed"},
                                    lookup : Lookups \cup {None}, dispatcher : Attempts \cup {0},
                                    confirmer : Attempts \cup {0}]
            /\ ConfirmedBy(a).claimed = appr.claimed /\ ConfirmedBy(a).lookup = appr.lookup
            /\ Confirmed(ConfirmedBy(a)) = TRUE
        BY <1>1, ConfirmedByIs
      <4>2. /\ Journalled(a, l, o) \in Journal /\ Journalled(a, l, o) # None
            /\ Journalled(a, l, o).kind = "effect" /\ Journalled(a, l, o).output = o
        BY JournalledIs
      <4>3. appr' = ConfirmedBy(a) /\ journal' = Journalled(a, l, o)
        BY <2>1, <3>1
      <4> QED BY <3>1, <4>1, <4>2, <4>3
    <3>2. CASE journal # None
      <4>1. appr' = appr /\ journal' = journal /\ journal.output = o /\ Confirmed(appr)
        BY <2>1, <3>2 DEF ConfirmsJournal
      <4>2. journal \in Journal /\ journal.kind = "effect"
        BY <1>1, <3>2, <4>1 DEF TypeOK, Bound
      <4>3. Confirmed(appr) = TRUE
        BY <4>1 DEF Confirmed
      <4>4. appr \in [claimed : BOOLEAN, evidence : {"none", "open", "confirmed", "legacy_confirmed"},
                      lookup : Lookups \cup {None}, dispatcher : Attempts \cup {0},
                      confirmer : Attempts \cup {0}]
        BY <1>1 DEF TypeOK
      <4> QED BY <3>2, <4>1, <4>2, <4>3, <4>4
    <3> QED BY <3>1, <3>2
  <2>4. eff' = f
    BY <2>1, <2>3
  <2>5. eff.journal # None => o = eff.journal
    <3>1. eff.journal # None => Confirmed(appr)
      BY <1>1, <2>2 DEF Bound
    <3>2. Confirmed(appr) => journal # None /\ eff.journal = journal.output
      BY <1>1 DEF Bound
    <3>3. journal # None => journal.output = o
      BY <2>1 DEF ConfirmsJournal
    <3> QED BY <3>1, <3>2, <3>3
  <2>6. /\ x \in EvidenceEntry
        /\ f \in Retained /\ Booked(f) /\ Provenance(f) /\ f.resolution = eff.resolution
        /\ f.journal = o /\ f.entries = Append(eff.entries, x)
    <3> DEFINE op == "confirm"  j == o
    <3>1. op \in {"confirm", "observe"} /\ (op = "confirm" => j = o) /\ j = o
      OBVIOUS
    <3>2. x = ObservationEntry(op, w, id, obs, mode, o) /\ f = Append1(Report([eff EXCEPT !.journal = j], o), x)
      OBVIOUS
    <3>3. j \in Outputs \cup {None} /\ (eff.journal # None => j = eff.journal)
      BY <2>5
    <3> HIDE DEF op, j, x, f, w
    <3> QED BY <1>0, <1>1, <1>3, <3>1, <3>2, <3>3, ReportBooked
  <2> HIDE DEF f, x
  <2>7. Grown(eff, eff')
    BY <1>1, <2>4, <2>5, <2>6 DEF Grown
  <2>8. /\ eff' \in Retained /\ Booked(eff') /\ Provenance(eff') /\ eff'.journal = o
        /\ eff # None => eff'.resolution = eff.resolution
    BY <2>4, <2>6
  <2> QED BY <1>0, <2>1, <2>2, <2>3, <2>7, <2>8, ConfirmationKeeps
<1> QED BY <1>2, <1>3

-----------------------------------------------------------------------------
LEMMA ResolveKeeps ==
    ASSUME EInv, NEW c \in ResolutionCommand, ValidResolution(c), Resolve(c)
    PROVE  EInv'
<1> DEFINE x == AssessmentEntry(c)
           v == [verdict |-> c.verdict, actor |-> c.actor]
           m == [kind |-> "resolve", id |-> c.id, value |-> v]
<1>0. /\ acked' = acked \cup {m} /\ UNCHANGED <<run, appr, journal, keys, wakes, calls, held, sent>>
  BY DEF Resolve, Ack
<1>1. /\ TypeOK /\ Bound /\ Parked /\ eff \in Retained /\ eff # None /\ Booked(eff) /\ Provenance(eff)
      /\ None \notin Retained /\ None \notin ResolutionIds
  BY EffectAssumption DEF EInv, TypeOK, Resolve, ValidParameters
<1>2. x.kind = "assessment" /\ x.id = c.id /\ x.output = c.verdict /\ x.worker = c.actor
  BY DEF AssessmentEntry, NoEntry
<1> HIDE DEF x
<1>3. /\ eff' \in Retained /\ eff' # None /\ Booked(eff') /\ Provenance(eff') /\ Grown(eff, eff')
      /\ eff'.journal = eff.journal /\ (eff.resolution # None => eff'.resolution # None)
      /\ \E i \in Entry("assessment", c.id)' : eff'.entries[i] = x
      /\ rows' \in [Activations -> {"none", "open", "done"}]
      /\ run.state = "Waiting" /\ Eligible(run.wait, eff') => rows'[run.wait.parking] = "open"
  <2>1. CASE HasEntry("assessment", c.id)
    <3>1. eff' = eff /\ rows' = rows /\ EntryOf("assessment", c.id) = x
      BY <2>1 DEF Resolve, x
    <3>2. PICK i \in Entry("assessment", c.id) : TRUE
      BY <2>1 DEF HasEntry
    <3>3. eff.entries[i] = x
      BY <1>1, <3>1, <3>2, EntryIsOf
    <3>4. i \in Entry("assessment", c.id)'
      BY <3>1, <3>2 DEF Entry
    <3>5. /\ rows' \in [Activations -> {"none", "open", "done"}]
          /\ run.state = "Waiting" /\ Eligible(run.wait, eff') => rows'[run.wait.parking] = "open"
      BY <1>1, <3>1 DEF TypeOK, Parked, WakeIsOwed
    <3> QED BY <1>1, <3>1, <3>3, <3>4, <3>5, GrownSame
  <2>2. CASE ~HasEntry("assessment", c.id)
    <3> DEFINE f == Assessed(eff, c)
    <3>1. /\ eff.revision = c.expected /\ eff.resolution = c.after /\ eff' = f
          /\ rows' = [p \in Activations |-> IF p \in WakeOwed(eff') THEN "open" ELSE rows[p]]
      BY <2>2 DEF Resolve, Current
    <3>2. /\ x \in EvidenceEntry /\ f \in Retained /\ f.entries = Append(eff.entries, x)
          /\ f.resolution = c.id /\ f.provenance = eff.provenance /\ f.journal = eff.journal
      BY <1>1, AssessedFields DEF x
    <3>3. Booked(f)
      <4>1. \A i \in OfKind(eff.entries, "assessment") : eff.entries[i].id # c.id
        BY <1>1, <2>2 DEF HasEntry, Entry, OfKind
      <4>2. c.after # c.id
        BY DEF ValidResolution
      <4> QED BY <1>1, <3>1, <4>1, <4>2, BookedAssessed
    <3> HIDE DEF f
    <3>4. Provenance(f)
      BY <1>1, <1>2, <3>2, ProvenanceKept
    <3>5. Len(eff.entries) \in Nat /\ Len(f.entries) = Len(eff.entries) + 1 /\ f.entries[Len(eff.entries) + 1] = x
      BY <1>1, <3>2, Appended DEF Retained
    <3>6. Len(eff.entries) + 1 \in Entry("assessment", c.id)' /\ eff'.entries[Len(eff.entries) + 1] = x
      BY <1>2, <3>1, <3>5 DEF Entry
    <3>7. Grown(eff, eff')
      BY <1>1, <3>1, <3>2 DEF Grown
    <3>8. rows' \in [Activations -> {"none", "open", "done"}]
      BY <1>1, <3>1 DEF TypeOK
    <3>9. run.state = "Waiting" /\ Eligible(run.wait, eff') => rows'[run.wait.parking] = "open"
      <4> SUFFICES ASSUME run.state = "Waiting", Eligible(run.wait, eff')
                   PROVE  rows'[run.wait.parking] = "open"
        OBVIOUS
      <4>1. run.wait # None /\ run.wait \in EffectWait
        BY <1>1 DEF Parked, TypeOK
      <4>2. run.wait.parking \in Activations /\ run.wait.parking \in WakeOwed(eff')
        BY <4>1 DEF EffectWait, WakeOwed
      <4> QED BY <3>1, <4>2
    <3>10. f.resolution # None
      BY <1>1, <3>2 DEF ResolutionCommand
    <3> QED BY <1>1, <3>1, <3>2, <3>3, <3>4, <3>6, <3>7, <3>8, <3>9, <3>10
  <2> QED BY <2>1, <2>2
<1>4. TypeOK'
  BY <1>0, <1>1, <1>3 DEF TypeOK
<1>5. Asked' /\ OneGrant'
  BY <1>0 DEF EInv, Asked, OneGrant
<1>6. Bound'
  BY <1>0, <1>1, <1>3 DEF Bound, Confirmed, HeldUntilKnown
<1>7. Parked'
  <2>1. WakeIsOwed'
    BY <1>0, <1>3 DEF WakeIsOwed, Eligible
  <2> QED BY <1>0, <1>1, <1>3, <2>1 DEF Parked
<1>8. Told'
  BY <1>0, <1>1, <1>3, ToldKept DEF EInv
<1>9. Acknowledged'
  <2>1. \A k \in acked : AckHolds(k)'
    BY <1>0, <1>1, <1>3, AcksKept DEF EInv
  <2>2. m.kind = "resolve" /\ m.id = c.id /\ m.value.verdict = c.verdict /\ m.value.actor = c.actor
    OBVIOUS
  <2> HIDE DEF m
  <2>3. AckHolds(m)'
    BY <1>2, <1>3, <2>2 DEF AckHolds
  <2> QED BY <1>0, <2>1, <2>3 DEF Acknowledged
<1> QED BY <1>3, <1>4, <1>5, <1>6, <1>7, <1>8, <1>9 DEF EInv

(* A resumed activation is told what the evidence says now.                *)
LEMMA SelectedTells ==
    ASSUME eff \in Retained, Booked(eff), NEW wait \in EffectWait, Eligible(wait, eff)
    PROVE  /\ Selected(wait) \in Wake /\ Selected(wait).revision \in 1 .. Len(eff.entries) + 1
           /\ Tells(SubSeq(eff.entries, 1, Selected(wait).revision - 1), Selected(wait))
<1> DEFINE es == eff.entries  ass == OfKind(es, "assessment")  s == Selected(wait)
<1>0. es \in Seq(EvidenceEntry) /\ Len(es) \in Nat /\ eff.conflict \in Nat /\ eff.revision = Len(es) + 1
  BY DEF Retained, Booked
<1>1. eff.resolution # None /\ eff.resolution # wait.after /\ wait.after \in ResolutionIds \cup {None}
  BY DEF Eligible, EffectWait
<1>2. PICK g \in ass : IsGreatest(g, ass) /\ eff.resolution = es[g].id
  BY <1>1 DEF Booked, AssessmentBooked
<1>3. Greatest(ass) = g
  BY <1>0, <1>2, KindsAreIndices, GreatestIs
<1>4. es[g].output \in Verdicts /\ es[g].id \in ResolutionIds /\ g \in 1 .. Len(es)
  BY <1>2 DEF Booked, Shaped, OfKind
<1>5. EntryOf("assessment", eff.resolution) = es[g]
  <2>1. g \in Entry("assessment", eff.resolution)
    BY <1>2 DEF Entry, OfKind
  <2> QED BY <2>1, EntryIsOf
<1>6. eff.conflict = FirstConflict(es)
  BY ConflictFollows DEF Booked
<1>7. Outcome(eff) = IF FirstConflict(es) # 0 THEN [kind |-> "disputed", value |-> None, at |-> FirstConflict(es)]
                     ELSE [kind |-> "assessed", value |-> es[g].output, at |-> 0]
  BY <1>5, <1>6 DEF Outcome
<1>8. Outcome(eff) \in [kind : {"disputed", "assessed"}, value : Verdicts \cup {None}, at : Nat]
  <2>1. FirstConflict(es) \in Nat
    BY <1>0, <1>6
  <2> HIDE DEF es
  <2> QED BY <1>4, <1>7, <2>1
<1>9. s = [id |-> eff.resolution, revision |-> eff.revision, outcome |-> Outcome(eff), after |-> wait.after]
  BY DEF Selected
<1>10. s.id = eff.resolution /\ s.revision = Len(es) + 1 /\ s.outcome = Outcome(eff) /\ s.after = wait.after
  BY <1>0, <1>9
<1>11. s \in Wake
  BY <1>0, <1>1, <1>2, <1>4, <1>8, <1>9 DEF Wake
<1> HIDE DEF s
<1>12. SubSeq(es, 1, s.revision - 1) = es
  <2>1. s.revision - 1 = Len(es)
    BY <1>0, <1>10
  <2> QED BY <1>0, <2>1, SubSeqFull
<1>13. Tells(es, s)
  BY <1>1, <1>2, <1>3, <1>7, <1>10 DEF Tells
<1>14. s.revision \in 1 .. Len(es) + 1
  BY <1>0, <1>10
<1> QED BY <1>11, <1>12, <1>13, <1>14 DEF s

LEMMA ResumptionTold ==
    ASSUME EInv, eff' = eff, eff # None, NEW p \in Activations, NEW wait \in EffectWait, Eligible(wait, eff),
           wakes' = [wakes EXCEPT ![p] = Selected(wait)]
    PROVE  wakes' \in [Activations -> Wake \cup {None}] /\ Told'
<1> DEFINE s == Selected(wait)
<1>1. eff \in Retained /\ Booked(eff) /\ wakes \in [Activations -> Wake \cup {None}]
  BY DEF EInv, TypeOK
<1>2. /\ s \in Wake /\ s.revision \in 1 .. Len(eff.entries) + 1
      /\ Tells(SubSeq(eff.entries, 1, s.revision - 1), s)
  BY <1>1, SelectedTells
<1> HIDE DEF s
<1>3. wakes' = [wakes EXCEPT ![p] = s]
  BY DEF s
<1>4. wakes' \in [Activations -> Wake \cup {None}] /\ wakes'[p] = s
      /\ \A q \in Activations : q # p => wakes'[q] = wakes[q]
  BY <1>1, <1>2, <1>3
<1>5. ASSUME NEW q \in Activations, wakes'[q] # None
      PROVE  /\ eff' # None /\ wakes'[q].revision \in 1 .. Len(eff'.entries) + 1
             /\ Tells(SubSeq(eff'.entries, 1, wakes'[q].revision - 1), wakes'[q])
  <2>1. CASE q = p
    BY <1>2, <1>4, <2>1
  <2>2. CASE q # p
    <3>1. wakes'[q] = wakes[q]
      BY <1>4, <2>2
    <3>2. /\ eff # None /\ wakes[q].revision \in 1 .. Len(eff.entries) + 1
          /\ Tells(SubSeq(eff.entries, 1, wakes[q].revision - 1), wakes[q])
      BY <1>5, <3>1, ToldIs DEF EInv
    <3> QED BY <3>1, <3>2
  <2> QED BY <2>1, <2>2
<1>6. Told'
  BY <1>5 DEF Told, WakeTellsEvidence, Tells
<1> QED BY <1>4, <1>6

-----------------------------------------------------------------------------
LEMMA ParkKeeps ==
    ASSUME EInv, NEW k \in WaitKeys, NEW after \in ResolutionIds \cup {None}, Park(k, after)
    PROVE  EInv'
<1> DEFINE wait == [key |-> k, parking |-> run.activation, after |-> after]
           R == [state : {"Running", "Waiting", "Ended", "Gone"}, activation : Activations,
                 attempt : Attempts, lease : {"live", "lapsed", "over"}, wait : EffectWait \cup {None}]
<1>0. /\ run.state = "Running" /\ run.lease = "over" /\ run.activation < MaxActivation
      /\ UNCHANGED <<appr, journal, eff, rows, calls, held, sent, acked>>
  BY DEF Park
<1>1. /\ TypeOK /\ run \in R /\ run.wait = None /\ MaxActivation \in Nat /\ None \notin EffectWait
      /\ keys \subseteq WaitKeys
  BY <1>0, EffectAssumption DEF EInv, TypeOK, Parked, ValidParameters
<1>2. wait \in EffectWait /\ wait.parking = run.activation
  BY <1>1 DEF EffectWait
<1>3. run.activation \in Activations /\ run.activation + 1 \in Activations
  BY <1>0, <1>1 DEF Activations
<1>4. ASSUME run' \in R, run'.state # "Gone", keys' \subseteq WaitKeys, Parked', Told',
             wakes' \in [Activations -> Wake \cup {None}]
      PROVE  EInv'
  <2>1. TypeOK'
    BY <1>0, <1>1, <1>4 DEF TypeOK
  <2>2. /\ Asked' /\ OneGrant' /\ Bound' /\ (eff' # None => Booked(eff') /\ Provenance(eff'))
        /\ Acknowledged'
    BY <1>0, <1>4, RunFrame
  <2> QED BY <1>4, <2>1, <2>2 DEF EInv
<1>5. CASE eff = None \/ k \in keys \/ (after # None /\ ~HasEntry("assessment", after))
  <2>1. run' = [run EXCEPT !.state = "Ended"] /\ keys' = keys /\ wakes' = wakes
    BY <1>5 DEF Park
  <2>2. run' \in R /\ run'.state = "Ended" /\ run'.wait = None
    BY <1>1, <2>1
  <2>3. Parked'
    BY <2>2 DEF Parked, WakeIsOwed
  <2>4. Told' /\ wakes' \in [Activations -> Wake \cup {None}]
    BY <1>0, <1>1, <2>1, EvidenceFrame DEF TypeOK
  <2> QED BY <1>1, <1>4, <2>1, <2>2, <2>3, <2>4
<1>6. CASE ~(eff = None \/ k \in keys \/ (after # None /\ ~HasEntry("assessment", after)))
  <2>1. keys' = keys \cup {k} /\ eff # None
    BY <1>6 DEF Park
  <2>2. CASE Eligible(wait, eff)
    <3>1. run' = Resumed(run, run.activation + 1) /\ wakes' = [wakes EXCEPT ![run.activation + 1] = Selected(wait)]
      BY <1>6, <2>2 DEF Park
    <3> HIDE DEF wait
    <3>2. run' \in R /\ run'.state = "Running" /\ run'.wait = None
      BY <1>1, <1>3, <3>1 DEF Resumed
    <3>3. Parked'
      BY <3>2 DEF Parked, WakeIsOwed
    <3>4. Told' /\ wakes' \in [Activations -> Wake \cup {None}]
      BY <1>0, <1>2, <1>3, <2>1, <2>2, <3>1, ResumptionTold
    <3> QED BY <1>1, <1>4, <2>1, <3>2, <3>3, <3>4
  <2>3. CASE ~Eligible(wait, eff)
    <3>1. run' = [run EXCEPT !.state = "Waiting", !.wait = wait] /\ wakes' = wakes
      BY <1>6, <2>3 DEF Park
    <3> HIDE DEF wait
    <3>2. /\ run' \in R /\ run'.state = "Waiting" /\ run'.wait = wait /\ run'.lease = "over"
          /\ run'.activation = run.activation
      BY <1>0, <1>1, <1>2, <3>1
    <3>3. ~Eligible(run'.wait, eff')
      BY <1>0, <2>3, <3>2
    <3>4. Parked'
      <4>1. WakeIsOwed'
        BY <3>3 DEF WakeIsOwed
      <4>2. wait # None
        BY <1>1, <1>2
      <4> QED BY <1>0, <1>2, <2>1, <3>2, <4>1, <4>2 DEF Parked
    <3>5. Told' /\ wakes' \in [Activations -> Wake \cup {None}]
      BY <1>0, <1>1, <3>1, EvidenceFrame DEF TypeOK
    <3> QED BY <1>1, <1>4, <2>1, <3>2, <3>4, <3>5
  <2> QED BY <2>2, <2>3
<1> QED BY <1>5, <1>6

LEMMA ApplyWaitKeeps ==
    ASSUME EInv, NEW p \in Activations, ApplyWait(p)
    PROVE  EInv'
<1> DEFINE R == [state : {"Running", "Waiting", "Ended", "Gone"}, activation : Activations,
                 attempt : Attempts, lease : {"live", "lapsed", "over"}, wait : EffectWait \cup {None}]
<1>0. /\ rows' = [rows EXCEPT ![p] = "done"] /\ UNCHANGED <<appr, journal, eff, keys, calls, held, sent, acked>>
  BY DEF ApplyWait
<1>1. /\ TypeOK /\ run \in R /\ rows \in [Activations -> {"none", "open", "done"}] /\ Parked
      /\ MaxActivation \in Nat
  BY EffectAssumption DEF EInv, TypeOK, ValidParameters
<1>2. /\ rows' \in [Activations -> {"none", "open", "done"}]
      /\ \A q \in Activations : q # p => rows'[q] = rows[q]
  BY <1>0, <1>1
<1>3. CASE run.state = "Waiting" /\ run.wait # None /\ run.wait.parking = p
  <2>1. /\ Eligible(run.wait, eff) /\ run' = Resumed(run, p + 1)
        /\ wakes' = [wakes EXCEPT ![p + 1] = Selected(run.wait)]
    BY <1>3 DEF ApplyWait
  <2>2. eff # None /\ run.wait \in EffectWait /\ p < MaxActivation
    BY <1>1, <1>3 DEF Parked
  <2>3. p + 1 \in Activations
    BY <1>1, <2>2 DEF Activations
  <2>4. run' \in R /\ run'.state = "Running" /\ run'.wait = None
    BY <1>1, <2>1, <2>3 DEF Resumed
  <2>5. wakes' \in [Activations -> Wake \cup {None}] /\ Told'
    BY <1>0, <2>1, <2>2, <2>3, ResumptionTold
  <2>6. TypeOK'
    BY <1>0, <1>1, <1>2, <2>4, <2>5 DEF TypeOK
  <2>7. Parked'
    BY <2>4 DEF Parked, WakeIsOwed
  <2>8. /\ Asked' /\ OneGrant' /\ Bound' /\ (eff' # None => Booked(eff') /\ Provenance(eff'))
        /\ Acknowledged'
    BY <1>0, <1>3, <2>4, RunFrame
  <2> QED BY <2>5, <2>6, <2>7, <2>8 DEF EInv
<1>4. CASE ~(run.state = "Waiting" /\ run.wait # None /\ run.wait.parking = p)
  <2>1. run' = run /\ wakes' = wakes
    BY <1>4 DEF ApplyWait
  <2>2. TypeOK'
    BY <1>0, <1>1, <1>2, <2>1 DEF TypeOK
  <2>3. WakeIsOwed'
    <3> SUFFICES ASSUME run.state = "Waiting", Eligible(run.wait, eff)
                 PROVE  rows'[run.wait.parking] = "open"
      BY <1>0, <2>1 DEF WakeIsOwed
    <3>1. run.wait # None /\ run.wait \in EffectWait
      BY <1>1 DEF Parked
    <3>2. run.wait.parking \in Activations /\ run.wait.parking # p
      BY <1>4, <3>1 DEF EffectWait
    <3>3. rows[run.wait.parking] = "open"
      BY <1>1 DEF Parked, WakeIsOwed
    <3> QED BY <1>2, <3>2, <3>3
  <2>4. Parked'
    BY <1>0, <1>1, <2>1, <2>3 DEF Parked
  <2>5. Asked' /\ OneGrant'
    BY <1>0, <2>1 DEF EInv, Asked, OneGrant
  <2>6. Bound'
    BY <1>0, <2>1 DEF EInv, Bound, Confirmed, HeldUntilKnown
  <2>7. Acknowledged'
    BY <1>0, <2>1, AckFrame
  <2>8. Told' /\ (eff' # None => Booked(eff') /\ Provenance(eff'))
    BY <1>0, <2>1, EvidenceFrame
  <2> QED BY <2>2, <2>4, <2>5, <2>6, <2>7, <2>8 DEF EInv
<1> QED BY <1>3, <1>4

-----------------------------------------------------------------------------
LEMMA FirstAttempt == 1 \in Attempts
<1>1. IsFiniteSet(Attempts) /\ Attempts = 1 .. Cardinality(Attempts) /\ Attempts # {}
  BY EffectAssumption DEF ValidParameters
<1> DEFINE n == Cardinality(Attempts)
<1>2. n \in Nat /\ Attempts = 1 .. n /\ 1 .. n # {}
  BY <1>1, FS_CardinalityType
<1> HIDE DEF n
<1> QED BY <1>2

(* The occurrence as the program finds it, whatever its origin.            *)
LEMMA OriginKeeps ==
    ASSUME NEW o \in Origins, appr = InitAppr(o), journal = InitJournal(o),
           eff = (IF o \in {"fresh", "fence"} THEN None
                  ELSE LegacyConfirmation(NewEffect("attempt", InitAppr(o).lookup), InitAppr(o), InitJournal(o)))
    PROVE  /\ appr \in [claimed : BOOLEAN, evidence : {"none", "open", "confirmed", "legacy_confirmed"},
                        lookup : Lookups \cup {None}, dispatcher : Attempts \cup {0},
                        confirmer : Attempts \cup {0}]
           /\ journal \in Journal \cup {None} /\ eff \in Retained \cup {None}
           /\ eff # None => Booked(eff) /\ Provenance(eff)
           /\ (appr.claimed = FALSE) = (o = "fresh")
           /\ appr.lookup # None \/ appr.evidence # "none" \/ eff # None => appr.claimed
           /\ appr.lookup # None => appr.evidence # "none"
           /\ Confirmed(appr) = (journal # None /\ journal.kind = "effect")
           /\ journal # None /\ journal.kind = "local" => appr.evidence = "none"
           /\ Confirmed(appr) => appr.lookup # None /\ eff # None /\ eff.journal = journal.output
           /\ eff # None /\ eff.journal # None => Confirmed(appr)
           /\ appr.evidence = "none" => eff = None
<1>0. /\ o \in {"fresh", "fence", "attempt", "confirmed"} /\ 1 \in Attempts
      /\ None \notin Lookups /\ None \notin Outputs /\ None \notin Journal /\ None \notin Retained
      /\ o = "confirmed" => Lookups # {} /\ Outputs # {}
  BY FirstAttempt, EffectAssumption DEF ValidParameters
<1> DEFINE l == IF o = "confirmed" THEN CHOOSE x \in Lookups : TRUE ELSE None
           out == CHOOSE x \in Outputs : TRUE
           e == NewEffect("attempt", l)
<1>1. l \in Lookups \cup {None} /\ (o = "confirmed" => l \in Lookups /\ out \in Outputs) /\ (o # "confirmed" => l = None)
  BY <1>0
<1>2. /\ appr.claimed = (o # "fresh") /\ appr.lookup = l
      /\ appr.evidence = (CASE o = "attempt" -> "open" [] o = "confirmed" -> "legacy_confirmed" [] OTHER -> "none")
      /\ appr.dispatcher = (IF o \in {"attempt", "confirmed"} THEN 1 ELSE 0)
      /\ appr.confirmer = (IF o = "confirmed" THEN 1 ELSE 0)
  BY DEF InitAppr
<1>3. appr = [claimed |-> o # "fresh",
              evidence |-> CASE o = "attempt" -> "open" [] o = "confirmed" -> "legacy_confirmed" [] OTHER -> "none",
              lookup |-> l,
              dispatcher |-> IF o \in {"attempt", "confirmed"} THEN 1 ELSE 0,
              confirmer |-> IF o = "confirmed" THEN 1 ELSE 0]
  BY DEF InitAppr
<1>4. o = "confirmed" => journal = [kind |-> "effect", lookup |-> l, output |-> out, attempt |-> 1]
  BY DEF InitJournal
<1>5. o # "confirmed" => journal = None
  BY DEF InitJournal
<1>6. o \in {"attempt", "confirmed"} => eff = LegacyConfirmation(e, appr, journal)
  BY <1>2
<1> HIDE DEF l, out, e
<1>7. /\ appr \in [claimed : BOOLEAN, evidence : {"none", "open", "confirmed", "legacy_confirmed"},
                   lookup : Lookups \cup {None}, dispatcher : Attempts \cup {0}, confirmer : Attempts \cup {0}]
  BY <1>0, <1>1, <1>3
<1>8. e \in Retained /\ Booked(e) /\ Provenance(e) /\ e.journal = None
  BY <1>1, BookedNew DEF e, NewEffect
<1>9. CASE o \in {"fresh", "fence"}
  <2>1. eff = None /\ journal = None /\ appr.evidence = "none" /\ appr.lookup = None
    BY <1>1, <1>2, <1>5, <1>9
  <2>2. Confirmed(appr) = FALSE
    BY <2>1 DEF Confirmed
  <2> QED BY <1>2, <1>7, <2>1, <2>2
<1>10. CASE o = "attempt"
  <2>1. journal = None /\ appr.evidence = "open" /\ appr.lookup = None /\ appr.claimed = TRUE
    BY <1>1, <1>2, <1>5, <1>10
  <2>2. Confirmed(appr) = FALSE
    BY <2>1 DEF Confirmed
  <2>3. eff = e
    BY <1>6, <1>10, <2>2 DEF LegacyConfirmation
  <2> QED BY <1>0, <1>2, <1>7, <1>8, <1>10, <2>1, <2>2, <2>3
<1>11. CASE o = "confirmed"
  <2>1. appr.evidence = "legacy_confirmed" /\ appr.lookup = l /\ l \in Lookups /\ appr.claimed = TRUE
    BY <1>1, <1>2, <1>11
  <2>2. Confirmed(appr) = TRUE
    BY <2>1 DEF Confirmed
  <2>3. journal \in Journal /\ journal.kind = "effect"
    BY <1>0, <1>1, <1>4, <1>11 DEF Journal
  <2>4. eff \in Retained /\ Booked(eff) /\ Provenance(eff) /\ eff.journal = journal.output
    BY <1>6, <1>8, <1>11, <2>2, <2>3, LegacyBooked
  <2> QED BY <1>0, <1>7, <1>11, <2>1, <2>2, <2>3, <2>4
<1> QED BY <1>0, <1>9, <1>10, <1>11

LEMMA InitInvariant == Init => EInv
<1> SUFFICES ASSUME Init PROVE EInv
  OBVIOUS
<1>1. PICK o \in Origins :
        /\ appr = InitAppr(o) /\ journal = InitJournal(o)
        /\ eff = (IF o \in {"fresh", "fence"} THEN None
                  ELSE LegacyConfirmation(NewEffect("attempt", InitAppr(o).lookup), InitAppr(o), InitJournal(o)))
        /\ sent = IF o = "fresh" THEN 0 ELSE 1
  BY DEF Init
<1>2. /\ appr \in [claimed : BOOLEAN, evidence : {"none", "open", "confirmed", "legacy_confirmed"},
                   lookup : Lookups \cup {None}, dispatcher : Attempts \cup {0}, confirmer : Attempts \cup {0}]
      /\ journal \in Journal \cup {None} /\ eff \in Retained \cup {None}
      /\ eff # None => Booked(eff) /\ Provenance(eff)
      /\ (appr.claimed = FALSE) = (o = "fresh")
      /\ appr.lookup # None \/ appr.evidence # "none" \/ eff # None => appr.claimed
      /\ appr.lookup # None => appr.evidence # "none"
      /\ Confirmed(appr) = (journal # None /\ journal.kind = "effect")
      /\ journal # None /\ journal.kind = "local" => appr.evidence = "none"
      /\ Confirmed(appr) => appr.lookup # None /\ eff # None /\ eff.journal = journal.output
      /\ eff # None /\ eff.journal # None => Confirmed(appr)
      /\ appr.evidence = "none" => eff = None
  BY <1>1, OriginKeeps
<1>3. /\ run = [state |-> "Running", activation |-> 1, attempt |-> 1, lease |-> "live", wait |-> None]
      /\ keys = {} /\ rows = [p \in Activations |-> "none"] /\ wakes = [p \in Activations |-> None]
      /\ calls = {} /\ held = [a \in Attempts |-> {}] /\ acked = {}
  BY DEF Init
<1>4. 1 \in Activations /\ 1 \in Attempts
  BY FirstAttempt, EffectAssumption DEF ValidParameters, Activations
<1>5. TypeOK
  BY <1>1, <1>2, <1>3, <1>4 DEF TypeOK
<1>6. OneGrant
  <2>1. \A a \in Attempts : held[a] = {}
    BY <1>3
  <2>2. ~appr.claimed => sent = 0
    BY <1>1, <1>2
  <2> QED BY <1>1, <2>1, <2>2 DEF OneGrant
<1>7. Bound
  BY <1>2, <1>3 DEF Bound, HeldUntilKnown
<1>8. Parked
  BY <1>3 DEF Parked, WakeIsOwed
<1>9. Asked /\ Acknowledged /\ Told
  BY <1>3 DEF Asked, Acknowledged, Told, WakeTellsEvidence
<1> QED BY <1>2, <1>5, <1>6, <1>7, <1>8, <1>9 DEF EInv

LEMMA NextInvariant == EInv /\ [Next]_vars => EInv'
<1> SUFFICES ASSUME EInv, [Next]_vars PROVE EInv'
  OBVIOUS
<1>1. ASSUME NEW a \in Attempts, NEW v \in Versions, NEW id \in ClaimIds \cup {None}, NEW l \in Lookups,
             Ask(a, v, id, l)
      PROVE  EInv'
  BY <1>1, AskKeeps
<1>2. ASSUME NEW c \in calls, StopWaiting(c) \/ ClaimV1(c) \/ ClaimV2(c) \/ ClaimRefused(c)
      PROVE  EInv'
  BY <1>2, StopWaitingKeeps, ClaimV1Keeps, ClaimV2Keeps, ClaimRefusedKeeps
<1>3. ASSUME NEW a \in Attempts, NEW h \in held[a], Dispatch(a, h)
      PROVE  EInv'
  BY <1>3, DispatchKeeps
<1>4. ASSUME NEW a \in Attempts, NEW l \in Lookups, NEW o \in Outputs, ConfirmV1(a, l, o)
      PROVE  EInv'
  BY <1>4, ConfirmV1Keeps
<1>5. ASSUME NEW a \in Attempts, NEW id \in ClaimIds, NEW obs \in ObservationIds, NEW mode \in Modes,
             NEW l \in Lookups, NEW o \in Outputs, ConfirmV2(a, id, obs, mode, l, o)
      PROVE  EInv'
  BY <1>5, ConfirmV2Keeps
<1>6. ASSUME NEW w \in Workers, NEW id \in ClaimIds, NEW obs \in ObservationIds, NEW mode \in Modes,
             NEW o \in Outputs, Observe(w, id, obs, mode, o)
      PROVE  EInv'
  BY <1>6, ObserveKeeps
<1>7. ASSUME NEW a \in Attempts, NEW o \in Outputs, RecordLocal(a, o)
      PROVE  EInv'
  BY <1>7, RecordLocalKeeps
<1>8. ASSUME NEW c \in ResolutionCommand, ValidResolution(c), Resolve(c)
      PROVE  EInv'
  BY <1>8, ResolveKeeps
<1>9. ASSUME NEW k \in WaitKeys, NEW after \in ResolutionIds \cup {None}, Park(k, after)
      PROVE  EInv'
  BY <1>9, ParkKeeps
<1>10. ASSUME NEW p \in Activations, ApplyWait(p)
       PROVE  EInv'
  BY <1>10, ApplyWaitKeeps
<1>11. CASE Settle \/ Lapse \/ Recover \/ End \/ Collect
  BY <1>11, SettleKeeps, LapseKeeps, RecoverKeeps, EndKeeps, CollectKeeps
<1>12. CASE UNCHANGED vars
  <2>1. UNCHANGED <<run, appr, journal, eff, keys, rows, wakes, calls, held, sent, acked>>
    BY <1>12 DEF vars
  <2>2. TypeOK' /\ Asked' /\ OneGrant'
    BY <2>1 DEF EInv, TypeOK, Asked, OneGrant
  <2>3. /\ Bound' /\ (eff' # None => Booked(eff') /\ Provenance(eff')) /\ Parked' /\ Acknowledged' /\ Told'
    BY <2>1, ClaimFrame
  <2> QED BY <2>2, <2>3 DEF EInv
<1> QED BY <1>1, <1>2, <1>3, <1>4, <1>5, <1>6, <1>7, <1>8, <1>9, <1>10, <1>11, <1>12 DEF Next

(* The inductive invariant: one grant, the approval, the journal and the   *)
(* retained copy bound to each other, the books of the evidence in order,  *)
(* waits owed their wake-up, and every acknowledgement and every wake-up   *)
(* backed by an entry.                                                     *)
THEOREM EffectInvariant == Spec => []EInv
<1>1. Init => EInv
  BY InitInvariant
<1>2. EInv /\ [Next]_vars => EInv'
  BY NextInvariant
<1> QED BY <1>1, <1>2, PTL DEF Spec

(* The approved effect is sound for any attempts, workers, claims, reports *)
(* and assessments: it is dispatched at most once, an ordinary record and  *)
(* a grant exclude each other, what was acknowledged stands, the summary   *)
(* follows from the entries and can be read back, no assessment was made   *)
(* on a stale read, and no wait misses its assessment (approved_effects.rs,*)
(* effect_evidence.rs, effect_resolution.rs, effect_wait.rs).              *)
THEOREM EffectSoundCorrect == Spec => []EffectSound
<1>1. EInv => EffectSound
  BY InvariantSound
<1> QED BY <1>1, EffectInvariant, PTL

(* A journal record is never replaced, only collected with its run: no     *)
(* retry, recovery or later confirmation rewrites it (append_local).       *)
THEOREM JournalStandsCorrect == Spec => JournalStands
<1>1. EInv /\ [Next]_vars => [JournalStep]_vars
  <2> SUFFICES ASSUME EInv, [Next]_vars, journal # None
               PROVE  journal' = journal \/ run'.state = "Gone"
    BY DEF JournalStep
  <2>1. CASE UNCHANGED vars
    BY <2>1 DEF vars
  <2>2. ASSUME NEW a \in Attempts, NEW l \in Lookups, NEW o \in Outputs, ConfirmV1(a, l, o)
        PROVE  journal' = journal
    BY <2>2 DEF ConfirmV1
  <2>3. ASSUME NEW a \in Attempts, NEW id \in ClaimIds, NEW obs \in ObservationIds, NEW mode \in Modes,
               NEW l \in Lookups, NEW o \in Outputs, ConfirmV2(a, id, obs, mode, l, o)
        PROVE  journal' = journal
    BY <2>3 DEF ConfirmV2
  <2>4. ASSUME NEW a \in Attempts, NEW o \in Outputs, RecordLocal(a, o)
        PROVE  journal' = journal
    BY <2>4 DEF RecordLocal
  <2>5. CASE Collect
    <3>1. run \in [state : {"Running", "Waiting", "Ended", "Gone"}, activation : Activations,
                   attempt : Attempts, lease : {"live", "lapsed", "over"}, wait : EffectWait \cup {None}]
      BY DEF EInv, TypeOK
    <3> QED BY <2>5, <3>1 DEF Collect
  <2>6. ASSUME \/ \E a \in Attempts, v \in Versions, id \in ClaimIds \cup {None}, l \in Lookups : Ask(a, v, id, l)
               \/ \E c \in calls : StopWaiting(c) \/ ClaimV1(c) \/ ClaimV2(c) \/ ClaimRefused(c)
               \/ \E a \in Attempts : \E h \in held[a] : Dispatch(a, h)
        PROVE  journal' = journal
    BY <2>6 DEF Ask, StopWaiting, ClaimV1, ClaimV2, ClaimRefused, Dispatch
  <2>7. ASSUME \/ \E w \in Workers, id \in ClaimIds, obs \in ObservationIds, mode \in Modes, o \in Outputs :
                    Observe(w, id, obs, mode, o)
               \/ \E c \in {r \in ResolutionCommand : ValidResolution(r)} : Resolve(c)
               \/ \E k \in WaitKeys, after \in ResolutionIds \cup {None} : Park(k, after)
               \/ \E p \in Activations : ApplyWait(p)
               \/ Settle \/ Lapse \/ Recover \/ End
        PROVE  journal' = journal
    BY <2>7 DEF Observe, Resolve, Park, ApplyWait, Settle, Lapse, Recover, End
  <2> QED BY <2>1, <2>2, <2>3, <2>4, <2>5, <2>6, <2>7 DEF Next
<1> QED BY <1>1, EffectInvariant, PTL DEF Spec, JournalStands
=============================================================================
