--------------------------- MODULE OperatorAccess ---------------------------
(***************************************************************************)
(* What the orchestrator lets a verified principal do, and what it leaves  *)
(* on record of it: the credentials of callers and of the console's        *)
(* browser, the policy of every route, the steps of a request between its  *)
(* authorization and its answer, and the ledger of operators.              *)
(*                                                                         *)
(* A credential may expire between any two steps, by the clock of the      *)
(* server or by that of the database.  Decisions are committed together    *)
(* with the event that attributes them; a payload leaves the server only   *)
(* after the event that names it was committed.                            *)
(***************************************************************************)
EXTENDS Naturals, FiniteSets

CONSTANTS
    Requests,
    Credentials,
    Principal,   \* Principal[c]: subject, class, capabilities and expiry of a credential
    Pages,       \* tabs of the browser that holds the cookie
    Messages,    \* what may be asked: a route, one of its paths, a target, a command,
                 \* the bearer, the page that asks and whether its origin is ours
    Targets,     \* what decisions are about: an occurrence, or a receipt's identity
    Legacy,      \* approvals decided before credentials were configured
    Commands,    \* contents of decisions
    MaxTime,     \* bound: both clocks
    None

-----------------------------------------------------------------------------
(* Routes.  `guard' says what the handler does around the service it       *)
(* calls: "recheck" the credential before (the database then checks it     *)
(* too, by its own clock) or "after", and "mark" success as committed.     *)

Entry(name, policy, read, effect, guard, paths) ==
    [name |-> name, policy |-> policy, read |-> read, effect |-> effect,
     guard |-> guard, paths |-> paths]

Api  == {"api"}
Both == {"api", "console"}

Look(n, guard, paths)       == Entry(n, "Metadata", None, "none", guard, paths)
Reveal(n, k, guard, paths)  == Entry(n, "Sensitive", k, "none", guard, paths)
Govern(n, paths)            == Entry(n, "ResourceControl", None, "decide", {"recheck", "mark"}, paths)
Change(n, policy, paths)    == Entry(n, policy, None, "work", {}, paths)
Work(n, guard)              == Entry(n, "Worker", None, "work", guard, Api)

QueueRoutes ==
    {Govern(n, Both) : n \in {"queue-policies/put", "queue-policies/release"}}
    \cup {Look(n, {"recheck"}, Both) : n \in {"queue-policies/inspect", "queue-policies/list"}}
    \cup {Reveal("queue-policies/holds", "QueueHolds", {"recheck"}, Both)}
    \cup {Work("queue-policies/close", {"recheck", "mark"})}

ResourcePut == Govern("resources/put", Both)

ResourceRoutes ==
    {ResourcePut, Govern("admissions/release", Api)}
    \cup {Look(n, {"recheck"}, Both) : n \in {"resources/query", "resources/decisions", "resources/list"}}
    \cup {Reveal("resources/sources", "ResourceSources", {"recheck"}, Both),
          Reveal("admissions/inspect", "AdmissionInspect", {"recheck"}, Both)}
    \cup {Work(n, {"recheck", "mark"}) : n \in {"admissions/start", "admissions/finish"}}

TaskAdmissionRoutes ==
    {Work(n, {"recheck", "mark"}) : n \in
        {"task-admissions/sessions", "task-admissions/start", "task-admissions/close"}}
    \cup {Reveal("task-admissions/inspect", "TaskAdmissionInspect", {"recheck"}, Both),
          Govern("task-admissions/release", Api)}

ProviderRoutes ==
    {Work(n, {"recheck", "mark"}) : n \in
        {"provider-operations/claim", "provider-operations/report", "provider-operations/observe",
         "provider-probes/context", "provider-probes/report"}}

ProviderAdmissionRoutes ==
    {Work(n, {"recheck", "mark"}) : n \in {"provider-admissions/start", "provider-admissions/report"}}

BudgetRoutes == {Look(n, {"recheck"}, Both) : n \in {"budgets/inspect", "budgets/entries"}}

CompletionRoutes ==
    {Change(n, "Control", Api) : n \in {"completion-subscriptions", "completion-subscriptions/retry"}}
    \cup {Look("completion-subscriptions/status", {}, Api)}

ApprovalRoutes ==
    {Look("approvals/inbox", {}, Both), Reveal("approvals/inspect", "ApprovalInspect", {}, Both),
     Reveal("approvals/list", "ApprovalList", {}, Both)}

DecideRoute ==
    Entry("approvals/decide", "Approval", "ApprovalDecision", "decide", {"recheck", "mark"}, Both)

ResolveRoute ==
    Entry("approved-effects/resolve", "EffectResolution", None, "decide", {"recheck", "mark"}, Both)

EvidenceRoutes ==
    {Work(n, {"recheck"}) : n \in
        {"approved-effects/v2/claim", "approved-effects/v2/confirm", "approved-effects/v2/observe"}}
    \cup {Look("approved-effects/inbox", {}, Both),
          Reveal("approved-effects/inspect", "EffectInspect", {}, Both)}

AuditRoutes == {Look("audit/events", {"recheck", "after"}, Both)}

WorkflowRoutes ==
    {Change("workflows", "Submit", Both)}
    \cup {Change(n, "Control", Both) : n \in {"workflows/cancel", "workflows/events"}}
    \cup {Work(n, {}) : n \in
            {"workflows/activations/context", "workflows/approved-effects/claim",
             "workflows/approved-effects/confirm", "workflows/forks", "workflows/local-results"}}

WorkflowReads ==
    {Look("workflows/status", {}, Both), Reveal("workflows/result", "WorkflowResult", {}, Both)}

TaskReads ==
    {Look(n, {}, Both) : n \in {"tasks", "tasks/status", "tasks/history"}}
    \cup {Reveal("tasks/inspect", "TaskInspect", {}, Both), Reveal("tasks/result", "TaskResult", {}, Both)}
    \cup {Entry("attempts/inspect", "Worker", None, "none", {}, Api)}

TaskRoutes ==
    {Change("tasks/submit", "Submit", Both), Change("tasks/cancel", "Control", Both)}

SessionRoutes == {Work(n, {}) : n \in {"worker-sessions", "worker-sessions/extend"}}

DeliveryRoutes ==
    {Work(n, {}) : n \in
        {"acquisitions", "dispatch/claim", "renewals", "settlements", "quiescence-confirmations",
         "worker-observations"}}

ConsoleReads ==
    {Entry("config", "ConsoleConfig", None, "none", {}, {"console"}),
     Reveal("workflows/input", "WorkflowInput", {}, {"console"}),
     Reveal("workflows/local-steps/inspect", "LocalStepInspect", {}, {"console"})}
    \cup {Look(n, {}, {"console"}) : n \in
            {"executions", "executions/ancestry", "workflows/explorer", "attempts/observations",
             "tasks/attempts", "attempts/inspect", "workflows", "workflows/inspect",
             "workflows/activations", "workflows/children", "workflows/waits", "workflows/history",
             "workflows/local-steps", "programs/catalog", "programs", "programs/versions",
             "programs/inspect", "workers", "workers/inspect"}}

(* Uploads have permits and a deadline of their own, which are those of    *)
(* ProgramPublication; what matters here is who may ask.                   *)
PublicationRoutes ==
    {Look("programs/publication-capabilities", {}, Api), Change("programs/artifact", "Publish", Api)}

ConsoleChanges == {Change("programs/register", "Publish", {"console"})}

RouteTable ==
    QueueRoutes \cup ResourceRoutes \cup TaskAdmissionRoutes \cup ProviderRoutes
    \cup ProviderAdmissionRoutes \cup BudgetRoutes \cup CompletionRoutes \cup ApprovalRoutes
    \cup {DecideRoute, ResolveRoute} \cup EvidenceRoutes \cup AuditRoutes \cup WorkflowRoutes
    \cup WorkflowReads \cup TaskReads \cup TaskRoutes \cup SessionRoutes \cup DeliveryRoutes
    \cup PublicationRoutes \cup ConsoleReads \cup ConsoleChanges

(* Policies whose responses carry payloads.                                *)
Disclosing == {"Sensitive", "Approval"}

(* Reads that may find that there is no payload yet.                       *)
PendingReads == {"TaskResult", "WorkflowResult"}

-----------------------------------------------------------------------------
(* Principals.                                                             *)

ValidCapabilities(class, capabilities) ==
    /\ capabilities # {}
    /\ "ResourceControl" \in capabilities => class = "operator"
    /\ \A x \in capabilities : (class = "worker") <=> (x = "WorkerExecute")

WellFormed(m) ==
    /\ m.route \in RouteTable /\ m.path \in m.route.paths /\ m.target \in Targets
    /\ m.bearer \in Credentials \cup {None} /\ m.page \in Pages \cup {None}

AccessAssumption ==
    /\ \A c \in Credentials : ValidCapabilities(Principal[c].class, Principal[c].capabilities)
    /\ \A m \in Messages : WellFormed(m)
    /\ Legacy \subseteq Targets /\ MaxTime \in Nat

(* The capabilities of which a policy wants all.                           *)
Needs(policy) ==
    CASE policy = "Metadata"         -> {"MetadataRead"}
      [] policy = "Sensitive"        -> {"SensitiveRead"}
      [] policy = "Submit"           -> {"ExecutionSubmit"}
      [] policy = "Control"          -> {"ExecutionControl"}
      [] policy = "Publish"          -> {"ProgramPublish"}
      [] policy = "Approval"         -> {"SensitiveRead", "ApprovalDecide"}
      [] policy = "EffectResolution" -> {"EffectResolve"}
      [] policy = "ResourceControl"  -> {"ResourceControl"}
      [] policy = "Worker"           -> {"WorkerExecute"}
      [] OTHER                       -> {}

Permits(policy, p) ==
    /\ (p.class = "worker") <=> (policy = "Worker")
    /\ Needs(policy) \subseteq p.capabilities
    /\ policy = "ConsoleConfig" => p.capabilities \cap {"MetadataRead", "SensitiveRead"} # {}

Current(c, now) == now < Principal[c].expires

(* The event of an accepted decision, and that of a released payload.      *)
Acceptance(r, q, now) ==
    [kind |-> "accepted", id |-> r, credential |-> q.who, read |-> None,
     target |-> q.msg.target, command |-> q.msg.command, at |-> now]

Observation(r, q, now) ==
    [kind |-> "response", id |-> r, credential |-> q.who, read |-> q.msg.route.read,
     target |-> q.msg.target, command |-> None, at |-> now]

(* What the console shows of a credential, and what attribution compares.  *)
Actor(c) == [subject |-> Principal[c].subject, class |-> Principal[c].class]

-----------------------------------------------------------------------------
VARIABLES
    clock,      \* the clocks of the server and of the database
    cookie,     \* the credential the browser holds
    shown,      \* the actor each page shows
    asked,      \* each request
    decisions,  \* what was decided of each target, and with which credential
    open,       \* targets that may still be decided
    events,     \* the ledger of operators
    done        \* requests whose operation was committed

vars == <<clock, cookie, shown, asked, decisions, open, events, done>>

(* What the server finds out about a credential by itself.                 *)
Verified(c) == c # None /\ Current(c, clock.server)

Unsent == [stage |-> "unsent", msg |-> None, cookie |-> None, expected |-> None, who |-> None,
           pending |-> FALSE, committed |-> FALSE, reply |-> None]

Init ==
    /\ clock = [server |-> 0, db |-> 0] /\ cookie = None /\ shown = [p \in Pages |-> None]
    /\ asked = [r \in Requests |-> Unsent]
    /\ \E old \in [Legacy -> Commands] :
           decisions = [t \in Targets |-> IF t \in Legacy THEN [command |-> old[t], by |-> None]
                                                          ELSE None]
    /\ open = Targets \ Legacy /\ events = {} /\ done = {}

Tick(side) ==
    /\ clock[side] < MaxTime
    /\ clock' = [clock EXCEPT ![side] = @ + 1]
    /\ UNCHANGED <<cookie, shown, asked, decisions, open, events, done>>

(* A deadline, a cancellation or a newer revision closes a target.         *)
Lapse(t) ==
    /\ t \in open /\ decisions[t] = None
    /\ open' = open \ {t}
    /\ UNCHANGED <<clock, cookie, shown, asked, decisions, events, done>>

-----------------------------------------------------------------------------
(* The browser.                                                            *)

BrowserSteps == <<clock, asked, decisions, open, events, done>>

(* A login replaces whatever cookie there was, for every page; the page    *)
(* that asked may be gone when the answer arrives.                         *)
SignIn(p, c) ==
    /\ Verified(c) /\ Principal[c].class # "worker"
    /\ cookie' = c
    /\ shown' \in {shown, [shown EXCEPT ![p] = Actor(c)]}
    /\ UNCHANGED BrowserSteps

OpenPage(p) ==
    /\ Verified(cookie)
    /\ shown' = [shown EXCEPT ![p] = Actor(cookie)]
    /\ UNCHANGED <<cookie, BrowserSteps>>

(* Only the actor a page shows can be signed out by it, unless the cookie  *)
(* has no authority any more.                                              *)
SignOut(p) ==
    /\ cookie # None /\ shown[p] # None
    /\ Verified(cookie) => shown[p] = Actor(cookie)
    /\ cookie' = None /\ shown' = [shown EXCEPT ![p] = None]
    /\ UNCHANGED BrowserSteps

(* The cookie reaches the age it was given.                                *)
Forget ==
    /\ cookie # None /\ ~Verified(cookie)
    /\ cookie' = None
    /\ UNCHANGED <<shown, BrowserSteps>>

-----------------------------------------------------------------------------
(* A request.                                                              *)

RequestSteps == <<clock, cookie, shown>>
Nothing      == UNCHANGED <<decisions, open, events, done>>

Goes(r, q) == asked' = [asked EXCEPT ![r] = q] /\ UNCHANGED RequestSteps

To(q, stage) == [q EXCEPT !.stage = stage]

Answered(q, reply) == [q EXCEPT !.stage = "answered", !.reply = reply]

(* Mutant of Fail: a failure after the commit is reported as it was met.   *)
FailPlainly(q, reply) == Answered(q, reply)

(* A failure after the commit must not read as a rejection.                *)
Fail(q, reply) == Answered(q, IF q.committed THEN "unavailable" ELSE reply)

(* From a page, with the browser's cookie; from a program, with a bearer.  *)
Send(r, m) ==
    /\ asked[r].stage = "unsent"
    /\ Goes(r, [Unsent EXCEPT
           !.stage = "sent", !.msg = m,
           !.cookie   = IF m.page = None THEN None ELSE cookie,
           !.expected = IF m.page = None THEN None ELSE shown[m.page]])
    /\ Nothing

Credential(q) == IF q.msg.bearer # None THEN q.msg.bearer ELSE q.cookie

(* What authorize_control answers.                                         *)
Admission(q) ==
    IF \/ q.msg.bearer # None /\ q.cookie # None
       \/ q.cookie # None /\ q.msg.path # "console"
       \/ ~Verified(Credential(q))
    THEN "unauthenticated"
    ELSE IF \/ /\ q.cookie # None
               /\ \/ Principal[q.cookie].class = "worker"
                  \/ ~q.msg.ours
                  \/ q.expected # Actor(q.cookie)
            \/ ~Permits(q.msg.route.policy, Principal[Credential(q)])
    THEN "forbidden"
    ELSE "admitted"

Authorize(r) ==
    LET q == asked[r] IN
    /\ q.stage = "sent"
    /\ Goes(r, IF Admission(q) = "admitted"
               THEN [q EXCEPT !.stage = "dispatched", !.who = Credential(q)]
               ELSE Answered(q, Admission(q)))
    /\ Nothing

Guarded(q, by) == by \in q.msg.route.guard

(* The body is decoded and validated, the credential looked at again.      *)
Call(r) ==
    LET q == asked[r] IN
    /\ q.stage = "dispatched"
    /\ \/ Goes(r, Fail(q, "refused"))
       \/ Goes(r, IF Guarded(q, "recheck") /\ ~Verified(q.who)
                  THEN Fail(q, "unauthenticated") ELSE To(q, "calling"))
    /\ Nothing

(* The database knows the credential and finds it expired.                 *)
Lapsed(q) == Guarded(q, "recheck") /\ ~Current(q.who, clock.db)

Refuse(r) ==
    LET q == asked[r] IN
    /\ q.stage = "calling"
    /\ \/ Lapsed(q) /\ Goes(r, Fail(q, "unauthenticated"))
       \/ Goes(r, Fail(q, "refused"))
    /\ Nothing

Read(r) ==
    LET q == asked[r] IN
    /\ q.stage = "calling" /\ q.msg.route.effect = "none" /\ ~Lapsed(q)
    /\ \E pending \in {FALSE, q.msg.route.read \in PendingReads} :
           Goes(r, [q EXCEPT !.stage = "read", !.pending = pending])
    /\ Nothing

(* The commit is answered, or its answer is lost on the way.               *)
Committed(r, q) ==
    /\ done' = done \cup {r}
    /\ \/ Goes(r, [q EXCEPT !.stage = "read", !.committed = Guarded(q, "mark")])
       \/ Goes(r, Fail(q, "unavailable"))

Perform(r) ==
    LET q == asked[r] IN
    /\ q.stage = "calling" /\ q.msg.route.effect = "work" /\ ~Lapsed(q)
    /\ Committed(r, q)
    /\ UNCHANGED <<decisions, open, events>>

(* Approvals and resolutions belong to an actor, whatever credential it    *)
(* holds now; the receipts of policies and releases to one credential.     *)
SameOwner(route, by, who) ==
    IF route \in {DecideRoute, ResolveRoute} THEN Actor(by) = Actor(who) ELSE by = who

(* The identical command of the same owner; an unattributed decision is    *)
(* reported as what it is.                                                 *)
Replays(q, d) ==
    /\ d.command = q.msg.command
    /\ d.by # None => SameOwner(q.msg.route, d.by, q.who)

Insert(event) == events' = events \cup {event}

(* A decision and the event that attributes it are one transaction.        *)
Decide(r) ==
    LET q == asked[r]
        t == q.msg.target
        d == decisions[t]
    IN
    /\ q.stage = "calling" /\ q.msg.route.effect = "decide" /\ ~Lapsed(q)
    /\ \/ /\ d # None /\ ~Replays(q, d)
          /\ Goes(r, Fail(q, "conflict")) /\ Nothing
       \/ /\ d # None /\ Replays(q, d)
          /\ Committed(r, q) /\ UNCHANGED <<decisions, open, events>>
       \/ /\ d = None /\ t \in open
          /\ Committed(r, q)
          /\ decisions' = [decisions EXCEPT ![t] = [command |-> q.msg.command, by |-> q.who]]
          /\ open' = open \ {t}
          /\ Insert(Acceptance(r, q, clock.db))

(* The reply is validated and encoded, its payload classified.             *)
Prepare(r) ==
    LET q == asked[r] IN
    /\ q.stage = "read"
    /\ \/ Goes(r, Fail(q, "unavailable"))
       \/ Goes(r, IF Guarded(q, "after") /\ ~Verified(q.who)
                  THEN Fail(q, "unauthenticated") ELSE To(q, "prepared"))
    /\ Nothing

(* A response without payload is answered; a payload waits for its record. *)
Release(r) ==
    LET q == asked[r] IN
    /\ q.stage = "prepared"
    /\ Goes(r, IF q.msg.route.policy \notin Disclosing THEN Answered(q, "ok")
               ELSE IF ~Verified(q.who) THEN Fail(q, "unauthenticated")
               ELSE IF q.pending THEN Answered(q, "ok")
               ELSE To(q, "recording"))
    /\ Nothing

Record(r) ==
    LET q == asked[r] IN
    /\ q.stage = "recording"
    /\ IF Current(q.who, clock.db)
       THEN /\ Goes(r, To(q, "recorded")) \/ Goes(r, Fail(q, "unavailable"))
            /\ Insert(Observation(r, q, clock.db))
       ELSE Goes(r, Fail(q, "unauthenticated")) /\ events' = events
    /\ UNCHANGED <<decisions, open, done>>

(* The last look at the credential before the bytes leave.                 *)
Disclose(r) ==
    LET q == asked[r] IN
    /\ q.stage = "recorded"
    /\ Goes(r, IF Verified(q.who) THEN Answered(q, "payload")
                                               ELSE Fail(q, "unauthenticated"))
    /\ Nothing

InFlight == {"dispatched", "calling", "read", "prepared", "recording", "recorded"}

(* The deadline of the request, or a store that cannot be reached.         *)
GiveUp(r) ==
    /\ asked[r].stage \in InFlight
    /\ Goes(r, Answered(asked[r], "unavailable"))
    /\ Nothing

RequestStep(r) ==
    \/ Authorize(r) \/ Call(r) \/ Refuse(r) \/ Read(r) \/ Perform(r) \/ Decide(r)
    \/ Prepare(r) \/ Release(r) \/ Record(r) \/ Disclose(r) \/ GiveUp(r)

Steps ==
    \/ \E side \in {"server", "db"} : Tick(side)
    \/ \E t \in Targets : Lapse(t)
    \/ \E p \in Pages : OpenPage(p) \/ SignOut(p) \/ \E c \in Credentials : SignIn(p, c)
    \/ Forget
    \/ \E r \in Requests : RequestStep(r)

Next == Steps \/ \E r \in Requests, m \in Messages : Send(r, m)

Spec == Init /\ [][Next]_vars

-----------------------------------------------------------------------------
Refusals == {"unauthenticated", "forbidden", "refused", "conflict"}

Actors == {Actor(c) : c \in Credentials}

TypeOK ==
    /\ clock \in [{"server", "db"} -> 0 .. MaxTime]
    /\ cookie \in Credentials \cup {None} /\ shown \in [Pages -> Actors \cup {None}]
    /\ \A r \in Requests :
          /\ asked[r].stage \in {"unsent", "sent", "answered"} \cup InFlight
          /\ asked[r].who \in Credentials \cup {None}
          /\ (asked[r].stage = "answered") <=> (asked[r].reply # None)
          /\ asked[r].reply \in {None, "ok", "payload", "unavailable"} \cup Refusals
    /\ open \subseteq Targets /\ done \subseteq Requests

(* A payload has left only for a request on record: who read it, what and  *)
(* through which route, recorded while the credential was valid.           *)
PayloadsAreRecorded ==
    \A r \in Requests :
        LET q == asked[r] IN
        /\ q.reply = "payload" =>
              \E e \in events : /\ e.kind = "response" /\ e.id = r /\ e.credential = q.who
                                /\ e.read = q.msg.route.read /\ e.read # None
                                /\ e.target = q.msg.target
        /\ (q.reply = "ok" /\ q.msg.route.policy \in Disclosing) => q.pending

(* The ledger holds one acceptance for each attributed decision, none for  *)
(* any other, and nothing of a principal that was not entitled to it.      *)
LedgerIsTrue ==
    /\ \A t \in Targets :
          LET accepted == {e \in events : e.kind = "accepted" /\ e.target = t} IN
          IF decisions[t] = None \/ t \in Legacy THEN accepted = {}
          ELSE /\ Cardinality(accepted) = 1
               /\ \A e \in accepted : /\ e.command = decisions[t].command
                                      /\ e.credential = decisions[t].by
    /\ \A e \in events : /\ Current(e.credential, e.at)
                         /\ Permits(asked[e.id].msg.route.policy, Principal[e.credential])
                         /\ Principal[e.credential].class # "worker"

(* A client that is told of success or of a rejection is told the truth.   *)
AnswersAreTrue ==
    \A r \in Requests :
        LET q == asked[r] IN
        /\ q.reply \in Refusals => r \notin done
        /\ (q.reply \in {"ok", "payload"} /\ q.msg.route.effect # "none") => r \in done
        /\ (q.reply \in {"ok", "payload"} /\ q.msg.route.effect = "decide") =>
              LET d == decisions[q.msg.target] IN
              /\ d # None /\ d.command = q.msg.command
              /\ d.by # None => Actor(d.by) = Actor(q.who)

(* Whatever a page asked for was done as the actor that page showed, and   *)
(* never with the browser's cookie outside of the console.                 *)
ActsAsShown ==
    \A r \in Requests :
        LET q == asked[r] IN
        (q.who # None /\ q.msg.bearer = None) =>
            q.expected = Actor(q.who) /\ q.msg.path = "console" /\ q.who = q.cookie

AccessSound ==
    /\ TypeOK /\ PayloadsAreRecorded /\ LedgerIsTrue /\ AnswersAreTrue /\ ActsAsShown
==============================================================================
