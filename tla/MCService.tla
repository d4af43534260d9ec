------------------------------ MODULE MCService ------------------------------
(***************************************************************************)
(* TLC instances of what stands around the task store: the process of the  *)
(* orchestrator (OrchestratorProcess), what its callers may do             *)
(* (OperatorAccess), and the programs it keeps for workers                 *)
(* (ProgramPublication, ArtifactCache).  A behaviour stays in the scenario *)
(* it starts in; what the scenario does not concern stays as it began.     *)
(***************************************************************************)
EXTENDS OrchestratorProcess, TLC

CONSTANTS u1, u2   \* upload permits, which are interchangeable

VARIABLES scenario, client,
          slots, owner, budget, cached, older, staging, evicting, charge, bytes, fetching, callers,
          blobs, release, catalog, server, permits, wire, calls, files, clients,
          clock, cookie, shown, asked, decisions, open, events, done

cacheVars   == <<slots, owner, budget, cached, older, staging, evicting, charge, bytes, fetching, callers>>
programVars == <<blobs, release, catalog, server, permits, wire, calls, files, clients>>
accessVars  == <<clock, cookie, shown, asked, decisions, open, events, done>>

-----------------------------------------------------------------------------
(* The process: a plain instance, one that publishes, one that delivers    *)
(* completions, one that requires credentials, and the two other commands. *)

MCKind == "c" :> "call" @@ "u" :> "upload" @@ "a" :> "acquire"
Plain == [command |-> "serve", instance |-> "i", authority |-> None, loops |-> Always]
MCStarts == {Plain, [Plain EXCEPT !.loops = @ \cup {"r1"}], [Plain EXCEPT !.loops = @ \cup {"completion"}],
             [Plain EXCEPT !.authority = "x"], [Plain EXCEPT !.command = "migrate"],
             [Plain EXCEPT !.command = "retain"]}

(* Either nobody calls and the process is started twice, the second time   *)
(* without further loops, or one client calls the plain instance.          *)
Bounded ==
    /\ \A r \in Requests \ {client} : req'[r] = req[r]
    /\ lives' = 2 => client = "nobody" /\ start'.loops = Always
    /\ client # "nobody" => start' = Plain

-----------------------------------------------------------------------------
(* Two archives that fit together into the larger budget only.             *)
Cache == INSTANCE ArtifactCache WITH
             Digests <- {"a", "b"}, Size <- "a" :> 2 @@ "b" :> 1, Budgets <- {2, 3},
             Threads <- {1, 2}, Slots <- {1, 2}, entries <- cached, job <- fetching

(* Two commands that publish different archives as the same version, one   *)
(* of them to be registered, and an operator who registers what is there.  *)
Programs == INSTANCE ProgramPublication WITH
                Receipts <- {1, 2}, Archives <- {"a", "b"}, Packed <- 1 :> "a" @@ 2 :> "b",
                Registers <- {1}, Metadata <- 1 :> 1 @@ 2 :> 2, Updates <- {2}, Uploads <- {u1, u2},
                Nothing <- "none"

-----------------------------------------------------------------------------
(* Principals: an operator whose credential was rotated, a service that    *)
(* may read and review, and a worker.  Two of the credentials expire.      *)

Everything == {"MetadataRead", "SensitiveRead", "ExecutionSubmit", "ExecutionControl",
               "ProgramPublish", "ApprovalDecide", "EffectResolve", "ResourceControl"}
MCPrincipal ==
    LET P(s, c, x, e) == [subject |-> s, class |-> c, capabilities |-> x, expires |-> e] IN
    "a1" :> P("a", "operator", Everything, 1) @@ "a2" :> P("a", "operator", Everything, 2)
    @@ "b" :> P("b", "service", {"SensitiveRead", "ApprovalDecide"}, 2)
    @@ "w" :> P("w", "worker", {"WorkerExecute"}, 1)

(* What may be asked depends on the scenario: see Ask.                     *)
Access == INSTANCE OperatorAccess WITH
              Requests <- {"r1", "r2"}, Credentials <- {"a1", "a2", "b", "w"},
              Principal <- MCPrincipal, Pages <- {"p", "q"}, Messages <- {},
              Targets <- {"t", "old", "put"}, Legacy <- {"old"}, Commands <- {"yes", "no"},
              MaxTime <- 1

Asks(routes, path, target, commands, bearers, pages, ours) ==
    {[route |-> q, path |-> path, target |-> target, command |-> x, bearer |-> b, page |-> p, ours |-> o] :
        q \in {z \in routes : path \in z.paths}, x \in commands, b \in bearers, p \in pages, o \in ours}

(* Every route, asked for by every principal.                              *)
ByRoute == UNION {Asks(Access!RouteTable, path, "t", {"yes"}, {"a1", "b", "w"}, {None}, {TRUE}) :
                      path \in {"api", "console"}}

(* Two pages of a browser that may be signed in anew in between.           *)
ByPage == Asks({Access!DecideRoute}, "console", "t", {"yes"}, {None, "a2"}, {"p", "q"}, BOOLEAN)
          \cup Asks(Access!WorkflowReads, "api", "t", {"yes"}, {None}, {"p", "q", None}, {TRUE})

(* Two requests about the same thing.                                      *)
ByTarget == Asks({Access!DecideRoute}, "console", "t", {"yes", "no"}, {"a1", "a2", "b"}, {None}, {TRUE})
            \cup Asks({Access!DecideRoute}, "api", "old", {"yes"}, {"b"}, {None}, {TRUE})
            \cup Asks({Access!ResourcePut}, "api", "put", {"yes"}, {"a1", "a2"}, {None}, {TRUE})

ASSUME /\ Cache!ArtifactAssumption /\ Programs!PublicationAssumption
       /\ Access!AccessAssumption /\ \A m \in ByRoute \cup ByPage \cup ByTarget : Access!WellFormed(m)

Ask(who, messages) == \E r \in who, m \in messages : Access!Send(r, m)

AccessNext ==
    \/ /\ scenario = "routes" /\ (Access!Steps \/ Ask({"r1"}, ByRoute))
       /\ cookie' = None /\ (open' = open \/ decisions' # decisions)
    \/ /\ scenario = "pages" /\ (Access!Steps \/ Ask({"r1"}, ByPage))
       /\ (open' = open \/ decisions' # decisions)
    \/ /\ scenario = "decisions" /\ (Access!Steps \/ Ask({"r1", "r2"}, ByTarget))
       /\ cookie' = None

Permits == Permutations({u1, u2})

-----------------------------------------------------------------------------
MCInit ==
    /\ scenario \in {"process", "cache", "programs", "routes", "pages", "decisions"}
    /\ Init /\ Cache!Init /\ Programs!Init /\ Access!Init
    /\ client \in Requests \cup {"nobody"}
    /\ client # "nobody" => schema
    /\ scenario # "process" => client = "c" /\ start = Plain
    /\ scenario # "cache" => budget = 2
    /\ scenario # "decisions" => decisions["old"].command = "yes"

MCNext ==
    /\ \/ scenario = "process" /\ Next /\ Bounded /\ UNCHANGED <<cacheVars, programVars, accessVars>>
       \/ scenario = "cache" /\ Cache!Next /\ UNCHANGED <<vars, programVars, accessVars>>
       \/ scenario = "programs" /\ Programs!Next /\ UNCHANGED <<vars, cacheVars, accessVars>>
       \/ AccessNext /\ UNCHANGED <<vars, cacheVars, programVars>>
    /\ UNCHANGED <<scenario, client>>

MCSpec == MCInit /\ [][MCNext]_<<scenario, client, vars, cacheVars, programVars, accessVars>>

(* Cached programs are whole, indexed and within the budget; a published   *)
(* version can be loaded, and receipts and catalog tell the truth of it.   *)
ProgramsSound ==
    CASE scenario = "cache" -> Cache!CacheSound
      [] scenario = "programs" -> Programs!PublicationSound
      [] OTHER -> TRUE

(* Nobody does what its credential does not allow, no payload leaves       *)
(* unrecorded, and decisions are attributed to who made them.              *)
AccessSound == scenario \in {"routes", "pages", "decisions"} => Access!AccessSound
===============================================================================
