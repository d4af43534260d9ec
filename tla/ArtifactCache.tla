---------------------------- MODULE ArtifactCache ----------------------------
(***************************************************************************)
(* ledgence-adapter-artifact: the cache of unpacked programs below one     *)
(* directory, used by one process at a time.                               *)
(*                                                                         *)
(* A slot is a directory the cache has made.  The name it has and the      *)
(* names a power loss may leave it under differ until the root is synced.  *)
(* The cache's mutex is held through a whole publication, but a crash may  *)
(* come between any two of its operations on the file system, every one of *)
(* them may fail, and pins are verified and dropped without the mutex.     *)
(***************************************************************************)
EXTENDS Integers, FiniteSets, FiniteSetsExt

CONSTANTS
    Digests,    \* of the archives that are published
    Size,       \* Size[d]: archive, content and descriptor of d
    Budgets,    \* values of max_cache_bytes the cache is opened with
    Threads,    \* callers
    Slots       \* bound: directories that exist or may come back

Names == {"none", "staging", "live", "evicting"}

ArtifactAssumption ==
    /\ Size \in [Digests -> Nat \ {0}] /\ Budgets \subseteq Nat \ {0}

VARIABLES
    slots,      \* the directories
    owner,      \* whether the lock file is locked, and the cache behind it
    budget,     \* limits.max_cache_bytes
    entries,    \* State.entries
    older,      \* <<d, e>>: d was touched before e
    staging,    \* State.staging and
    evicting,   \* State.evicting: slots still to be removed, with what
    charge,     \* charge[o] of bytes is kept for each
    bytes,      \* State.bytes
    job,        \* who holds the mutex, and where in its work it is
    callers     \* callers[t]: a lookup, a pin or a publication

state == <<entries, older, staging, evicting, charge, bytes>>
vars  == <<slots, owner, budget, state, job, callers>>

NoJob    == [pc |-> "none", at |-> "pick", todo |-> {}]
Idle     == [pc |-> "idle", digest |-> CHOOSE d \in Digests : TRUE]
Caller(p, d) == [pc |-> p, digest |-> d]
Pinned   == {"verify", "touch", "held", "sync"}

TypeOK ==
    /\ slots \in [Slots -> [digest : Digests, name : Names, maybe : SUBSET Names, whole : BOOLEAN,
                            left : Nat]]
    /\ \A o \in Slots : slots[o].name \in slots[o].maybe
    /\ owner \in {"none", "opening", "open", "dropped"} /\ budget \in Budgets
    /\ entries \subseteq Digests /\ older \subseteq Digests \X Digests
    /\ staging \subseteq Slots /\ evicting \subseteq Slots /\ charge \in [Slots -> Nat] /\ bytes \in Nat
    /\ job \in [pc : {"none", "scan", "tidy", "purge", "write", "rename", "sync", "rollback"},
                at : {"pick", "remove", "settle"}, todo : SUBSET Slots]
    /\ callers \in [Threads -> [pc : {"idle", "publish"} \cup Pinned, digest : Digests]]

Init ==
    /\ slots = [o \in Slots |-> [digest |-> CHOOSE d \in Digests : TRUE, name |-> "none",
                                 maybe |-> {"none"}, whole |-> FALSE, left |-> 0]]
    /\ owner = "none" /\ budget \in Budgets
    /\ entries = {} /\ older = {} /\ staging = {} /\ evicting = {}
    /\ charge = [o \in Slots |-> 0] /\ bytes = 0
    /\ job = NoJob /\ callers = [t \in Threads |-> Idle]
-----------------------------------------------------------------------------
(* The file system.  A new name is volatile; File::open(root).sync_all()   *)
(* makes the names of the root durable; removing a tree may stop half way. *)
Renamed(o, n)  == [slots EXCEPT ![o].name = n, ![o].maybe = @ \cup {n}]
Synced         == [o \in Slots |-> [slots[o] EXCEPT !.maybe = {slots[o].name}]]
Removed(o)     == [slots EXCEPT ![o].name = "none", ![o].maybe = @ \cup {"none"},
                                ![o].whole = FALSE, ![o].left = 0]
PartRemoved(o, n) == [slots EXCEPT ![o].whole = FALSE, ![o].left = n]
Free(o)        == slots[o].maybe = {"none"} /\ o \notin staging \cup evicting

(* The mutex is free: the cache serves.                                    *)
Serves == owner = "open" /\ job.pc = "none"

(* Another reference than the index's own.                                 *)
IsPinned(d) == \E t \in Threads : callers[t].pc \in Pinned /\ callers[t].digest = d

(* touched = the new clock                                                 *)
Latest(d) == {p \in older : d \notin {p[1], p[2]}} \cup {<<e, d>> : e \in entries \ {d}}

Emptied ==
    /\ entries' = {} /\ older' = {} /\ staging' = {} /\ evicting' = {} /\ bytes' = 0
    /\ UNCHANGED charge
-----------------------------------------------------------------------------
(* Hits.                                                                   *)
Lookup(t, d) ==
    /\ Serves /\ callers[t].pc = "idle" /\ d \in entries
    /\ callers' = [callers EXCEPT ![t] = Caller("verify", d)]
    /\ UNCHANGED <<slots, owner, budget, state, job>>

(* The files under the digest's name are read without the mutex.           *)
Verify(t) ==
    /\ callers[t].pc = "verify"
    /\ \E ok \in BOOLEAN :
          /\ ok => \E o \in Slots : slots[o].name = "live" /\ slots[o].digest = callers[t].digest
                                    /\ slots[o].whole
          /\ callers' = [callers EXCEPT ![t].pc = IF ok THEN "touch" ELSE "idle"]
    /\ UNCHANGED <<slots, owner, budget, state, job>>

Touch(t) ==
    /\ Serves /\ callers[t].pc = "touch"
    /\ older' = Latest(callers[t].digest)
    /\ callers' = [callers EXCEPT ![t].pc = "held"]
    /\ UNCHANGED <<slots, owner, budget, entries, staging, evicting, charge, bytes, job>>

(* The last pin after the cache itself unlocks the directory.              *)
Unpin(t) ==
    /\ callers[t].pc = "held" /\ callers' = [callers EXCEPT ![t].pc = "idle"]
    /\ owner' = IF owner = "dropped" /\ ~\E u \in Threads \ {t} : callers[u].pc = "held"
                THEN "none" ELSE owner
    /\ UNCHANGED <<slots, budget, state, job>>

DropCache ==
    /\ Serves /\ \A t \in Threads : callers[t].pc \in {"idle", "held"}
    /\ owner' = IF \E t \in Threads : callers[t].pc = "held" THEN "dropped" ELSE "none"
    /\ Emptied /\ UNCHANGED <<slots, budget, job, callers>>
-----------------------------------------------------------------------------
(* The work of the mutex' holder.  It ends with an error, which aborts an  *)
(* opening, ...                                                            *)
Fails ==
    /\ job' = NoJob
    /\ owner' = IF owner = "opening" THEN "none" ELSE owner
    /\ callers' = [t \in Threads |->
                     IF callers[t].pc \in {"publish", "sync"} THEN [callers[t] EXCEPT !.pc = "idle"]
                     ELSE callers[t]]
    /\ UNCHANGED budget

(* ... or goes on.                                                         *)
Goes(p) == job' = [job EXCEPT !.pc = p, !.at = "pick"] /\ UNCHANGED <<owner, budget, callers>>
Step(a, o) == job' = [job EXCEPT !.at = a, !.todo = {o}] /\ UNCHANGED <<owner, budget, callers>>

Publisher == CHOOSE t \in Threads : callers[t].pc \in {"publish", "sync"}
Wanted    == callers[Publisher].digest
Required  == IF owner = "opening" THEN 0 ELSE Size[Wanted]

Publish(t, d) ==
    /\ Serves /\ callers[t].pc = "idle"
    /\ callers' = [callers EXCEPT ![t] = Caller("publish", d)]
    /\ job' = [NoJob EXCEPT !.pc = "tidy"]
    /\ UNCHANGED <<slots, owner, budget, state>>

(* clean_pending, of the stages left by failed publications or of evicted  *)
(* entries: sync, remove, sync.                                            *)
Pending == IF job.pc = "purge" THEN evicting ELSE staging
Cleans  == job.pc \in {"tidy", "purge", "rollback"}

(* Mutant of SyncBeforeRemoval: the private name is not made durable.      *)
RemoveUnsynced ==
    /\ Cleans /\ job.at = "pick"
    /\ \E o \in Pending : Step("remove", o) /\ UNCHANGED <<slots, state>>

SyncBeforeRemoval ==
    /\ Cleans /\ job.at = "pick"
    /\ \E o \in Pending :
          \/ slots' = Synced /\ Step("remove", o) /\ UNCHANGED state
          \/ Fails /\ UNCHANGED <<slots, state>>

(* The charge of a slot becomes what removing it has left, or stays when   *)
(* that cannot be measured.                                                *)
Charged(o, n) == charge' = [charge EXCEPT ![o] = n] /\ bytes' = bytes - charge[o] + n

RemovePending ==
    /\ Cleans /\ job.at = "remove"
    /\ \E o \in job.todo :
          \/ /\ slots' = Removed(o) /\ Charged(o, 0) /\ Step("settle", o)
          \/ /\ slots[o].name # "none"
             /\ \E n \in 0..slots[o].left :
                   /\ slots' = PartRemoved(o, n)
                   /\ \E c \in {n, charge[o]} : Charged(o, c)
             /\ Fails
    /\ UNCHANGED <<entries, older, staging, evicting>>

SyncAfterRemoval ==
    /\ Cleans /\ job.at = "settle"
    /\ \/ /\ slots' = Synced /\ Goes(job.pc)
          /\ staging' = staging \ job.todo /\ evicting' = evicting \ job.todo
       \/ Fails /\ UNCHANGED <<slots, staging, evicting>>
    /\ UNCHANGED <<entries, older, charge, bytes>>

(* Nothing is pending any more.  A publication that finds its entry now    *)
(* is a hit.                                                               *)
Tidied ==
    /\ job.pc = "tidy" /\ staging = {}
    /\ \/ /\ Wanted \in entries
          /\ callers' = [callers EXCEPT ![Publisher].pc = "verify"]
          /\ job' = NoJob /\ UNCHANGED <<owner, budget>>
       \/ Wanted \notin entries /\ Size[Wanted] > budget /\ Fails
       \/ Wanted \notin entries /\ Size[Wanted] =< budget /\ Goes("purge")
    /\ UNCHANGED <<slots, state>>

(* The least recently touched entry nobody uses.                           *)
Victims ==
    LET unused == {d \in entries : ~IsPinned(d)}
    IN  {d \in unused : ~\E e \in unused : <<e, d>> \in older}

Evict ==
    /\ job.pc = "purge" /\ job.at = "pick" /\ evicting = {} /\ bytes > budget - Required
    /\ \/ \E d \in Victims, o \in Slots :
             /\ slots[o].name = "live" /\ slots[o].digest = d
             /\ slots' = Renamed(o, "evicting")
             /\ entries' = entries \ {d} /\ older' = {p \in older : d \notin {p[1], p[2]}}
             /\ evicting' = evicting \cup {o} /\ charge' = [charge EXCEPT ![o] = Size[d]]
             /\ Goes("purge") /\ UNCHANGED <<staging, bytes>>
       \/ Fails /\ UNCHANGED <<slots, state>>      \* Pressure, or rename failed

(* Room was made: an opened cache is handed out, a publication writes its  *)
(* stage, whose bytes are charged first.                                   *)
HasRoom == job.pc = "purge" /\ evicting = {} /\ bytes =< budget - Required

Opened ==
    /\ HasRoom /\ owner = "opening"
    /\ owner' = "open" /\ job' = NoJob /\ UNCHANGED <<slots, budget, state, callers>>

Stage ==
    /\ HasRoom /\ owner = "open"
    /\ \/ \E o \in Slots :
             /\ Free(o)
             /\ slots' = [slots EXCEPT ![o] = [digest |-> Wanted, name |-> "staging",
                              maybe |-> {"none", "staging"}, whole |-> FALSE, left |-> 0]]
             /\ bytes' = bytes + Size[Wanted] /\ charge' = [charge EXCEPT ![o] = Size[Wanted]]
             /\ staging' = staging \cup {o}
             /\ job' = [job EXCEPT !.pc = "write", !.at = "pick", !.todo = {o}]
             /\ UNCHANGED <<owner, budget, callers, entries, older, evicting>>
       \/ Fails /\ UNCHANGED <<slots, state>>

(* The archive, its descriptor and its content are written and synced from *)
(* the leaves up.                                                          *)
Write ==
    /\ job.pc = "write"
    /\ \E o \in job.todo :
          \/ /\ slots' = [slots EXCEPT ![o].whole = TRUE, ![o].left = Size[Wanted]]
             /\ job' = [job EXCEPT !.pc = "rename"]
          \/ /\ \E n \in 0..Size[Wanted] : slots' = PartRemoved(o, n)
             /\ job' = [job EXCEPT !.pc = "rollback"]
    /\ UNCHANGED <<owner, budget, state, callers>>

(* The entry is visible, and registered before the root is synced.         *)
Rename ==
    /\ job.pc = "rename"
    /\ \E o \in job.todo :
          \/ /\ ~\E p \in Slots : slots[p].name = "live" /\ slots[p].digest = Wanted
             /\ slots' = Renamed(o, "live") /\ staging' = staging \ {o}
             /\ entries' = entries \cup {Wanted} /\ older' = Latest(Wanted)
             /\ callers' = [callers EXCEPT ![Publisher].pc = "sync"]
             /\ job' = [job EXCEPT !.pc = "sync"]
          \/ /\ job' = [job EXCEPT !.pc = "rollback"]
             /\ UNCHANGED <<slots, staging, entries, older, callers>>
    /\ UNCHANGED <<owner, budget, evicting, charge, bytes>>

RolledBack == job.pc = "rollback" /\ staging = {} /\ Fails /\ UNCHANGED <<slots, state>>

SyncParent ==
    /\ job.pc = "sync"
    /\ \/ /\ slots' = Synced /\ job' = NoJob
          /\ callers' = [callers EXCEPT ![Publisher].pc = "held"] /\ UNCHANGED <<owner, budget>>
       \/ Fails /\ UNCHANGED slots
    /\ UNCHANGED state
-----------------------------------------------------------------------------
(* Opening: every directory below the root is removed or verified.         *)
Open ==
    /\ owner = "none" /\ owner' = "opening" /\ budget' \in Budgets
    /\ job' = [NoJob EXCEPT !.pc = "scan", !.todo = {o \in Slots : slots[o].name # "none"}]
    /\ Emptied /\ UNCHANGED <<slots, callers>>

Scan ==
    /\ job.pc = "scan" /\ job.at = "pick"
    /\ \E o \in job.todo :
          \/ /\ slots[o].name = "live" /\ slots[o].whole
             /\ entries' = entries \cup {slots[o].digest} /\ bytes' = bytes + Size[slots[o].digest]
             /\ job' = [job EXCEPT !.todo = @ \ {o}]
             /\ UNCHANGED <<slots, owner, budget, callers>>
          \/ /\ slots[o].name \in {"staging", "evicting"}
             /\ slots' = Synced /\ job' = [job EXCEPT !.at = "remove"]
             /\ UNCHANGED <<owner, budget, callers, entries, bytes>>
          \/ Fails /\ UNCHANGED <<slots, entries, bytes>>
    /\ UNCHANGED <<older, staging, evicting, charge>>

ScanRemove ==
    /\ job.pc = "scan" /\ job.at = "remove"
    /\ \E o \in {p \in job.todo : slots[p].name \in {"staging", "evicting"}} :
          \/ slots' = Removed(o) /\ job' = [job EXCEPT !.at = "settle", !.todo = @ \ {o}]
                                 /\ UNCHANGED <<owner, budget, callers>>
          \/ (\E n \in 0..slots[o].left : slots' = PartRemoved(o, n)) /\ Fails
    /\ UNCHANGED state

ScanSettle ==
    /\ job.pc = "scan" /\ job.at = "settle"
    /\ \/ slots' = Synced /\ Goes("scan")
       \/ Fails /\ UNCHANGED slots
    /\ UNCHANGED state

Scanned == job.pc = "scan" /\ job.at = "pick" /\ job.todo = {} /\ Goes("purge") /\ UNCHANGED <<slots, state>>

(* The process ends anywhere; with the power, names that were not synced   *)
(* may be lost.                                                            *)
Crash ==
    /\ owner # "none"
    /\ owner' = "none" /\ job' = NoJob /\ callers' = [t \in Threads |-> Idle] /\ Emptied
    /\ \/ UNCHANGED slots
       \/ \E n \in [Slots -> Names] :
             /\ \A o \in Slots : n[o] \in slots[o].maybe
             /\ slots' = [o \in Slots |-> [slots[o] EXCEPT !.name = n[o], !.maybe = {n[o]}]]
    /\ UNCHANGED budget

Uses == \E t \in Threads : \/ \E d \in Digests : Lookup(t, d) \/ Publish(t, d)
                           \/ Verify(t) \/ Touch(t) \/ Unpin(t)

Works ==
    \/ SyncBeforeRemoval \/ RemovePending \/ SyncAfterRemoval \/ Tidied \/ Evict \/ Opened \/ Stage
    \/ Write \/ Rename \/ RolledBack \/ SyncParent

Opens == Open \/ Scan \/ ScanRemove \/ ScanSettle \/ Scanned

Next == Uses \/ Works \/ Opens \/ DropCache \/ Crash

Spec == Init /\ [][Next]_vars
-----------------------------------------------------------------------------
(* Whatever a power loss leaves under a digest's name, now or while names  *)
(* are not synced, is whole, so that a cache can be opened again; and two  *)
(* directories never claim the same digest.                                *)
LiveIsWhole ==
    /\ \A o \in Slots : "live" \in slots[o].maybe => slots[o].whole
    /\ \A o, p \in Slots : "live" \in slots[o].maybe /\ "live" \in slots[p].maybe
                           /\ slots[o].digest = slots[p].digest => o = p

(* A prepared artifact stays where it is as long as someone uses it: the   *)
(* cache, or the one opened after it, neither evicts nor forgets it.       *)
PinsHold ==
    \A t \in Threads : callers[t].pc \in Pinned =>
       /\ owner \in {"open", "dropped"} /\ (owner = "open" => callers[t].digest \in entries)
       /\ \E o \in Slots : slots[o].name = "live" /\ slots[o].whole
                           /\ slots[o].digest = callers[t].digest

(* The index is what is on disk: every directory is an entry's or waits    *)
(* to be removed.                                                          *)
IndexAgrees ==
    owner = "open" =>
       /\ entries = {slots[o].digest : o \in {p \in Slots : slots[p].name = "live"}}
       /\ staging \cap evicting = {}
       /\ \A o \in Slots : slots[o].name \in {"staging", "evicting"} => o \in staging \cup evicting

(* The budget bounds the bytes on disk, those of failed removals included. *)
BytesBounded ==
    owner = "open" =>
       /\ bytes = MapThenSumSet(LAMBDA d : Size[d], entries)
                  + MapThenSumSet(LAMBDA o : charge[o], staging \cup evicting)
       /\ bytes =< budget
       /\ \A o \in staging \cup evicting : slots[o].left =< charge[o]

CacheSound == TypeOK /\ LiveIsWhole /\ PinsHold /\ IndexAgrees /\ BytesBounded
==============================================================================
