-------------------------- MODULE ProgramPublication --------------------------
(***************************************************************************)
(* How one version of a program gets into the program store and the        *)
(* catalog: ledgence program publish with its receipt, the client and the  *)
(* server of the upload, the file store, and the registration.             *)
(*                                                                         *)
(* Several commands publish the same version, some of them with other      *)
(* bytes.  Each keeps its archive and how far it has come in a receipt,    *)
(* from which it can be resumed after any failure.  An upload goes on at   *)
(* the server when its client has gone.  The machines of the clients and   *)
(* of the server may lose power; what was not synced may then be lost.     *)
(***************************************************************************)
EXTENDS Integers, FiniteSets

CONSTANTS
    Receipts,       \* of one version
    Archives,       \* packed programs that claim to be that version
    Packed,         \* Packed[r]: the archive of r
    Registers,      \* receipts made with --register
    Metadata,       \* Metadata[r]: what r would describe the version with
    Updates,        \* receipts made with --update-metadata
    Uploads,        \* the server's upload permits
    Nothing         \* no release, or no catalog entry

PublicationAssumption ==
    /\ Packed \in [Receipts -> Archives] /\ Registers \subseteq Receipts /\ Updates \subseteq Receipts
    /\ Nothing \notin Archives /\ Receipts # {}

VARIABLES
    blobs,      \* blobs[a]: blobs/<digest>.zip
    release,    \* descriptor.json of the version
    catalog,    \* the row of console_program_versions
    server,     \* whether the orchestrator runs
    permits,    \* permits[u]: the upload that holds it
    wire,       \* PUTs on their way
    calls,      \* registrations the server is working on
    files,      \* files[r]: receipt.json
    clients     \* clients[r]: the command that works on r

vars == <<blobs, release, catalog, server, permits, wire, calls, files, clients>>

Phase   == {"none", "prepared", "published", "registered"}
Free    == [pc |-> "free", receipt |-> CHOOSE r \in Receipts : TRUE, waiting |-> FALSE]
Off     == [pc |-> "off", phase |-> "none"]

TypeOK ==
    /\ blobs \in [Archives -> {"none", "linked", "durable"}]
    /\ release \in [holds : Archives \cup {Nothing}, durable : BOOLEAN]
    /\ catalog \in [holds : Archives \cup {Nothing}, metadata : {Metadata[r] : r \in Receipts}]
    /\ server \in {"up", "stopping", "down"}
    /\ permits \in [Uploads -> [pc : {"free", "transfer", "blob", "blob_sync", "descriptor",
                                      "descriptor_sync"},
                                receipt : Receipts, waiting : BOOLEAN]]
    /\ wire \subseteq Receipts
    /\ calls \subseteq [receipt : Receipts, read : Archives, waiting : BOOLEAN]
    /\ files \in [Receipts -> [phase : Phase, maybe : SUBSET Phase]]
    /\ clients \in [Receipts -> [pc : {"off", "ready", "uploading", "saving", "registering"},
                                 phase : Phase]]

Init ==
    /\ blobs = [a \in Archives |-> "none"]
    /\ release = [holds |-> Nothing, durable |-> FALSE]
    /\ catalog = [holds |-> Nothing, metadata |-> Metadata[CHOOSE r \in Receipts : TRUE]]
    /\ server = "up" /\ permits = [u \in Uploads |-> Free] /\ wire = {} /\ calls = {}
    /\ files = [r \in Receipts |-> [phase |-> "none", maybe |-> {"none"}]]
    /\ clients = [r \in Receipts |-> Off]
-----------------------------------------------------------------------------
store == <<blobs, release>>
remote == <<server, permits, wire, calls>>

(* The command: Session::create for a new receipt, Session::open to resume *)
(* one.  The lock file admits one command at a time.                       *)
Start(r) ==
    /\ clients[r].pc = "off"
    /\ IF files[r].phase = "none"
       THEN files' = [files EXCEPT ![r] = [phase |-> "prepared", maybe |-> {"prepared"}]]
       ELSE UNCHANGED files
    /\ clients' = [clients EXCEPT ![r] = [pc |-> "ready", phase |-> files'[r].phase]]
    /\ UNCHANGED <<store, catalog, remote>>

(* proceed: a prepared archive is uploaded, once; ...                      *)
Upload(r) ==
    /\ clients[r].pc = "ready" /\ clients[r].phase = "prepared" /\ server = "up"
    /\ wire' = wire \cup {r}
    /\ clients' = [clients EXCEPT ![r].pc = "uploading"]
    /\ UNCHANGED <<store, catalog, server, permits, calls, files>>

(* ... a published one is registered, if the receipt says so; otherwise    *)
(* there is nothing left to do.                                            *)
Register(r) ==
    /\ clients[r].pc = "ready" /\ clients[r].phase = "published" /\ r \in Registers
    /\ clients' = [clients EXCEPT ![r].pc = "registering"]
    /\ UNCHANGED <<store, catalog, remote, files>>

Done(r) ==
    /\ clients[r].pc = "ready"
    /\ clients[r].phase = "registered" \/ (clients[r].phase = "published" /\ r \notin Registers)
    /\ clients' = [clients EXCEPT ![r] = Off]
    /\ UNCHANGED <<store, catalog, remote, files>>

(* Every wait has its end, a report of an unknown outcome, and the command *)
(* itself may be killed.                                                   *)
Leave(r) ==
    /\ clients[r].pc # "off"
    /\ clients' = [clients EXCEPT ![r] = Off]
    /\ permits' = [u \in Uploads |-> IF permits[u].receipt = r THEN [permits[u] EXCEPT !.waiting = FALSE]
                                     ELSE permits[u]]
    /\ calls' = {IF c.receipt = r THEN [c EXCEPT !.waiting = FALSE] ELSE c : c \in calls}
    /\ UNCHANGED <<store, catalog, server, wire, files>>

(* Session::save: a new file takes the name, and the directory is synced.  *)
Saved(r, p) == [files EXCEPT ![r].phase = p, ![r].maybe = {p}]

Save(r) ==
    /\ clients[r].pc = "saving"
    /\ \/ /\ files' = Saved(r, clients[r].phase)
          /\ clients' = [clients EXCEPT ![r].pc = "ready"]
       \/ /\ files' = [files EXCEPT ![r].phase = clients[r].phase, ![r].maybe = @ \cup {clients[r].phase}]
          /\ clients' = [clients EXCEPT ![r] = Off]
       \/ UNCHANGED files /\ clients' = [clients EXCEPT ![r] = Off]
    /\ UNCHANGED <<store, catalog, remote>>

ClientPowerLoss(r) ==
    /\ clients[r].pc = "off"
    /\ \E p \in files[r].maybe : files' = Saved(r, p)
    /\ UNCHANGED <<store, catalog, remote, clients>>
-----------------------------------------------------------------------------
(* The server.  A permit is held from the first byte to the end of the     *)
(* owned task; without one the upload is refused.                          *)
Arrive(r) ==
    /\ r \in wire /\ server = "up"
    /\ wire' = wire \ {r}
    /\ \/ \E u \in Uploads :
             /\ permits[u].pc = "free"
             /\ permits' = [permits EXCEPT ![u] = [pc |-> "transfer", receipt |-> r,
                                  waiting |-> clients[r].pc = "uploading"]]
             /\ UNCHANGED clients
       \/ /\ \A u \in Uploads : permits[u].pc # "free"
          /\ clients' = [clients EXCEPT ![r] = IF @.pc = "uploading" THEN Off ELSE @]
          /\ UNCHANGED permits
    /\ UNCHANGED <<store, catalog, server, calls, files>>

Lose(r) == r \in wire /\ wire' = wire \ {r} /\ UNCHANGED <<store, catalog, server, permits, calls, files, clients>>

(* The answer of an upload, to a client that still waits for it.           *)
Answer(u, phase) ==
    /\ permits' = [permits EXCEPT ![u] = Free]
    /\ clients' = [clients EXCEPT ![permits[u].receipt] =
                     IF ~permits[u].waiting THEN @
                     ELSE IF phase = "published" THEN [pc |-> "saving", phase |-> phase] ELSE Off]

Moves(u, p) == permits' = [permits EXCEPT ![u].pc = p] /\ UNCHANGED clients
OfUpload(u) == Packed[permits[u].receipt]

(* The body is complete, or the connection ended; then it is dropped with  *)
(* its permit.                                                             *)
Transfer(u) ==
    /\ permits[u].pc = "transfer"
    /\ Moves(u, "blob") \/ Answer(u, "error")
    /\ UNCHANGED <<store, catalog, server, wire, calls, files>>

(* persist_archive: blob and descriptor, each linked where nothing is and  *)
(* then synced.  Directories are made and synced before.                   *)
LinkBlob(u) ==
    /\ permits[u].pc = "blob"
    /\ \/ /\ blobs' = [blobs EXCEPT ![OfUpload(u)] = IF @ = "none" THEN "linked" ELSE @]
          /\ Moves(u, "blob_sync")
       \/ Answer(u, "error") /\ UNCHANGED blobs
    /\ UNCHANGED <<release, catalog, server, wire, calls, files>>

SyncBlob(u) ==
    /\ permits[u].pc = "blob_sync"
    /\ \/ /\ blobs' = [a \in Archives |-> IF blobs[a] = "linked" THEN "durable" ELSE blobs[a]]
          /\ Moves(u, "descriptor")
       \/ Answer(u, "error") /\ UNCHANGED blobs
    /\ UNCHANGED <<release, catalog, server, wire, calls, files>>

LinkDescriptor(u) ==
    /\ permits[u].pc = "descriptor"
    /\ \/ /\ release.holds = Nothing
          /\ release' = [holds |-> OfUpload(u), durable |-> FALSE]
          /\ Moves(u, "descriptor_sync")
       \/ release.holds = OfUpload(u) /\ Moves(u, "descriptor_sync") /\ UNCHANGED release
       \/ Answer(u, "error") /\ UNCHANGED release      \* immutable_conflict, or storage
    /\ UNCHANGED <<blobs, catalog, server, wire, calls, files>>

SyncDescriptor(u) ==
    /\ permits[u].pc = "descriptor_sync"
    /\ \/ release' = [release EXCEPT !.durable = TRUE] /\ Answer(u, "published")
       \/ Answer(u, "error") /\ UNCHANGED release
    /\ UNCHANGED <<blobs, catalog, server, wire, calls, files>>

(* The registration resolves the release and verifies its archive before   *)
(* it opens a transaction.  What was published without --register may be   *)
(* registered by hand, without an expected descriptor.                     *)
Resolve(r) ==
    /\ server = "up" /\ release.holds # Nothing /\ blobs[release.holds] # "none"
    /\ r \in Registers => /\ clients[r].pc = "registering" /\ release.holds = Packed[r]
                          /\ ~\E c \in calls : c.receipt = r /\ c.waiting
    /\ calls' = calls \cup {[receipt |-> r, read |-> release.holds, waiting |-> r \in Registers]}
    /\ UNCHANGED <<store, catalog, server, permits, wire, files, clients>>

(* The transaction, and its answer, which may be lost.                     *)
Commit(c) ==
    /\ c \in calls /\ calls' = calls \ {c}
    /\ LET accepted == \/ catalog.holds = Nothing
                       \/ /\ catalog.holds = c.read
                          /\ catalog.metadata = Metadata[c.receipt] \/ c.receipt \in Updates
       IN  /\ catalog' = IF accepted THEN [holds |-> c.read, metadata |-> Metadata[c.receipt]] ELSE catalog
           /\ clients' = [clients EXCEPT ![c.receipt] =
                             IF ~c.waiting THEN @
                             ELSE IF accepted THEN [pc |-> "saving", phase |-> "registered"] ELSE Off]
    /\ UNCHANGED <<store, server, permits, wire, files>>

(* Shutdown refuses new uploads and drains the permits.                    *)
Stop == server = "up" /\ server' = "stopping" /\ UNCHANGED <<store, catalog, permits, wire, calls, files, clients>>

Gone ==
    /\ server' = "down" /\ wire' = {} /\ calls' = {} /\ permits' = [u \in Uploads |-> Free]
    /\ UNCHANGED <<catalog, files, clients>>

Exit  == server = "stopping" /\ (\A u \in Uploads : permits[u].pc = "free") /\ Gone /\ UNCHANGED store
Boot  == server = "down" /\ server' = "up" /\ UNCHANGED <<store, catalog, permits, wire, calls, files, clients>>

(* The server's process ends; with its power, names that were not synced   *)
(* may go.                                                                 *)
Crash ==
    /\ server # "down" /\ Gone
    /\ \/ UNCHANGED store
       \/ /\ \E lost \in SUBSET {a \in Archives : blobs[a] = "linked"} :
                blobs' = [a \in Archives |-> IF a \in lost THEN "none"
                                             ELSE IF blobs[a] = "linked" THEN "durable" ELSE blobs[a]]
          /\ \/ release' = [release EXCEPT !.durable = release.holds # Nothing]
             \/ ~release.durable /\ release' = [holds |-> Nothing, durable |-> FALSE]

CommandSteps ==
    \E r \in Receipts :
               \/ Start(r) \/ Upload(r) \/ Register(r) \/ Done(r) \/ Leave(r) \/ Save(r)
               \/ ClientPowerLoss(r) \/ Arrive(r) \/ Lose(r) \/ Resolve(r)

Persists == \E u \in Uploads :
               \/ Transfer(u) \/ LinkBlob(u) \/ SyncBlob(u)
               \/ LinkDescriptor(u) \/ SyncDescriptor(u)

Next == CommandSteps \/ Persists \/ (\E c \in calls : Commit(c)) \/ Stop \/ Exit \/ Boot \/ Crash

Spec == Init /\ [][Next]_vars
-----------------------------------------------------------------------------
(* Whoever resolves the version can load its archive, and the archive the  *)
(* catalog names stays on disk, after any loss of power.  Nothing more is  *)
(* promised of the catalog: one who registers by hand may resolve a        *)
(* descriptor that is linked and not yet synced, and if power is lost then *)
(* the catalog names a version the store no longer has, and that another   *)
(* archive may be published as.                                            *)
VisibleIsLoadable ==
    /\ release.holds # Nothing => blobs[release.holds] = "durable"
    /\ catalog.holds # Nothing => blobs[catalog.holds] = "durable"

(* A receipt never says more than is true, whatever happened since: the    *)
(* version is that archive for good, and the catalog has registered it.    *)
Holds(r, p) ==
    /\ p \in {"published", "registered"} =>
          release = [holds |-> Packed[r], durable |-> TRUE]
    /\ p = "registered" => catalog.holds = Packed[r]

ReceiptsAreTrue ==
    \A r \in Receipts : Holds(r, clients[r].phase) /\ \A p \in files[r].maybe : Holds(r, p)

PublicationSound == TypeOK /\ VisibleIsLoadable /\ ReceiptsAreTrue
==============================================================================
