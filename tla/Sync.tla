-------------------------------- MODULE Sync ----------------------------------
(***************************************************************************)
(* A binding's snapshot and the client that writes it to disk:             *)
(* internal/sync, internal/db/sync_store.go and `ith5-materialize sync`    *)
(* (cmd/ith5-materialize/main.go). The server computes the snapshot with   *)
(* several queries and no transaction while releases, permission groups    *)
(* and the binding change; the client compares every file with its journal *)
(* before it touches it, may be stopped anywhere, and works on files its   *)
(* user edits. The revision of a snapshot is its hash: here, the snapshot. *)
(***************************************************************************)
EXTENDS Resolve, Sequences, Functions

CONSTANTS
  FirstItems, FirstWay, FirstProjects, \* what is published when the client starts
  Releases,   \* what may be released: pairs of a resource and a checksum
  Regroups,   \* how resources may be handed out anew: pairs of a resource and a way
  Readable,   \* resources of the organization or of the user's teams and projects
  Mine,       \* the checksum of a file the user has edited
  MaxChanges, \* bounds: changes on the server,
  MaxEdits,   \* edits by the user,
  MaxFaults   \* and failed writes, lost requests and crashes

ASSUME MineAssumption == Mine \notin Sums \cup {Tombstone, None}
ASSUME FirstAssumption == FirstItems \in Items /\ FirstWay \in [Res -> Way] /\ FirstProjects \subseteq Projects
ASSUME ChangesAssumption == Releases \subseteq Res \X (Sums \cup {Tombstone}) /\ Regroups \subseteq Res \X Way
ASSUME ReadableAssumption == Readable \subseteq Res
ASSUME BoundsAssumption == {MaxChanges, MaxEdits, MaxFaults} \subseteq Nat

VARIABLES
  now,        \* the server: items, way, the binding's projects, whether it is revoked
  blobs,      \* checksums some version of a readable resource has had
  applied,    \* bindings.applied_revision
  changes, edits, faults, \* used up of the bounds
  step,       \* where the client's sync is
  got,        \* what the request has read so far
  snap,       \* the snapshot it is answered with
  disk,       \* checksum of the file of each name
  journal,    \* .ith5-journal.json: revision and checksum of each file
  todo,       \* names to write or remove still
  at, look,   \* the one in hand and the checksum its file had
  nj,         \* the new journal's files
  disturbed,  \* names where an edit, a failed write or a crash came in between
  unreported  \* the last journal saved has not been reported

vars == <<now, blobs, applied, changes, edits, faults, step, got, snap, disk,
          journal, todo, at, look, nj, disturbed, unreported>>

server == <<now, blobs, changes>>
reading == <<step, got>>
local == <<disk, journal, todo, at, look, nj, disturbed>>

-------------------------------------------------------------------------------

File == Sums \cup {None, Mine}
Files == [Names -> File]
NoFiles == [n \in Names |-> None]
NoRev == [revision |-> <<>>, files |-> NoFiles]

\* A snapshot: the binding's projects, the groups it drew on and the entries.
Snapshot(projects, grants, entries) == <<projects, grants, entries>>
EmptySnapshot == Snapshot({}, <<>>, [n \in Names |-> {}])
EntriesOf(s) == s[3]

NothingRead == [projects |-> {}, auto |-> {}, items |-> [r \in Res |-> None],
                way |-> [r \in Res |-> "level"]]

Steps == {"idle", "binding", "auto", "all", "groups", "assigns", "answer",
          "fetch", "look", "put", "lookold", "trim", "save", "report"}

\* The types of the variables; what is the user's is in no journal.
TypeOK ==
  /\ now.items \in Items /\ now.way \in [Res -> Way]
  /\ now.projects \subseteq Projects /\ now.revoked \in BOOLEAN
  /\ blobs \subseteq Sums
  /\ changes \in 0..MaxChanges /\ edits \in 0..MaxEdits /\ faults \in 0..MaxFaults
  /\ step \in Steps
  /\ snap # <<>> => EntriesOf(snap) \in Entries
  /\ disk \in Files
  /\ {journal.files, nj} \subseteq [Names -> File \ {Mine}]
  /\ todo \subseteq Names /\ at \in Names \cup {None} /\ look \in File
  /\ disturbed \subseteq Names /\ unreported \in BOOLEAN

Init ==
  /\ now = [items |-> FirstItems, way |-> FirstWay, projects |-> FirstProjects, revoked |-> FALSE]
  /\ blobs = {FirstItems[r].sum : r \in {x \in Readable : FirstItems[x] # None}} \ {Tombstone}
  /\ applied = <<>> /\ snap = <<>>
  /\ changes = 0 /\ edits = 0 /\ faults = 0
  /\ step = "idle" /\ got = NothingRead
  /\ disk = NoFiles /\ journal = NoRev
  /\ todo = {} /\ at = None /\ look = None /\ nj = NoFiles
  /\ disturbed = {} /\ unreported = FALSE

-------------------------------------------------------------------------------
\* The server changes

\* Any change to what the binding is given
Change == changes < MaxChanges /\ changes' = changes + 1

\* A publish (PublishTx) makes one more version of a resource; only what is there is deleted.
Release(r, sum) ==
  /\ Change
  /\ sum = Tombstone => now.items[r] # None /\ now.items[r].sum # Tombstone
  /\ LET v == IF now.items[r] = None THEN 0 ELSE now.items[r].version
     IN now' = [now EXCEPT !.items[r] = [version |-> v + 1, sum |-> sum]]
  /\ blobs' = IF r \in Readable THEN blobs \cup ({sum} \ {Tombstone}) ELSE blobs
  /\ UNCHANGED <<applied, edits, faults, reading, snap, local, unreported>>

\* What an administrator does to the way a resource is handed out
Regroup(r, way) ==
  /\ Change
  /\ now.way[r] # way
  /\ now' = [now EXCEPT !.way[r] = way]
  /\ UNCHANGED <<blobs, applied, edits, faults, reading, snap, local, unreported>>

\* setGroupBundles: into a permission group, out of the one it was in
SetGroupBundles(r, way) == way \in Groups /\ Regroup(r, way)

\* createAssignment: to the organization, a user or a project, without a group
CreateAssignment(r, way) == way = "direct" /\ Regroup(r, way)

\* Rebind, or Bind again in the same workspace, which also revives the binding
Rebind(projects) ==
  /\ Change
  /\ now.projects # projects \/ now.revoked
  /\ now' = [now EXCEPT !.projects = projects, !.revoked = FALSE]
  /\ UNCHANGED <<blobs, applied, edits, faults, reading, snap, local, unreported>>

Unbind ==
  /\ Change
  /\ ~now.revoked
  /\ now' = [now EXCEPT !.revoked = TRUE]
  /\ UNCHANGED <<blobs, applied, edits, faults, reading, snap, local, unreported>>

-------------------------------------------------------------------------------
\* The request for a snapshot, query by query

\* cmdSync: the journal's revision goes with the request
Start ==
  /\ step = "idle"
  /\ step' = "binding"
  /\ UNCHANGED <<server, applied, edits, faults, got, snap, local, unreported>>

\* The handler reads the binding; one that is revoked has an empty snapshot.
ReadBinding ==
  /\ step = "binding"
  /\ IF now.revoked
     THEN step' = "answer" /\ snap' = EmptySnapshot /\ got' = got
     ELSE step' = "auto" /\ snap' = snap /\ got' = [got EXCEPT !.projects = now.projects]
  /\ UNCHANGED <<server, applied, edits, faults, local, unreported>>

\* ListCandidates
ReadByLevel ==
  /\ step = "auto"
  /\ got' = [got EXCEPT !.auto = ByLevel(now.items, now.way, got.projects)]
  /\ step' = "all"
  /\ UNCHANGED <<server, applied, edits, faults, snap, local, unreported>>

\* ListGroupCandidates: every resource,
ReadAll ==
  /\ step = "all"
  /\ got' = [got EXCEPT !.items = now.items]
  /\ step' = "groups"
  /\ UNCHANGED <<server, applied, edits, faults, snap, local, unreported>>

\* the groups and what is in them,
ReadGroups ==
  /\ step = "groups"
  /\ got' = [got EXCEPT !.way = [r \in Res |-> IF now.way[r] \in Groups THEN now.way[r] ELSE "level"]]
  /\ step' = "assigns"
  /\ UNCHANGED <<server, applied, edits, faults, snap, local, unreported>>

\* and who is given what directly. The answer lists the groups in the order of an
\* iteration over a map.
ReadAssignments ==
  /\ step = "assigns"
  /\ LET way == [r \in Res |-> IF got.way[r] = "level" /\ now.way[r] = "direct"
                               THEN "direct" ELSE got.way[r]]
         granted == ByGrant(got.items, way, got.projects)
         drawn == {c.via : c \in granted} \cap Groups
     IN \E grants \in Bijection(1..Cardinality(drawn), drawn),
           entries \in Resolutions(got.auto \cup granted) :
             snap' = Snapshot(got.projects, grants, entries)
  /\ step' = "answer"
  /\ got' = NothingRead
  /\ UNCHANGED <<server, applied, edits, faults, local, unreported>>

-------------------------------------------------------------------------------
\* The client

Wanted(n) == Content(EntriesOf(snap), n)

\* The sync is over, whichever way: the next one starts from the journal.
Over ==
  /\ step' = "idle" /\ got' = NothingRead /\ snap' = <<>>
  /\ todo' = {} /\ at' = None /\ look' = None /\ nj' = NoFiles

Fault == faults < MaxFaults /\ faults' = faults + 1

\* Mutant: a client that has a revision is never told of another one.
NotModifiedAny ==
  /\ step = "answer"
  /\ journal.revision # <<>>
  /\ Over
  /\ UNCHANGED <<server, applied, edits, faults, disk, journal, disturbed, unreported>>

\* 304: If-None-Match names the revision of this very snapshot.
NotModified ==
  /\ step = "answer"
  /\ snap = journal.revision
  /\ Over
  /\ UNCHANGED <<server, applied, edits, faults, disk, journal, disturbed, unreported>>

Modified ==
  /\ step = "answer"
  /\ snap # journal.revision
  /\ step' = "fetch"
  /\ UNCHANGED <<server, applied, edits, faults, got, snap, local, unreported>>

\* Every content is fetched before any file is touched.
Fetch ==
  /\ step = "fetch"
  /\ \A n \in Names : Wanted(n) \in blobs \cup {None}
  /\ step' = "look"
  /\ todo' = {n \in Names : Wanted(n) # None}
  /\ UNCHANGED <<server, applied, edits, faults, got, snap, disk, journal, at, look, nj,
                 disturbed, unreported>>

\* GetBlob finds no version the user may read with this content: the sync fails.
FetchRefused ==
  /\ step = "fetch"
  /\ \E n \in Names : Wanted(n) \notin blobs \cup {None}
  /\ Over
  /\ UNCHANGED <<server, applied, edits, faults, disk, journal, disturbed, unreported>>

\* A request fails or the client is stopped before it has touched a file.
Lose ==
  /\ step \in {"binding", "auto", "all", "groups", "assigns", "answer", "fetch"}
  /\ Fault
  /\ Over
  /\ UNCHANGED <<server, applied, edits, disk, journal, disturbed, unreported>>

\* apply, first loop: read the next file, in order,
Look ==
  /\ step = "look" /\ todo # {}
  /\ at' = CHOOSE n \in todo : \A m \in todo : n <= m
  /\ look' = disk[at']
  /\ step' = "put"
  /\ UNCHANGED <<server, applied, edits, faults, got, snap, disk, journal, todo, nj,
                 disturbed, unreported>>

\* The file is not there, or what the last sync wrote there.
Ours == look = None \/ look = journal.files[at]

NextFile ==
  /\ step' = "look" /\ todo' = todo \ {at} /\ at' = None /\ look' = None
  /\ UNCHANGED <<server, applied, edits, got, snap, journal, unreported>>

\* Mutant: a file the user has changed is overwritten.
PutAny ==
  /\ step = "put"
  /\ look # Wanted(at)
  /\ disk' = [disk EXCEPT ![at] = Wanted(at)]
  /\ nj' = [nj EXCEPT ![at] = Wanted(at)]
  /\ disturbed' = disturbed \ {at}
  /\ NextFile
  /\ UNCHANGED faults

\* installed, updated: the content replaces the file by a rename.
Put ==
  /\ step = "put"
  /\ Ours /\ look # Wanted(at)
  /\ disk' = [disk EXCEPT ![at] = Wanted(at)]
  /\ nj' = [nj EXCEPT ![at] = Wanted(at)]
  /\ disturbed' = disturbed \ {at}
  /\ NextFile
  /\ UNCHANGED faults

\* Mutant: a file that needs no writing is left out of the journal.
KeepUnjournaled ==
  /\ step = "put"
  /\ look = Wanted(at)
  /\ NextFile
  /\ UNCHANGED <<disk, nj, disturbed, faults>>

\* The file has the content already.
Keep ==
  /\ step = "put"
  /\ look = Wanted(at)
  /\ nj' = [nj EXCEPT ![at] = Wanted(at)]
  /\ disturbed' = IF disk[at] = look THEN disturbed \ {at} ELSE disturbed
  /\ NextFile
  /\ UNCHANGED <<disk, faults>>

\* Mutant: the journal takes a file over that it has left to the user.
SkipJournaled ==
  /\ step = "put"
  /\ ~Ours /\ look # Wanted(at)
  /\ nj' = [nj EXCEPT ![at] = look]
  /\ NextFile
  /\ UNCHANGED <<disk, disturbed, faults>>

\* conflict_skipped: the file is the user's and stays out of the journal.
Skip ==
  /\ step = "put"
  /\ ~Ours /\ look # Wanted(at)
  /\ NextFile
  /\ UNCHANGED <<disk, nj, disturbed, faults>>

\* failed: reported, not journaled, and the sync goes on.
FailedWrite ==
  /\ step = "put"
  /\ Ours /\ look # Wanted(at)
  /\ Fault
  /\ disturbed' = disturbed \cup {at}
  /\ NextFile
  /\ UNCHANGED <<disk, nj>>

\* apply, second loop: the files of the last sync that are no longer wanted
Trim ==
  /\ step = "look" /\ todo = {}
  /\ step' = "trim"
  /\ todo' = {n \in Names : journal.files[n] # None /\ Wanted(n) = None}
  /\ UNCHANGED <<server, applied, edits, faults, got, snap, disk, journal, at, look, nj,
                 disturbed, unreported>>

LookOld ==
  /\ step = "trim" /\ at = None
  /\ \E n \in todo : at' = n /\ look' = disk[n]
  /\ UNCHANGED <<server, applied, edits, faults, reading, snap, disk, journal, todo, nj,
                 disturbed, unreported>>

NextOld ==
  /\ todo' = todo \ {at} /\ at' = None /\ look' = None
  /\ UNCHANGED <<server, applied, edits, reading, snap, journal, nj, unreported>>

\* removed: it is still the file the last sync wrote.
RemoveOld ==
  /\ at # None /\ step = "trim"
  /\ look = journal.files[at]
  /\ disk' = [disk EXCEPT ![at] = None]
  /\ disturbed' = disturbed \ {at}
  /\ NextOld
  /\ UNCHANGED faults

\* The error of os.Remove is ignored: the file stays and nobody knows whose it is.
FailedRemove ==
  /\ at # None /\ step = "trim"
  /\ look = journal.files[at]
  /\ Fault
  /\ disturbed' = disturbed \cup {at}
  /\ NextOld
  /\ UNCHANGED disk

\* The file is gone, or the user has changed it.
LeaveOld ==
  /\ at # None /\ step = "trim"
  /\ look # journal.files[at]
  /\ NextOld
  /\ UNCHANGED <<disk, disturbed, faults>>

\* saveJournal
Save ==
  /\ step = "trim" /\ todo = {}
  /\ journal' = [revision |-> snap, files |-> nj]
  /\ unreported' = TRUE
  /\ step' = "report"
  /\ UNCHANGED <<server, applied, edits, faults, got, snap, disk, todo, at, look, nj, disturbed>>

\* os.WriteFile truncates first: the client is stopped there, the journal reads as empty.
TornSave ==
  /\ step = "trim" /\ todo = {}
  /\ Fault
  /\ journal' = NoRev
  /\ unreported' = TRUE
  /\ disturbed' = disturbed \cup {n \in Names : disk[n] # None}
  /\ Over
  /\ UNCHANGED <<server, applied, edits, disk>>

\* The client is stopped between two files: what it has done is in no journal.
Crash ==
  /\ step \in {"look", "put", "trim"}
  /\ Fault
  /\ disturbed' = disturbed \cup {n \in Names : disk[n] # journal.files[n]}
  /\ Over
  /\ UNCHANGED <<server, applied, edits, disk, journal, unreported>>

\* sync-results
Report ==
  /\ step = "report"
  /\ applied' = snap
  /\ unreported' = FALSE
  /\ Over
  /\ UNCHANGED <<server, edits, faults, disk, journal, disturbed>>

\* The receipt is lost: the client says it will try again and does not.
LoseReceipt ==
  /\ step = "report"
  /\ Fault
  /\ Over
  /\ UNCHANGED <<server, applied, edits, disk, journal, disturbed, unreported>>

\* The user edits or creates a file, or deletes one, at any time.
UserEdits(n, f) ==
  /\ edits < MaxEdits /\ edits' = edits + 1
  /\ f # disk[n]
  /\ disk' = [disk EXCEPT ![n] = f]
  /\ disturbed' = disturbed \cup {n}
  /\ UNCHANGED <<server, applied, faults, reading, snap, journal, todo, at, look, nj, unreported>>

ClientStep ==
  \/ Start \/ ReadBinding \/ ReadByLevel \/ ReadAll \/ ReadGroups \/ ReadAssignments
  \/ NotModified \/ Modified \/ Fetch \/ FetchRefused
  \/ Look \/ Put \/ Keep \/ Skip
  \/ Trim \/ LookOld \/ RemoveOld \/ LeaveOld
  \/ Save \/ Report

Next ==
  \/ \E rel \in Releases : Release(rel[1], rel[2])
  \/ \E reg \in Regroups : SetGroupBundles(reg[1], reg[2]) \/ CreateAssignment(reg[1], reg[2])
  \/ \E projects \in (SUBSET Projects) \ {{}} : Rebind(projects)
  \/ Unbind
  \/ ClientStep
  \/ Lose \/ FailedWrite \/ FailedRemove \/ TornSave \/ Crash \/ LoseReceipt
  \/ \E n \in Names, f \in {Mine, None} : UserEdits(n, f)

Spec == Init /\ [][Next]_vars

\* Someone runs `sync` again and again, and it goes on unless it is stopped.
FairSpec == Spec /\ WF_vars(ClientStep)

-------------------------------------------------------------------------------

\* What the binding is given now, read in one piece
Current ==
  IF now.revoked THEN {EntriesOf(EmptySnapshot)}
  ELSE Resolutions(ByLevel(now.items, now.way, now.projects)
                   \cup ByGrant(now.items, now.way, now.projects))

\* A resource handed out at its level, its deletion included, is never passed over
\* for one that is less specific: not for a granted one, and not for what a
\* tombstone hides.
LevelsDecide ==
  step = "idle" => \A e \in Current, n \in Names : \A c \in e[n] : \A r \in Res :
    NameOf[r] = n /\ now.items[r] # None /\ now.way[r] \notin Groups
      /\ InScope(r, now.projects) => LevelOf[r] <= Rank(c)

\* The client overwrites or removes a file with the user's own content only when
\* the user wrote it after the client had looked at it.
UserEditsKept ==
  [][\A n \in Names : disk[n] = Mine /\ disk'[n] # Mine
       => edits' # edits \/ (at = n /\ look # Mine)]_vars

\* Between syncs the journal says what is on disk, except where the user, a failure
\* or a crash came in between: the next sync can tell its own files. And the server's
\* record of what the client applied is the client's, unless the receipt was lost.
JournalKnows ==
  step = "idle" =>
    /\ \A n \in Names \ disturbed : disk[n] = journal.files[n]
    /\ ~unreported => applied = journal.revision

\* A content of the snapshot that the user may not fetch holds up the whole sync.
HeldUp == \E e \in Current, n \in Names : Content(e, n) \notin blobs \cup {None}

\* Once the server stops changing, the disk comes to hold what the binding is given,
\* although every snapshot was read in pieces: except where the user edited, a write
\* failed or a crash left a file that the journal has otherwise. (After a crash the
\* server may come back to the very revision of the journal, by a binding revoked
\* and revived, and then answers 304 for a disk that is half changed.)
Converges ==
  <>[](step = "idle" => HeldUp \/ \A n \in Names \ disturbed : \E e \in Current : disk[n] = Content(e, n))

===============================================================================
