---------------------------- MODULE ManifestSync ----------------------------
(***************************************************************************)
(* BackupService (klaw-storage/src/backup.rs): devices that share a bucket *)
(* of manifests and content-addressed blobs.  A sync reconciles the local  *)
(* files with the manifest latest.json names, publishes a manifest of the  *)
(* files of its plan and prunes old manifests and blobs; a restore         *)
(* replays one manifest.  A device runs one task at a time (the sync       *)
(* runtime of the GUI); tasks of two devices interleave at every request,  *)
(* files are edited meanwhile, and a task may fail at every step.          *)
(*                                                                         *)
(* A blob is its content; manifests are numbered in the order of their     *)
(* created_at; a database file is a file.                                  *)
(***************************************************************************)
EXTENDS Naturals, FiniteSets, FiniteSetsExt

CONSTANTS Devices, Paths, Blobs,
          KeepLast,      \* retention.keep_last
          MaxManifests,  \* bound: manifests prepared
          MaxEdits       \* bound: edits and deletions of files

Missing   == "missing"    \* no such file
Unlisted  == "unlisted"   \* the manifest has no entry for the path
Tombstone == "tombstone"  \* its entry says deleted
Manifests == 1 .. MaxManifests
NoManifest == [entries |-> [p \in Paths |-> Unlisted], scope |-> {}]
IdleTask == [pc |-> "idle", base |-> NoManifest, todo |-> {}, manifest |-> NoManifest,
             id |-> 0, needed |-> {}, edited |-> FALSE]

ManifestRecords == [entries : [Paths -> Blobs \union {Unlisted, Tombstone}], scope : SUBSET Paths]
Phases == {"idle", "reconcile", "blobs", "latest", "list", "manifests", "unneeded", "restore"}
Tasks == [pc : Phases, base : ManifestRecords, todo : SUBSET (Paths \union Blobs \union Manifests),
          manifest : ManifestRecords, id : 0 .. MaxManifests, needed : SUBSET Blobs,
          edited : BOOLEAN]

ASSUME SyncAssumption ==
  /\ KeepLast \in Nat /\ MaxManifests \in Nat /\ MaxEdits \in Nat
  /\ {Missing, Unlisted, Tombstone} \intersect Blobs = {}

VARIABLES disk,       \* the files of every device
          plans,      \* the paths its plan covers
          store,      \* manifests/<id>.json
          blobStore,  \* blobs/sha256/<hash>
          latest,     \* latest.json, 0 when there is none
          prepared,   \* ids handed out
          tasks,      \* the task of every device
          agrees,     \* history: the manifest a device took on last, untouched since
          erased,     \* history: paths some user deleted
          overlapped, \* history: two devices had tasks at the same time
          edits

syncVars == <<disk, plans, store, blobStore, latest, prepared, tasks, agrees, erased,
              overlapped, edits>>

Stored == {m \in Manifests : store[m] # NoManifest}
Listed(manifest) == {p \in Paths : manifest.entries[p] # Unlisted}
Content(entry) == IF entry \in {Unlisted, Tombstone} THEN Missing ELSE entry
BlobsOf(manifest) == {manifest.entries[p] : p \in Paths} \ {Unlisted, Tombstone}

SyncInit ==
  /\ disk = [d \in Devices |-> [p \in Paths |-> Missing]]
  /\ plans \in [Devices -> (SUBSET Paths) \ {{}}]
  /\ store = [m \in Manifests |-> NoManifest]
  /\ blobStore = {} /\ latest = 0 /\ prepared = 0
  /\ tasks = [d \in Devices |-> IdleTask]
  /\ agrees = [d \in Devices |-> 0]
  /\ erased = {} /\ overlapped = FALSE /\ edits = 0

remoteVars == <<store, blobStore, latest>>

Begin(d, task) ==
  /\ tasks[d].pc = "idle"
  /\ tasks' = [tasks EXCEPT ![d] = task]
  /\ overlapped' = (overlapped \/ \E e \in Devices \ {d} : tasks[e].pc # "idle")
  /\ agrees' = [agrees EXCEPT ![d] = 0]

Go(d, task) == tasks' = [tasks EXCEPT ![d] = task]

\* The user, or the agent, edits or deletes a file.
EditFile(d, p, content) ==
  /\ edits < MaxEdits /\ disk[d][p] # content
  /\ edits' = edits + 1
  /\ disk' = [disk EXCEPT ![d][p] = content]
  /\ erased' = IF content = Missing THEN erased \union {p} ELSE erased
  /\ agrees' = [agrees EXCEPT ![d] = 0]
  /\ tasks' = [tasks EXCEPT ![d].edited = (@ \/ tasks[d].pc # "idle")]
  /\ UNCHANGED <<plans, remoteVars, prepared, overlapped>>

-----------------------------------------------------------------------------
(* create_upload_and_cleanup_snapshot *)

\* load_latest_manifest; a manifest that is gone is an error.
StartSync(d) ==
  /\ latest # 0 => latest \in Stored
  /\ LET base == IF latest = 0 THEN NoManifest ELSE store[latest]
     IN Begin(d, [IdleTask EXCEPT !.pc = "reconcile", !.base = base, !.todo = Listed(base)])
  /\ UNCHANGED <<disk, plans, remoteVars, prepared, erased, edits>>

\* One file taken from a manifest: removed, fetched and written.  The process
\* may end after the old file is gone.
TakeEntry(d, p, manifest, written) ==
  LET entry == manifest.entries[p] IN
  /\ entry \in {Tombstone, disk[d][p]} \union blobStore
  /\ ~written => entry \notin {Tombstone, disk[d][p]}
  /\ disk' = [disk EXCEPT ![d][p] = IF entry = Tombstone \/ ~written THEN Missing ELSE entry]
  /\ Go(d, IF written THEN [tasks[d] EXCEPT !.todo = @ \ {p}] ELSE IdleTask)

\* reconcile_local_from_remote, entry by entry.
ReconcileEntry(d, p, written) ==
  /\ tasks[d].pc = "reconcile" /\ p \in tasks[d].todo
  /\ TakeEntry(d, p, tasks[d].base, written)
  /\ UNCHANGED <<plans, remoteVars, prepared, agrees, erased, overlapped, edits>>

\* Mutant: every path the device lacks gets a tombstone.
EntriesEager(d) ==
  [p \in Paths |-> IF p \in plans[d] /\ disk[d][p] # Missing THEN disk[d][p] ELSE Tombstone]

\* prepare_manifest: the files of the plan, and tombstones for the other paths
\* of the base.
Entries(d) ==
  [p \in Paths |-> IF p \in plans[d] /\ disk[d][p] # Missing THEN disk[d][p]
                   ELSE IF tasks[d].base.entries[p] = Unlisted THEN Unlisted ELSE Tombstone]

PrepareManifest(d) ==
  /\ tasks[d].pc = "reconcile" /\ tasks[d].todo = {} /\ prepared < MaxManifests
  /\ prepared' = prepared + 1
  /\ LET manifest == [entries |-> Entries(d), scope |-> plans[d]]
     IN Go(d, [tasks[d] EXCEPT !.pc = "blobs", !.manifest = manifest, !.id = prepared + 1,
                               !.todo = BlobsOf(manifest)])
  /\ UNCHANGED <<disk, plans, remoteVars, agrees, erased, overlapped, edits>>

\* upload_prepared_manifest: a blob that exists is not sent again, ...
UploadBlob(d, b) ==
  /\ tasks[d].pc = "blobs" /\ b \in tasks[d].todo
  /\ blobStore' = blobStore \union {b}
  /\ Go(d, [tasks[d] EXCEPT !.todo = @ \ {b}])
  /\ UNCHANGED <<disk, plans, store, latest, prepared, agrees, erased, overlapped, edits>>

\* Mutant: the manifest does not wait for its blobs.
UploadManifestFirst(d) ==
  /\ tasks[d].pc = "blobs"
  /\ store' = [store EXCEPT ![tasks[d].id] = tasks[d].manifest]
  /\ IF tasks[d].todo = {} THEN Go(d, [tasks[d] EXCEPT !.pc = "latest"]) ELSE UNCHANGED tasks
  /\ UNCHANGED <<disk, plans, blobStore, latest, prepared, agrees, erased, overlapped, edits>>

\* ... then the manifest, ...
UploadManifest(d) ==
  /\ tasks[d].pc = "blobs" /\ tasks[d].todo = {}
  /\ store' = [store EXCEPT ![tasks[d].id] = tasks[d].manifest]
  /\ Go(d, [tasks[d] EXCEPT !.pc = "latest"])
  /\ UNCHANGED <<disk, plans, blobStore, latest, prepared, agrees, erased, overlapped, edits>>

\* ... then latest.json.
UploadLatest(d) ==
  /\ tasks[d].pc = "latest"
  /\ latest' = tasks[d].id
  /\ agrees' = [agrees EXCEPT ![d] = IF tasks[d].edited THEN 0 ELSE tasks[d].id]
  /\ Go(d, [tasks[d] EXCEPT !.pc = "list"])
  /\ UNCHANGED <<disk, plans, store, blobStore, prepared, erased, overlapped, edits>>

-----------------------------------------------------------------------------
(* cleanup_remote_snapshots, after a sync or on its own *)

StartCleanup(d) ==
  /\ Begin(d, [IdleTask EXCEPT !.pc = "list"])
  /\ UNCHANGED <<disk, plans, remoteVars, prepared, erased, edits>>

\* keep_last.max(1): the newest one is kept in any case.
Kept == {m \in Stored :
           Cardinality({n \in Stored : n > m}) < IF KeepLast = 0 THEN 1 ELSE KeepLast}

\* The manifests are listed and loaded, those to keep decided.
ListManifests(d) ==
  /\ tasks[d].pc = "list"
  /\ Go(d, [tasks[d] EXCEPT !.pc = "manifests", !.todo = Stored \ Kept,
                            !.needed = UNION {BlobsOf(store[m]) : m \in Kept},
                            !.id = IF Kept = {} THEN 0 ELSE Max(Kept)])
  /\ UNCHANGED <<disk, plans, remoteVars, prepared, agrees, erased, overlapped, edits>>

DeleteManifest(d, m) ==
  /\ tasks[d].pc = "manifests" /\ m \in tasks[d].todo
  /\ store' = [store EXCEPT ![m] = NoManifest]
  /\ Go(d, [tasks[d] EXCEPT !.todo = @ \ {m}])
  /\ UNCHANGED <<disk, plans, blobStore, latest, prepared, agrees, erased, overlapped, edits>>

\* Only then are the blobs listed that no kept manifest needs.
ListBlobs(d) ==
  /\ tasks[d].pc = "manifests" /\ tasks[d].todo = {}
  /\ Go(d, [tasks[d] EXCEPT !.pc = "unneeded", !.todo = blobStore \ tasks[d].needed])
  /\ UNCHANGED <<disk, plans, remoteVars, prepared, agrees, erased, overlapped, edits>>

DeleteBlob(d, b) ==
  /\ tasks[d].pc = "unneeded" /\ b \in tasks[d].todo
  /\ blobStore' = blobStore \ {b}
  /\ Go(d, [tasks[d] EXCEPT !.todo = @ \ {b}])
  /\ UNCHANGED <<disk, plans, store, latest, prepared, agrees, erased, overlapped, edits>>

\* latest.json names the newest manifest kept, or is deleted.
PointLatest(d) ==
  /\ tasks[d].pc = "unneeded" /\ tasks[d].todo = {}
  /\ latest' = tasks[d].id
  /\ Go(d, IdleTask)
  /\ UNCHANGED <<disk, plans, store, blobStore, prepared, agrees, erased, overlapped, edits>>

-----------------------------------------------------------------------------
(* restore_snapshot *)

\* The manifest is loaded and the paths of its scope are cleared.
StartRestore(d, m) ==
  /\ m \in Stored
  /\ Begin(d, [IdleTask EXCEPT !.pc = "restore", !.base = store[m], !.id = m,
                               !.todo = Listed(store[m])])
  /\ disk' = [disk EXCEPT ![d] = [p \in Paths |-> IF p \in store[m].scope THEN Missing ELSE @[p]]]
  /\ UNCHANGED <<plans, remoteVars, prepared, erased, edits>>

RestoreEntry(d, p, written) ==
  /\ tasks[d].pc = "restore" /\ p \in tasks[d].todo
  /\ TakeEntry(d, p, tasks[d].base, written)
  /\ UNCHANGED <<plans, remoteVars, prepared, agrees, erased, overlapped, edits>>

RestoreEnds(d) ==
  /\ tasks[d].pc = "restore" /\ tasks[d].todo = {}
  /\ agrees' = [agrees EXCEPT ![d] = IF tasks[d].edited THEN 0 ELSE tasks[d].id]
  /\ Go(d, IdleTask)
  /\ UNCHANGED <<disk, plans, remoteVars, prepared, erased, overlapped, edits>>

\* A request or a file operation fails, or the program ends.
SyncFails(d) ==
  /\ tasks[d].pc # "idle"
  /\ Go(d, IdleTask)
  /\ UNCHANGED <<disk, plans, remoteVars, prepared, agrees, erased, overlapped, edits>>

SyncNext ==
  \E d \in Devices :
    \/ \E p \in Paths, content \in Blobs \union {Missing} : EditFile(d, p, content)
    \/ StartSync(d) \/ StartCleanup(d) \/ \E m \in Manifests : StartRestore(d, m)
    \/ \E p \in Paths, written \in BOOLEAN :
         ReconcileEntry(d, p, written) \/ RestoreEntry(d, p, written)
    \/ PrepareManifest(d) \/ UploadManifest(d) \/ UploadLatest(d)
    \/ ListManifests(d) \/ ListBlobs(d) \/ PointLatest(d) \/ RestoreEnds(d)
    \/ \E b \in Blobs : UploadBlob(d, b) \/ DeleteBlob(d, b)
    \/ \E m \in Manifests : DeleteManifest(d, m)
    \/ SyncFails(d)

SyncSpec == SyncInit /\ [][SyncNext]_syncVars

-----------------------------------------------------------------------------
(* Properties *)

\* Files, manifests and latest.json of the bucket stay within their types; a
\* tombstone never becomes the content of a file.
SyncTypeOK ==
  /\ disk \in [Devices -> [Paths -> Blobs \union {Missing}]]
  /\ plans \in [Devices -> (SUBSET Paths) \ {{}}]
  /\ store \in [Manifests -> ManifestRecords] /\ blobStore \subseteq Blobs
  /\ latest \in 0 .. MaxManifests /\ prepared \in 0 .. MaxManifests
  /\ tasks \in [Devices -> Tasks] /\ agrees \in [Devices -> 0 .. MaxManifests]
  /\ erased \subseteq Paths /\ overlapped \in BOOLEAN /\ edits \in Nat
  /\ \A m \in Manifests : m > prepared => store[m] = NoManifest

\* Every manifest in the bucket can be restored, and once one was published there
\* always is one, at whatever step syncs and clean-ups were cut off, as long as
\* no two devices worked on the bucket at once (blobs go up before their
\* manifest; manifests come down before their blobs, never the newest).
BucketRestorable ==
  ~overlapped =>
    /\ \A m \in Stored : BlobsOf(store[m]) \subseteq blobStore
    /\ latest # 0 => Stored # {}

\* A device that finished a sync or a restore, and whose files nobody touched
\* meanwhile or since, has the files of that manifest within its plan, whatever
\* other devices did to the bucket in between.
DeviceAgrees ==
  \A d \in Devices : agrees[d] \in Stored =>
    \A p \in store[agrees[d]].scope : disk[d][p] = Content(store[agrees[d]].entries[p])

\* A step of a sync takes the file p from device d only if some user deleted it.
KeepsFile(d, p) ==
  /\ disk[d][p] # Missing /\ disk'[d][p] = Missing
  /\ tasks[d].pc = "reconcile" /\ tasks'[d].pc = "reconcile"
  /\ \A e \in Devices : p \in plans[e]
  => p \in erased'

\* A file every device backs up is removed from a device by syncs only if some
\* user deleted it somewhere, however syncs of devices overlap and fail (a new
\* manifest has a tombstone only for a path its base lists and the device no
\* longer has); only a write that is cut off may leave it missing.
FilesKept == [][\A d \in Devices, p \in Paths : KeepsFile(d, p)]_syncVars

\* klaw-storage/CHANGELOG.md: the clean-up refreshes latest.json after pruning "so
\* the latest pointer stays consistent".  latest.json would then always name a
\* manifest that is there, which a sync needs to begin with.
\* It does not hold and no run checks it (README.md).
LatestConsistent == latest # 0 => latest \in Stored
=============================================================================
