---------------------------- MODULE BackupProofs ----------------------------
(***************************************************************************)
(* Proofs about the backup of files as manifests and blobs in a bucket,    *)
(* for any number of devices, paths and manifests, and tasks cut off       *)
(* anywhere.                                                               *)
(***************************************************************************)
EXTENDS ManifestSync, FiniteSetTheorems, WellFoundedInduction, TLAPS

\* As long as one device at a time works on the bucket: what its task has done
\* so far, and what it is about to delete.
BucketFacts(d) ==
  LET t == tasks[d] IN
  /\ t.pc = "blobs" => BlobsOf(t.manifest) \subseteq blobStore \union t.todo
  /\ t.pc = "latest" => t.id \in Stored
  /\ t.pc = "manifests" =>
       /\ \A m \in Stored \ t.todo : BlobsOf(store[m]) \subseteq t.needed
       /\ IF t.id = 0 THEN Stored = {} ELSE t.id \in Stored \ t.todo
  /\ t.pc = "unneeded" =>
       /\ \A m \in Stored : BlobsOf(store[m]) \intersect t.todo = {}
       /\ IF t.id = 0 THEN Stored = {} ELSE t.id \in Stored

BucketInv ==
  ~overlapped =>
    /\ \A d, e \in Devices : tasks[d].pc # "idle" /\ tasks[e].pc # "idle" => d = e
    /\ \A d \in Devices : BucketFacts(d)

\* What the task of a device is about to publish has an id of its own.
UploadFacts(d) ==
  LET t == tasks[d] IN
  t.pc \in {"blobs", "latest"} =>
    /\ t.id \in 1 .. prepared /\ t.manifest.scope # {}
    /\ \A e \in Devices \ {d} : /\ tasks[e].pc \in {"blobs", "latest"} => tasks[e].id # t.id
                                /\ t.pc = "blobs" => agrees[e] # t.id
    /\ t.pc = "blobs" => store[t.id] = NoManifest
    /\ t.pc = "latest" => store[t.id] \in {t.manifest, NoManifest}

\* A file every device backs up and nobody deleted has no tombstone anywhere, and
\* is there once a sync has gone over it.
PathKept(p) ==
  /\ \A m \in Manifests : store[m].entries[p] # Tombstone
  /\ \A d \in Devices :
       /\ tasks[d].base.entries[p] # Tombstone /\ tasks[d].manifest.entries[p] # Tombstone
       /\ tasks[d].pc = "reconcile" /\ p \notin tasks[d].todo /\ tasks[d].base.entries[p] # Unlisted
          => disk[d][p] # Missing

PathInv == \A p \in Paths : (\A e \in Devices : p \in plans[e]) /\ p \notin erased => PathKept(p)

\* A device agrees with the manifest it took on, and with the one it is publishing
\* or restoring as far as it has come.
HasFiles(d, manifest, paths) == \A p \in paths : disk[d][p] = Content(manifest.entries[p])

DeviceFacts(d) ==
  LET t == tasks[d] IN
  /\ agrees[d] \in 1 .. prepared /\ store[agrees[d]] # NoManifest =>
       HasFiles(d, store[agrees[d]], store[agrees[d]].scope)
  /\ agrees[d] <= prepared
  /\ t.pc \in {"reconcile", "blobs", "latest", "restore"} => agrees[d] = 0
  /\ t.pc \in {"blobs", "latest"} /\ ~t.edited => HasFiles(d, t.manifest, t.manifest.scope)
  /\ t.pc = "restore" =>
       /\ t.id \in 1 .. prepared /\ store[t.id] \in {t.base, NoManifest}
       /\ \A e \in Devices : tasks[e].pc = "blobs" => tasks[e].id # t.id
       /\ ~t.edited => HasFiles(d, t.base, t.base.scope \ t.todo)

SyncInv ==
  /\ SyncTypeOK
  /\ BucketRestorable /\ BucketInv
  /\ \A d \in Devices : UploadFacts(d)

DeviceInv == \A d \in Devices : DeviceFacts(d)

StorageInv == SyncInv /\ PathInv /\ DeviceInv

\* A bounded set of numbers has a greatest one.
LEMMA MaxExists ==
    ASSUME NEW n \in Nat, NEW S, S \subseteq 1 .. n, S # {}
    PROVE  Max(S) \in S /\ \A y \in S : Max(S) >= y
  <1> DEFINE T == {n - x : x \in S}
             R == OpToRel(<, Nat)
  <1>0. PICK z \in S : TRUE
    BY Zenon
  <1>1. T \subseteq Nat /\ T # {}
    <2>1. T \subseteq Nat
      OBVIOUS
    <2>2. n - z \in T
      BY <1>0, Zenon
    <2> HIDE DEF T
    <2> QED
      BY <2>1, <2>2, Zenon
  <1>2. PICK t \in T : \A u \in T : ~(<<u, t>> \in R)
    <2> HIDE DEF T, R
    <2> QED
      BY <1>1, WFMin, NatLessThanWellFounded, Zenon DEF R
  <1>3. \A u \in T : ~(u < t)
    BY <1>1, <1>2, Zenon DEF OpToRel
  <1>4. PICK x \in S : t = n - x
    BY Zenon
  <1>5. \A y \in S : x >= y
    <2> SUFFICES ASSUME NEW y \in S PROVE x >= y
      BY Zenon
    <2>1. n - y \in T
      BY Zenon
    <2> HIDE DEF T
    <2> QED
      BY <1>3, <1>4, <2>1
  <1> QED
    BY <1>5, Zenon DEF Max

LEMMA SyncConstants ==
  /\ NoManifest \in ManifestRecords /\ NoManifest.scope = {}
  /\ \A p \in Paths : NoManifest.entries[p] = Unlisted
  /\ IdleTask \in Tasks /\ IdleTask.pc = "idle" /\ IdleTask.base = NoManifest
  /\ IdleTask.manifest = NoManifest /\ IdleTask.todo = {} /\ IdleTask.edited = FALSE /\ IdleTask.id = 0
  <1>1. NoManifest \in ManifestRecords /\ NoManifest.scope = {}
    BY Zenon DEF NoManifest, ManifestRecords
  <1>2. \A p \in Paths : NoManifest.entries[p] = Unlisted
    BY Zenon DEF NoManifest
  <1>3. 0 \in 0 .. MaxManifests
    BY SyncAssumption
  <1> QED
    BY <1>1, <1>2, <1>3, Zenon DEF IdleTask, Tasks, Phases

LEMMA BlobsTyped ==
    ASSUME NEW manifest \in ManifestRecords
    PROVE  BlobsOf(manifest) \subseteq Blobs
  BY Zenon DEF BlobsOf, ManifestRecords

LEMMA NewestKept ==
    ASSUME SyncTypeOK
    PROVE  /\ Kept \subseteq Stored
           /\ Kept = {} => Stored = {}
           /\ Kept # {} => Max(Kept) \in Kept
  <1>1. Stored \subseteq 1 .. MaxManifests /\ Kept \subseteq Stored /\ MaxManifests \in Nat
    BY SyncAssumption, Zenon DEF Stored, Kept, Manifests
  <1>2. Kept # {} => Max(Kept) \in Kept
    BY <1>1, MaxExists, Zenon
  <1>3. ASSUME Stored # {} PROVE Kept # {}
    <2>1. Max(Stored) \in Stored /\ \A y \in Stored : Max(Stored) >= y
      BY <1>1, <1>3, MaxExists, Zenon
    <2>2. {n \in Stored : n > Max(Stored)} = {}
      <3> SUFFICES ASSUME NEW n \in Stored, n > Max(Stored) PROVE FALSE
        BY Zenon
      <3> DEFINE x == Max(Stored)
      <3>1. x \in Stored /\ x >= n /\ n > x
        BY <2>1, Zenon
      <3> HIDE DEF x
      <3>2. x \in Nat /\ n \in Nat
        BY <1>1, <3>1
      <3> QED
        BY <3>1, <3>2
    <2>3. Cardinality({n \in Stored : n > Max(Stored)}) = 0
      BY <2>2, FS_EmptySet, Zenon
    <2> DEFINE limit == IF KeepLast = 0 THEN 1 ELSE KeepLast
    <2>4. 0 < limit
      BY SyncAssumption
    <2>5. Kept = {m \in Stored : Cardinality({n \in Stored : n > m}) < limit}
      BY Zenon DEF Kept
    <2> HIDE DEF limit
    <2>6. Max(Stored) \in Kept
      BY <2>1, <2>3, <2>4, <2>5, Zenon
    <2> QED
      BY <2>6, Zenon
  <1> QED
    BY <1>1, <1>2, <1>3, Zenon

LEMMA StorageStart == SyncInit => StorageInv
  <1> SUFFICES ASSUME SyncInit PROVE StorageInv
    BY Zenon
  <1>0. 0 \in 0 .. MaxManifests /\ 0 \in Nat
    BY SyncAssumption
  <1>1. SyncTypeOK
    <2>1. /\ store \in [Manifests -> ManifestRecords] /\ tasks \in [Devices -> Tasks]
          /\ disk \in [Devices -> [Paths -> Blobs \union {Missing}]]
      BY SyncConstants, Zenon DEF SyncInit
    <2>2. /\ latest \in 0 .. MaxManifests /\ prepared \in 0 .. MaxManifests
          /\ agrees \in [Devices -> 0 .. MaxManifests] /\ edits \in Nat
      BY <1>0, Zenon DEF SyncInit
    <2>3. \A m \in Manifests : store[m] = NoManifest
      BY Zenon DEF SyncInit
    <2>4. /\ blobStore \subseteq Blobs /\ erased \subseteq Paths /\ overlapped \in BOOLEAN
          /\ plans \in [Devices -> (SUBSET Paths) \ {{}}]
      BY Zenon DEF SyncInit
    <2> QED
      BY <2>1, <2>2, <2>3, <2>4, Zenon DEF SyncTypeOK
  <1>2. Stored = {} /\ latest = 0 /\ \A d \in Devices : tasks[d] = IdleTask /\ agrees[d] = 0
    BY Zenon DEF SyncInit, Stored
  <1>3. SyncInv
    BY <1>1, <1>2, SyncConstants, Zenon DEF SyncInv, BucketRestorable, BucketInv, BucketFacts, UploadFacts
  <1>4. PathInv
    <2>1. \A m \in Manifests : store[m] = NoManifest
      BY Zenon DEF SyncInit
    <2> QED
      BY <1>2, <2>1, SyncConstants, Zenon DEF PathInv, PathKept, Unlisted, Tombstone
  <1>5. DeviceInv
    <2>1. prepared = 0 /\ ~(0 \in 1 .. 0)
      BY DEF SyncInit
    <2> QED
      BY <1>2, <2>1, SyncConstants DEF DeviceInv, DeviceFacts
  <1> QED
    BY <1>3, <1>4, <1>5, Zenon DEF StorageInv

\* A task that goes on while no other device works changes no other task.
LEMMA BucketStep ==
    ASSUME BucketInv, SyncTypeOK, NEW d \in Devices, tasks[d].pc # "idle",
           \A e \in Devices \ {d} : tasks'[e] = tasks[e],
           overlapped' = overlapped, ~overlapped => BucketFacts(d)'
    PROVE  BucketInv'
  <1> SUFFICES ASSUME ~overlapped' PROVE BucketInv'
    BY Zenon DEF BucketInv
  <1>1. \A e \in Devices \ {d} : tasks'[e].pc = "idle"
    BY Zenon DEF BucketInv
  <1>2. \A e \in Devices : BucketFacts(e)'
    BY <1>1, Zenon DEF BucketFacts
  <1> QED
    BY <1>1, <1>2, Zenon DEF BucketInv

LEMMA EditFileOK ==
    ASSUME StorageInv, NEW d \in Devices, NEW p \in Paths, NEW content \in Blobs \union {Missing},
           EditFile(d, p, content)
    PROVE  StorageInv'
  <1> DEFINE t == [tasks[d] EXCEPT !.edited = (@ \/ tasks[d].pc # "idle")]
  <1>0. /\ SyncTypeOK /\ tasks[d] \in Tasks
        /\ UNCHANGED <<plans, store, blobStore, latest, prepared, overlapped>>
        /\ disk' = [disk EXCEPT ![d][p] = content]
        /\ agrees' = [agrees EXCEPT ![d] = 0] /\ tasks' = [tasks EXCEPT ![d] = t]
        /\ erased \subseteq erased' /\ erased' \subseteq Paths /\ (content = Missing => p \in erased')
        /\ edits' \in Nat
    BY DEF StorageInv, SyncInv, SyncTypeOK, EditFile, remoteVars
  <1>1. /\ t \in Tasks /\ t.pc = tasks[d].pc /\ t.base = tasks[d].base /\ t.todo = tasks[d].todo
        /\ t.manifest = tasks[d].manifest /\ t.id = tasks[d].id /\ t.needed = tasks[d].needed
    BY <1>0, Zenon DEF Tasks
  <1>2. tasks[d].pc # "idle" => t.edited
    BY <1>0, Zenon DEF Tasks
  <1> HIDE DEF t
  <1>3. /\ tasks' \in [Devices -> Tasks] /\ tasks'[d] = t
        /\ \A e \in Devices \ {d} : tasks'[e] = tasks[e]
    BY <1>0, <1>1, Zenon DEF SyncTypeOK
  <1>4. /\ disk' \in [Devices -> [Paths -> Blobs \union {Missing}]]
        /\ \A e \in Devices \ {d} : disk'[e] = disk[e]
        /\ disk'[d][p] = content /\ \A q \in Paths \ {p} : disk'[d][q] = disk[d][q]
    BY <1>0, Zenon DEF SyncTypeOK
  <1>5. /\ agrees' \in [Devices -> 0 .. MaxManifests] /\ agrees'[d] = 0
        /\ \A e \in Devices \ {d} : agrees'[e] = agrees[e]
    BY <1>0, SyncAssumption DEF SyncTypeOK
  <1>6. SyncTypeOK'
    BY <1>0, <1>3, <1>4, <1>5, Zenon DEF SyncTypeOK
  <1>7. BucketRestorable' /\ BucketInv'
    <2>1. /\ Stored' = Stored
          /\ \A e \in Devices : /\ tasks'[e].pc = tasks[e].pc /\ tasks'[e].manifest = tasks[e].manifest
                                 /\ tasks'[e].todo = tasks[e].todo /\ tasks'[e].id = tasks[e].id
                                 /\ tasks'[e].needed = tasks[e].needed
      BY <1>0, <1>1, <1>3, Zenon DEF Stored
    <2>2. BucketRestorable'
      BY <1>0, <2>1 DEF StorageInv, SyncInv, BucketRestorable, BlobsOf
    <2>3. \A e \in Devices : BucketFacts(e) => BucketFacts(e)'
      BY <1>0, <2>1, SMTT(30) DEF BucketFacts, BlobsOf
    <2> QED
      BY <1>0, <2>1, <2>2, <2>3 DEF StorageInv, SyncInv, BucketInv
  <1>8. ASSUME NEW e \in Devices PROVE UploadFacts(e)'
    <2>1. /\ \A f \in Devices : /\ tasks'[f].pc = tasks[f].pc /\ tasks'[f].manifest = tasks[f].manifest
                                 /\ tasks'[f].id = tasks[f].id
                                 /\ agrees'[f] \in {0, agrees[f]}
      BY <1>1, <1>3, <1>5, Zenon
    <2>2. UploadFacts(e)
      BY Zenon DEF StorageInv, SyncInv
    <2>3. \A m \in 1 .. prepared : m # 0
      OBVIOUS
    <2> QED
      BY <1>0, <2>1, <2>2, <2>3 DEF UploadFacts
  <1>9. PathInv'
    <2> SUFFICES ASSUME NEW q \in Paths, \A e \in Devices : q \in plans[e], q \notin erased'
                 PROVE  PathKept(q)'
      BY <1>0, Zenon DEF PathInv
    <2>1. PathKept(q)
      BY <1>0, Zenon DEF StorageInv, PathInv
    <2>2. q = p => content # Missing
      BY <1>0, Zenon
    <2>3. ASSUME NEW e \in Devices
          PROVE  /\ tasks'[e].pc = tasks[e].pc /\ tasks'[e].manifest = tasks[e].manifest
                 /\ tasks'[e].todo = tasks[e].todo /\ tasks'[e].base = tasks[e].base
                 /\ disk'[e][q] = disk[e][q] \/ disk'[e][q] # Missing
      BY <1>1, <1>3, <1>4, <2>2, Zenon
    <2> QED
      BY <1>0, <2>1, <2>3 DEF PathKept
  <1>10. ASSUME NEW e \in Devices PROVE DeviceFacts(e)'
    <2>1. DeviceFacts(e)
      BY Zenon DEF StorageInv, DeviceInv
    <2>2. /\ \A f \in Devices : tasks'[f].pc = tasks[f].pc /\ tasks'[f].id = tasks[f].id
      BY <1>1, <1>3, ZenonT(30)
    <2>3. CASE e = d
      BY <1>0, <1>1, <1>2, <1>3, <1>5, <1>6, <2>1, <2>2, <2>3 DEF DeviceFacts, SyncTypeOK
    <2>4. CASE e # d
      BY <1>0, <1>3, <1>4, <1>5, <2>1, <2>2, <2>4 DEF DeviceFacts, HasFiles
    <2> QED
      BY <2>3, <2>4, Zenon
  <1> QED
    BY <1>6, <1>7, <1>8, <1>9, <1>10, Zenon DEF StorageInv, SyncInv, DeviceInv

\* A device that is idle begins a task.
LEMMA BeginFacts ==
    ASSUME SyncTypeOK, NEW d \in Devices, NEW t \in Tasks, Begin(d, t)
    PROVE  /\ tasks[d].pc = "idle"
           /\ tasks' \in [Devices -> Tasks] /\ tasks'[d] = t
           /\ \A e \in Devices \ {d} : tasks'[e] = tasks[e]
           /\ agrees' \in [Devices -> 0 .. MaxManifests] /\ agrees'[d] = 0
           /\ \A e \in Devices \ {d} : agrees'[e] = agrees[e]
           /\ overlapped' \in BOOLEAN
           /\ ~overlapped' => ~overlapped /\ \A e \in Devices \ {d} : tasks[e].pc = "idle"
  <1>1. 0 \in 0 .. MaxManifests
    BY SyncAssumption
  <1> QED
    BY <1>1, Zenon DEF SyncTypeOK, Begin

\* A task goes on.
LEMMA GoFacts ==
    ASSUME SyncTypeOK, NEW d \in Devices, NEW t \in Tasks, Go(d, t)
    PROVE  /\ tasks' \in [Devices -> Tasks] /\ tasks'[d] = t
           /\ \A e \in Devices \ {d} : tasks'[e] = tasks[e]
  BY Zenon DEF SyncTypeOK, Go

\* What a task begins with: nothing done yet, on a manifest of the bucket.
LEMMA BeginOK ==
    ASSUME StorageInv, NEW d \in Devices, NEW t \in Tasks, Begin(d, t),
           UNCHANGED <<plans, store, blobStore, latest, prepared, erased, edits>>,
           disk' \in [Devices -> [Paths -> Blobs \union {Missing}]],
           \A e \in Devices \ {d} : disk'[e] = disk[e],
           t.pc \in {"reconcile", "list", "restore"}, t.manifest = NoManifest,
           t.base = NoManifest \/ \E m \in Manifests : t.base = store[m],
           t.pc = "reconcile" => t.todo = Listed(t.base),
           t.pc = "restore" => t.id \in Stored /\ t.base = store[t.id]
                               /\ \A p \in t.base.scope \ t.todo :
                                    disk'[d][p] = Content(t.base.entries[p])
    PROVE  StorageInv'
  <1>0. SyncTypeOK /\ SyncInv /\ PathInv /\ DeviceInv
    BY Zenon DEF StorageInv, SyncInv
  <1>1. /\ tasks[d].pc = "idle"
        /\ tasks' \in [Devices -> Tasks] /\ tasks'[d] = t
        /\ \A e \in Devices \ {d} : tasks'[e] = tasks[e]
        /\ agrees' \in [Devices -> 0 .. MaxManifests] /\ agrees'[d] = 0
        /\ \A e \in Devices \ {d} : agrees'[e] = agrees[e]
        /\ overlapped' \in BOOLEAN
        /\ ~overlapped' => ~overlapped /\ \A e \in Devices \ {d} : tasks[e].pc = "idle"
    BY <1>0, BeginFacts, Zenon
  <1>2. SyncTypeOK'
    BY <1>0, <1>1, Zenon DEF SyncTypeOK
  <1>3. Stored' = Stored
    BY Zenon DEF Stored
  <1>4. BucketRestorable'
    BY <1>0, <1>1, <1>3 DEF SyncInv, BucketRestorable, BlobsOf
  <1>5. BucketInv'
    <2> SUFFICES ASSUME ~overlapped' PROVE BucketInv'
      BY Zenon DEF BucketInv
    <2>1. \A e \in Devices \ {d} : tasks'[e].pc = "idle"
      BY <1>1, Zenon
    <2>2. \A e \in Devices : BucketFacts(e)'
      BY <1>1, <2>1, Zenon DEF BucketFacts
    <2> QED
      BY <2>1, <2>2, Zenon DEF BucketInv
  <1>6. ASSUME NEW e \in Devices PROVE UploadFacts(e)'
    <2>1. UploadFacts(e)
      BY <1>0, Zenon DEF SyncInv
    <2>2. CASE e = d
      BY <1>1, <2>2, ZenonT(30) DEF UploadFacts
    <2>3. CASE e # d
      <3>1. \A f \in Devices : agrees'[f] \in {0, agrees[f]}
        BY <1>1, Zenon
      <3>2. \A m \in 1 .. prepared : m # 0
        BY SMTT(30)
      <3> QED
        BY <1>1, <2>1, <2>3, <3>1, <3>2, SMTT(30) DEF UploadFacts
    <2> QED
      BY <2>2, <2>3, Zenon
  <1>7. PathInv'
    <2> SUFFICES ASSUME NEW q \in Paths, \A e \in Devices : q \in plans[e], q \notin erased
                 PROVE  PathKept(q)'
      BY Zenon DEF PathInv
    <2>1. PathKept(q)
      BY <1>0, Zenon DEF PathInv
    <2>2. t.base.entries[q] # Tombstone /\ t.manifest.entries[q] # Tombstone
      BY <2>1, SyncConstants, Zenon DEF PathKept, Unlisted, Tombstone
    <2>3. t.pc = "reconcile" /\ q \notin t.todo => t.base.entries[q] = Unlisted
      BY Zenon DEF Listed
    <2> QED
      BY <1>1, <2>1, <2>2, <2>3 DEF PathKept
  <1>8. ASSUME NEW e \in Devices PROVE DeviceFacts(e)'
    <2>1. DeviceFacts(e)
      BY <1>0, ZenonT(30) DEF DeviceInv
    <2>2. prepared \in Nat /\ 0 <= prepared /\ ~(0 \in 1 .. prepared)
      BY <1>0 DEF SyncTypeOK
    <2>3. CASE e = d
      <3>1. t.pc = "restore" => t.id \in 1 .. prepared /\ store[t.id] # NoManifest
        BY <1>0, SyncAssumption DEF Stored, SyncTypeOK, Manifests
      <3>2. \A f \in Devices : tasks[f].pc = "blobs" => store[tasks[f].id] = NoManifest
        BY <1>0, Zenon DEF SyncInv, UploadFacts
      <3>3. \A f \in Devices : t.pc = "restore" /\ tasks'[f].pc = "blobs" => tasks'[f].id # t.id
        BY <1>1, <3>1, <3>2, SMTT(30)
      <3> QED
        BY <1>1, <2>2, <2>3, <3>1, <3>3, ZenonT(30) DEF DeviceFacts, HasFiles
    <2>4. CASE e # d
      BY <1>1, <2>1, <2>4, SMTT(30) DEF DeviceFacts, HasFiles
    <2> QED
      BY <2>3, <2>4, Zenon
  <1> QED
    BY <1>2, <1>4, <1>5, <1>6, <1>7, <1>8, Zenon DEF StorageInv, SyncInv, DeviceInv

LEMMA StartSyncOK ==
    ASSUME StorageInv, NEW d \in Devices, StartSync(d)
    PROVE  StorageInv'
  <1> DEFINE base == IF latest = 0 THEN NoManifest ELSE store[latest]
             t == [IdleTask EXCEPT !.pc = "reconcile", !.base = base, !.todo = Listed(base)]
  <1>0. SyncTypeOK
    BY Zenon DEF StorageInv, SyncInv
  <1>1. base \in ManifestRecords /\ (base = NoManifest \/ \E m \in Manifests : base = store[m])
    BY <1>0, SyncConstants, Zenon DEF StartSync, Stored, SyncTypeOK
  <1>2. Begin(d, t) /\ UNCHANGED <<disk, plans, store, blobStore, latest, prepared, erased, edits>>
    BY Zenon DEF StartSync, remoteVars
  <1> HIDE DEF base
  <1>3. /\ t \in Tasks /\ t.pc = "reconcile" /\ t.base = base /\ t.manifest = NoManifest
        /\ t.todo = Listed(base)
    BY <1>1, SyncConstants, Zenon DEF Tasks, Phases, Listed
  <1> HIDE DEF t
  <1> QED
    BY <1>0, <1>1, <1>2, <1>3, BeginOK, Zenon DEF SyncTypeOK

LEMMA StartCleanupOK ==
    ASSUME StorageInv, NEW d \in Devices, StartCleanup(d)
    PROVE  StorageInv'
  <1> DEFINE t == [IdleTask EXCEPT !.pc = "list"]
  <1>0. SyncTypeOK
    BY Zenon DEF StorageInv, SyncInv
  <1>1. Begin(d, t) /\ UNCHANGED <<disk, plans, store, blobStore, latest, prepared, erased, edits>>
    BY Zenon DEF StartCleanup, remoteVars
  <1>2. t \in Tasks /\ t.pc = "list" /\ t.base = NoManifest /\ t.manifest = NoManifest
    BY SyncConstants, Zenon DEF Tasks, Phases
  <1> HIDE DEF t
  <1> QED
    BY <1>0, <1>1, <1>2, BeginOK, Zenon DEF SyncTypeOK

LEMMA StartRestoreOK ==
    ASSUME StorageInv, NEW d \in Devices, NEW m \in Manifests, StartRestore(d, m)
    PROVE  StorageInv'
  <1> DEFINE t == [IdleTask EXCEPT !.pc = "restore", !.base = store[m], !.id = m,
                                   !.todo = Listed(store[m])]
             files == [p \in Paths |-> IF p \in store[m].scope THEN Missing ELSE disk[d][p]]
  <1>0. SyncTypeOK
    BY Zenon DEF StorageInv, SyncInv
  <1>1. /\ Begin(d, t) /\ UNCHANGED <<plans, store, blobStore, latest, prepared, erased, edits>>
        /\ m \in Stored /\ disk' = [disk EXCEPT ![d] = files]
    BY Zenon DEF StartRestore, remoteVars
  <1>2. store[m] \in ManifestRecords /\ m \in 0 .. MaxManifests
    BY <1>0, SyncAssumption DEF SyncTypeOK, Manifests
  <1>3. /\ t \in Tasks /\ t.pc = "restore" /\ t.base = store[m] /\ t.manifest = NoManifest
        /\ t.todo = Listed(store[m]) /\ t.id = m
    BY <1>2, SyncConstants, Zenon DEF Tasks, Phases, Listed
  <1> HIDE DEF t
  <1>4. files \in [Paths -> Blobs \union {Missing}] /\ \A p \in store[m].scope : files[p] = Missing
    BY <1>0, <1>2 DEF SyncTypeOK, ManifestRecords
  <1> HIDE DEF files
  <1>5. /\ disk' \in [Devices -> [Paths -> Blobs \union {Missing}]] /\ disk'[d] = files
        /\ \A e \in Devices \ {d} : disk'[e] = disk[e]
    BY <1>0, <1>1, <1>4, Zenon DEF SyncTypeOK
  <1>6. \A p \in t.base.scope \ t.todo : disk'[d][p] = Content(t.base.entries[p])
    <2> SUFFICES ASSUME NEW p \in store[m].scope \ Listed(store[m])
                 PROVE  disk'[d][p] = Content(store[m].entries[p])
      BY <1>3, Zenon
    <2>1. store[m].entries[p] = Unlisted
      BY <1>2, Zenon DEF Listed, ManifestRecords
    <2> QED
      BY <1>4, <1>5, <2>1, Zenon DEF Content
  <1> QED
    BY <1>1, <1>3, <1>5, <1>6, BeginOK, Zenon

\* A step of a task that touches neither files nor manifests.
LEMMA TaskStep ==
    ASSUME StorageInv, NEW d \in Devices, tasks[d].pc # "idle", NEW t \in Tasks, Go(d, t),
           UNCHANGED <<disk, plans, store, prepared, agrees, erased, overlapped, edits>>,
           blobStore' \subseteq Blobs, latest' \in 0 .. MaxManifests, BucketRestorable',
           t.pc \in {"idle", "blobs", "list", "manifests", "unneeded"},
           t.base \in {tasks[d].base, NoManifest}, t.manifest \in {tasks[d].manifest, NoManifest},
           t.pc = "blobs" => /\ tasks[d].pc = "blobs" /\ t.id = tasks[d].id
                             /\ t.manifest = tasks[d].manifest /\ t.edited = tasks[d].edited,
           ~overlapped => BucketFacts(d)'
    PROVE  StorageInv'
  <1>0. SyncTypeOK /\ SyncInv /\ PathInv /\ DeviceInv
    BY Zenon DEF StorageInv, SyncInv
  <1>1. /\ tasks' \in [Devices -> Tasks] /\ tasks'[d] = t
        /\ \A e \in Devices \ {d} : tasks'[e] = tasks[e]
    BY <1>0, GoFacts, Zenon
  <1>2. SyncTypeOK'
    BY <1>0, <1>1, Zenon DEF SyncTypeOK
  <1>3. BucketInv'
    BY <1>0, <1>1, BucketStep, Zenon DEF SyncInv
  <1>4. ASSUME NEW e \in Devices PROVE UploadFacts(e)'
    <2>1. UploadFacts(e) /\ UploadFacts(d)
      BY <1>0, Zenon DEF SyncInv
    <2>2. CASE e = d
      BY <1>1, <2>1, <2>2, ZenonT(30) DEF UploadFacts
    <2>3. CASE e # d
      BY <1>1, <2>1, <2>3 DEF UploadFacts
    <2> QED
      BY <2>2, <2>3, Zenon
  <1>5. PathInv'
    <2> SUFFICES ASSUME NEW q \in Paths, \A e \in Devices : q \in plans[e], q \notin erased
                 PROVE  PathKept(q)'
      BY Zenon DEF PathInv
    <2>1. PathKept(q)
      BY <1>0, Zenon DEF PathInv
    <2>2. t.base.entries[q] # Tombstone /\ t.manifest.entries[q] # Tombstone
      BY <2>1, SyncConstants, Zenon DEF PathKept, Unlisted, Tombstone
    <2> QED
      BY <1>1, <2>1, <2>2, Zenon DEF PathKept
  <1>6. ASSUME NEW e \in Devices PROVE DeviceFacts(e)'
    <2>1. DeviceFacts(e) /\ DeviceFacts(d)
      BY <1>0, Zenon DEF DeviceInv
    <2>2. CASE e = d
      BY <1>1, <2>1, <2>2, ZenonT(30) DEF DeviceFacts, HasFiles
    <2>3. CASE e # d
      <3>1. \A f \in Devices : tasks'[f].pc = "blobs" =>
                                 tasks[f].pc = "blobs" /\ tasks'[f].id = tasks[f].id
        BY <1>1, Zenon
      <3> QED
        BY <1>1, <2>1, <2>3, <3>1, ZenonT(30) DEF DeviceFacts, HasFiles
    <2> QED
      BY <2>2, <2>3, Zenon
  <1> QED
    BY <1>2, <1>3, <1>4, <1>5, <1>6, Zenon DEF StorageInv, SyncInv, DeviceInv

LEMMA SyncFailsOK ==
    ASSUME StorageInv, NEW d \in Devices, SyncFails(d)
    PROVE  StorageInv'
  <1>0. SyncTypeOK /\ SyncInv
    BY Zenon DEF StorageInv, SyncInv
  <1>1. /\ tasks[d].pc # "idle" /\ Go(d, IdleTask)
        /\ UNCHANGED <<disk, plans, store, blobStore, latest, prepared, agrees, erased, overlapped, edits>>
    BY ZenonT(30) DEF SyncFails, remoteVars
  <1>2. BucketRestorable'
    BY <1>0, <1>1, Zenon DEF SyncInv, BucketRestorable, BlobsOf, Stored
  <1>3. BucketFacts(d)'
    BY <1>0, <1>1, SyncConstants, GoFacts, Zenon DEF BucketFacts
  <1> QED
    BY <1>0, <1>1, <1>2, <1>3, SyncConstants, TaskStep, Zenon DEF SyncTypeOK

LEMMA UploadBlobOK ==
    ASSUME StorageInv, NEW d \in Devices, NEW b \in Blobs, UploadBlob(d, b)
    PROVE  StorageInv'
  <1> DEFINE t == [tasks[d] EXCEPT !.todo = @ \ {b}]
  <1>0. SyncTypeOK /\ SyncInv /\ tasks[d] \in Tasks
    BY Zenon DEF StorageInv, SyncInv, SyncTypeOK
  <1>1. /\ tasks[d].pc = "blobs" /\ Go(d, t) /\ blobStore' = blobStore \union {b}
        /\ UNCHANGED <<disk, plans, store, latest, prepared, agrees, erased, overlapped, edits>>
    BY Zenon DEF UploadBlob
  <1>2. /\ t \in Tasks /\ t.pc = "blobs" /\ t.base = tasks[d].base /\ t.manifest = tasks[d].manifest
        /\ t.id = tasks[d].id /\ t.edited = tasks[d].edited /\ t.todo = tasks[d].todo \ {b}
    BY <1>0, <1>1, Zenon DEF Tasks
  <1> HIDE DEF t
  <1>3. BucketRestorable'
    BY <1>0, <1>1, ZenonT(30) DEF SyncInv, BucketRestorable, BlobsOf, Stored
  <1>4. ASSUME ~overlapped PROVE BucketFacts(d)'
    <2>1. BlobsOf(tasks[d].manifest) \subseteq blobStore \union tasks[d].todo
      BY <1>0, <1>1, <1>4, Zenon DEF SyncInv, BucketInv, BucketFacts
    <2>2. tasks'[d] = t
      BY <1>0, <1>1, <1>2, GoFacts, Zenon
    <2> QED
      BY <1>1, <1>2, <2>1, <2>2 DEF BucketFacts, BlobsOf
  <1> QED
    BY <1>0, <1>1, <1>2, <1>3, <1>4, TaskStep, Zenon DEF SyncTypeOK

LEMMA ListManifestsOK ==
    ASSUME StorageInv, NEW d \in Devices, ListManifests(d)
    PROVE  StorageInv'
  <1> DEFINE needed == UNION {BlobsOf(store[m]) : m \in Kept}
             id == IF Kept = {} THEN 0 ELSE Max(Kept)
             t == [tasks[d] EXCEPT !.pc = "manifests", !.todo = Stored \ Kept,
                                   !.needed = needed, !.id = id]
  <1>0. SyncTypeOK /\ SyncInv /\ tasks[d] \in Tasks
    BY Zenon DEF StorageInv, SyncInv, SyncTypeOK
  <1>1. /\ tasks[d].pc = "list" /\ Go(d, t)
        /\ UNCHANGED <<disk, plans, store, blobStore, latest, prepared, agrees, erased, overlapped, edits>>
    BY Zenon DEF ListManifests, remoteVars
  <1>2. needed \subseteq Blobs
    BY <1>0, BlobsTyped, Zenon DEF SyncTypeOK, Kept, Stored
  <1>3. /\ id \in 0 .. MaxManifests
        /\ IF id = 0 THEN Stored = {} ELSE id \in Stored /\ id \in Kept
    BY <1>0, NewestKept, SyncAssumption DEF Stored, Manifests
  <1>4. /\ \A m \in Kept : BlobsOf(store[m]) \subseteq needed
        /\ Stored \ Kept \subseteq Manifests
    BY Zenon DEF Stored
  <1> HIDE DEF needed, id
  <1>5. /\ t \in Tasks /\ t.pc = "manifests" /\ t.base = tasks[d].base
        /\ t.manifest = tasks[d].manifest /\ t.id = id /\ t.needed = needed
        /\ t.todo = Stored \ Kept
    BY <1>0, <1>2, <1>3, <1>4, Zenon DEF Tasks, Phases
  <1> HIDE DEF t
  <1>6. BucketRestorable'
    BY <1>0, <1>1, Zenon DEF SyncInv, BucketRestorable, BlobsOf, Stored
  <1>7. BucketFacts(d)'
    <2>1. tasks'[d] = t /\ Stored' = Stored
      BY <1>0, <1>1, <1>5, GoFacts, Zenon DEF Stored
    <2> QED
      BY <1>1, <1>3, <1>4, <1>5, <2>1 DEF BucketFacts, BlobsOf
  <1> QED
    BY <1>0, <1>1, <1>5, <1>6, <1>7, TaskStep, Zenon DEF SyncTypeOK

LEMMA ListBlobsOK ==
    ASSUME StorageInv, NEW d \in Devices, ListBlobs(d)
    PROVE  StorageInv'
  <1> DEFINE t == [tasks[d] EXCEPT !.pc = "unneeded", !.todo = blobStore \ tasks[d].needed]
  <1>0. SyncTypeOK /\ SyncInv /\ tasks[d] \in Tasks
    BY Zenon DEF StorageInv, SyncInv, SyncTypeOK
  <1>1. /\ tasks[d].pc = "manifests" /\ tasks[d].todo = {} /\ Go(d, t)
        /\ UNCHANGED <<disk, plans, store, blobStore, latest, prepared, agrees, erased, overlapped, edits>>
    BY Zenon DEF ListBlobs, remoteVars
  <1>2. /\ t \in Tasks /\ t.pc = "unneeded" /\ t.base = tasks[d].base /\ t.manifest = tasks[d].manifest
        /\ t.id = tasks[d].id /\ t.todo = blobStore \ tasks[d].needed
    BY <1>0, ZenonT(30) DEF Tasks, Phases, SyncTypeOK
  <1> HIDE DEF t
  <1>3. BucketRestorable'
    BY <1>0, <1>1 DEF SyncInv, BucketRestorable, BlobsOf, Stored
  <1>4. ASSUME ~overlapped PROVE BucketFacts(d)'
    <2>1. /\ \A m \in Stored : BlobsOf(store[m]) \subseteq tasks[d].needed
          /\ IF tasks[d].id = 0 THEN Stored = {} ELSE tasks[d].id \in Stored
      BY <1>0, <1>1, <1>4, Zenon DEF SyncInv, BucketInv, BucketFacts
    <2>2. tasks'[d] = t /\ Stored' = Stored
      BY <1>0, <1>1, <1>2, GoFacts, Zenon DEF Stored
    <2> QED
      BY <1>1, <1>2, <2>1, <2>2, Zenon DEF BucketFacts, BlobsOf
  <1> QED
    BY <1>0, <1>1, <1>2, <1>3, <1>4, TaskStep, Zenon DEF SyncTypeOK

LEMMA DeleteBlobOK ==
    ASSUME StorageInv, NEW d \in Devices, NEW b \in Blobs, DeleteBlob(d, b)
    PROVE  StorageInv'
  <1> DEFINE t == [tasks[d] EXCEPT !.todo = @ \ {b}]
  <1>0. SyncTypeOK /\ SyncInv /\ tasks[d] \in Tasks
    BY Zenon DEF StorageInv, SyncInv, SyncTypeOK
  <1>1. /\ tasks[d].pc = "unneeded" /\ b \in tasks[d].todo /\ Go(d, t) /\ blobStore' = blobStore \ {b}
        /\ UNCHANGED <<disk, plans, store, latest, prepared, agrees, erased, overlapped, edits>>
    BY Zenon DEF DeleteBlob
  <1>2. /\ t \in Tasks /\ t.pc = "unneeded" /\ t.base = tasks[d].base /\ t.manifest = tasks[d].manifest
        /\ t.id = tasks[d].id /\ t.todo = tasks[d].todo \ {b}
    BY <1>0, <1>1, Zenon DEF Tasks
  <1> HIDE DEF t
  <1>3. ~overlapped =>
          /\ \A m \in Stored : BlobsOf(store[m]) \intersect tasks[d].todo = {}
          /\ IF tasks[d].id = 0 THEN Stored = {} ELSE tasks[d].id \in Stored
    BY <1>0, <1>1, Zenon DEF SyncInv, BucketInv, BucketFacts
  <1>4. Stored' = Stored /\ tasks'[d] = t
    BY <1>0, <1>1, <1>2, GoFacts DEF Stored
  <1>5. BucketRestorable'
    <2>1. ~overlapped => \A m \in Stored : b \notin BlobsOf(store[m])
      BY <1>1, <1>3, ZenonT(30)
    <2> QED
      BY <1>0, <1>1, <1>4, <2>1, Zenon DEF SyncInv, BucketRestorable, BlobsOf
  <1>6. ~overlapped => BucketFacts(d)'
    BY <1>1, <1>2, <1>3, <1>4 DEF BucketFacts, BlobsOf
  <1> QED
    BY <1>0, <1>1, <1>2, <1>5, <1>6, TaskStep, Zenon DEF SyncTypeOK

LEMMA PointLatestOK ==
    ASSUME StorageInv, NEW d \in Devices, PointLatest(d)
    PROVE  StorageInv'
  <1>0. SyncTypeOK /\ SyncInv /\ tasks[d] \in Tasks
    BY Zenon DEF StorageInv, SyncInv, SyncTypeOK
  <1>1. /\ tasks[d].pc = "unneeded" /\ Go(d, IdleTask) /\ latest' = tasks[d].id
        /\ UNCHANGED <<disk, plans, store, blobStore, prepared, agrees, erased, overlapped, edits>>
    BY Zenon DEF PointLatest
  <1>2. ~overlapped => IF tasks[d].id = 0 THEN Stored = {} ELSE tasks[d].id \in Stored
    BY <1>0, <1>1, Zenon DEF SyncInv, BucketInv, BucketFacts
  <1>3. BucketRestorable'
    BY <1>0, <1>1, <1>2 DEF SyncInv, BucketRestorable, BlobsOf, Stored
  <1>4. BucketFacts(d)'
    BY <1>0, <1>1, SyncConstants, GoFacts, Zenon DEF BucketFacts
  <1>5. latest' \in 0 .. MaxManifests
    BY <1>0, <1>1, Zenon DEF Tasks
  <1> QED
    BY <1>0, <1>1, <1>3, <1>4, <1>5, SyncConstants, TaskStep, Zenon DEF SyncTypeOK

\* A device takes on the manifest it published or restored.
LEMMA AgreeStep ==
    ASSUME StorageInv, NEW d \in Devices, tasks[d].pc \in {"latest", "restore"},
           NEW t \in Tasks, Go(d, t), t.pc \in {"idle", "list"},
           t.base \in {tasks[d].base, NoManifest}, t.manifest \in {tasks[d].manifest, NoManifest},
           UNCHANGED <<disk, plans, store, blobStore, prepared, erased, overlapped, edits>>,
           agrees' = [agrees EXCEPT ![d] = IF tasks[d].edited THEN 0 ELSE tasks[d].id],
           latest' \in 0 .. MaxManifests, BucketRestorable',
           tasks[d].id \in 1 .. prepared,
           \A e \in Devices : tasks[e].pc = "blobs" => tasks[e].id # tasks[d].id,
           store[tasks[d].id] # NoManifest /\ ~tasks[d].edited =>
             HasFiles(d, store[tasks[d].id], store[tasks[d].id].scope)
    PROVE  StorageInv'
  <1> DEFINE a == IF tasks[d].edited THEN 0 ELSE tasks[d].id
  <1>0. SyncTypeOK /\ SyncInv /\ PathInv /\ DeviceInv /\ tasks[d] \in Tasks
    BY Zenon DEF StorageInv, SyncInv, SyncTypeOK
  <1>1. /\ tasks' \in [Devices -> Tasks] /\ tasks'[d] = t
        /\ \A e \in Devices \ {d} : tasks'[e] = tasks[e]
    BY <1>0, GoFacts, Zenon
  <1>2. /\ prepared \in Nat /\ ~(0 \in 1 .. prepared) /\ 0 <= prepared
        /\ 0 \in 0 .. MaxManifests /\ tasks[d].id <= prepared
    BY <1>0, SyncAssumption DEF SyncTypeOK
  <1>3. /\ a \in 0 .. MaxManifests /\ a <= prepared
        /\ \A e \in Devices : tasks[e].pc = "blobs" /\ tasks[e].id \in 1 .. prepared => tasks[e].id # a
        /\ a \in 1 .. prepared /\ store[a] # NoManifest => HasFiles(d, store[a], store[a].scope)
    BY <1>0, <1>2, Zenon DEF Tasks
  <1>4. agrees' = [agrees EXCEPT ![d] = a]
    BY Zenon
  <1> HIDE DEF a
  <1>5. /\ agrees' \in [Devices -> 0 .. MaxManifests] /\ agrees'[d] = a
        /\ \A e \in Devices \ {d} : agrees'[e] = agrees[e]
    BY <1>0, <1>3, <1>4, Zenon DEF SyncTypeOK
  <1>6. SyncTypeOK'
    BY <1>0, <1>1, <1>5, Zenon DEF SyncTypeOK
  <1>7. BucketInv'
    <2>1. BucketFacts(d)'
      BY <1>1, Zenon DEF BucketFacts
    <2> QED
      BY <1>0, <1>1, <2>1, BucketStep, Zenon DEF SyncInv
  <1>8. ASSUME NEW e \in Devices PROVE UploadFacts(e)'
    <2>1. UploadFacts(e)
      BY <1>0, Zenon DEF SyncInv
    <2>2. CASE e = d
      BY <1>1, <2>2, ZenonT(30) DEF UploadFacts
    <2>3. CASE e # d
      <3>1. tasks[e].pc = "blobs" => tasks[e].id \in 1 .. prepared /\ tasks[e].id # a
        BY <1>3, <2>1, Zenon DEF UploadFacts
      <3> QED
        BY <1>1, <1>5, <2>1, <2>3, <3>1 DEF UploadFacts
    <2> QED
      BY <2>2, <2>3, Zenon
  <1>9. PathInv'
    <2> SUFFICES ASSUME NEW q \in Paths, \A e \in Devices : q \in plans[e], q \notin erased
                 PROVE  PathKept(q)'
      BY Zenon DEF PathInv
    <2>1. PathKept(q)
      BY <1>0, Zenon DEF PathInv
    <2>2. t.base.entries[q] # Tombstone /\ t.manifest.entries[q] # Tombstone
      BY <2>1, SyncConstants, Zenon DEF PathKept, Unlisted, Tombstone
    <2> QED
      BY <1>1, <2>1, <2>2, Zenon DEF PathKept
  <1>10. ASSUME NEW e \in Devices PROVE DeviceFacts(e)'
    <2>1. DeviceFacts(e)
      BY <1>0, ZenonT(30) DEF DeviceInv
    <2>2. CASE e = d
      BY <1>1, <1>3, <1>5, <2>2, SMTT(30) DEF DeviceFacts, HasFiles
    <2>3. CASE e # d
      <3>1. \A f \in Devices : tasks'[f].pc = "blobs" =>
                                 tasks[f].pc = "blobs" /\ tasks'[f].id = tasks[f].id
        BY <1>1, Zenon
      <3> QED
        BY <1>1, <1>5, <2>1, <2>3, <3>1 DEF DeviceFacts, HasFiles
    <2> QED
      BY <2>2, <2>3, Zenon
  <1> QED
    BY <1>6, <1>7, <1>8, <1>9, <1>10, Zenon DEF StorageInv, SyncInv, DeviceInv

LEMMA UploadLatestOK ==
    ASSUME StorageInv, NEW d \in Devices, UploadLatest(d)
    PROVE  StorageInv'
  <1> DEFINE t == [tasks[d] EXCEPT !.pc = "list"]
  <1>0. SyncTypeOK /\ SyncInv /\ tasks[d] \in Tasks /\ UploadFacts(d) /\ DeviceFacts(d)
    BY Zenon DEF StorageInv, SyncInv, SyncTypeOK, DeviceInv
  <1>1. /\ tasks[d].pc = "latest" /\ Go(d, t) /\ latest' = tasks[d].id
        /\ UNCHANGED <<disk, plans, store, blobStore, prepared, erased, overlapped, edits>>
        /\ agrees' = [agrees EXCEPT ![d] = IF tasks[d].edited THEN 0 ELSE tasks[d].id]
    BY Zenon DEF UploadLatest
  <1>2. t \in Tasks /\ t.pc = "list" /\ t.base = tasks[d].base /\ t.manifest = tasks[d].manifest
    BY <1>0, Zenon DEF Tasks, Phases
  <1> HIDE DEF t
  <1>3. ~overlapped => tasks[d].id \in Stored
    BY <1>0, <1>1, Zenon DEF SyncInv, BucketInv, BucketFacts
  <1>4. BucketRestorable'
    BY <1>0, <1>1, <1>3, Zenon DEF SyncInv, BucketRestorable, BlobsOf, Stored
  <1>5. /\ tasks[d].id \in 1 .. prepared
        /\ \A e \in Devices : tasks[e].pc = "blobs" => tasks[e].id # tasks[d].id
        /\ store[tasks[d].id] # NoManifest /\ ~tasks[d].edited =>
             HasFiles(d, store[tasks[d].id], store[tasks[d].id].scope)
    BY <1>0, <1>1, Zenon DEF UploadFacts, DeviceFacts
  <1>6. latest' \in 0 .. MaxManifests
    BY <1>0, <1>1, Zenon DEF Tasks
  <1> QED
    BY <1>1, <1>2, <1>4, <1>5, <1>6, AgreeStep, Zenon

LEMMA RestoreEndsOK ==
    ASSUME StorageInv, NEW d \in Devices, RestoreEnds(d)
    PROVE  StorageInv'
  <1>0. SyncTypeOK /\ SyncInv /\ tasks[d] \in Tasks /\ DeviceFacts(d)
    BY Zenon DEF StorageInv, SyncInv, SyncTypeOK, DeviceInv
  <1>1. /\ tasks[d].pc = "restore" /\ tasks[d].todo = {} /\ Go(d, IdleTask)
        /\ UNCHANGED <<disk, plans, store, blobStore, latest, prepared, erased, overlapped, edits>>
        /\ agrees' = [agrees EXCEPT ![d] = IF tasks[d].edited THEN 0 ELSE tasks[d].id]
    BY ZenonT(30) DEF RestoreEnds, remoteVars
  <1>2. BucketRestorable'
    BY <1>0, <1>1 DEF SyncInv, BucketRestorable, BlobsOf, Stored
  <1>3. /\ tasks[d].id \in 1 .. prepared
        /\ \A e \in Devices : tasks[e].pc = "blobs" => tasks[e].id # tasks[d].id
        /\ store[tasks[d].id] # NoManifest /\ ~tasks[d].edited =>
             HasFiles(d, store[tasks[d].id], store[tasks[d].id].scope)
    BY <1>0, <1>1, Zenon DEF DeviceFacts, HasFiles
  <1> QED
    BY <1>0, <1>1, <1>2, <1>3, SyncConstants, AgreeStep, Zenon DEF SyncTypeOK

LEMMA UploadManifestOK ==
    ASSUME StorageInv, NEW d \in Devices, UploadManifest(d)
    PROVE  StorageInv'
  <1> DEFINE t == [tasks[d] EXCEPT !.pc = "latest"]
             id == tasks[d].id
             manifest == tasks[d].manifest
  <1>0. /\ SyncTypeOK /\ SyncInv /\ PathInv /\ DeviceInv /\ tasks[d] \in Tasks
        /\ UploadFacts(d) /\ DeviceFacts(d)
    BY Zenon DEF StorageInv, SyncInv, SyncTypeOK, DeviceInv
  <1>1. /\ tasks[d].pc = "blobs" /\ tasks[d].todo = {} /\ Go(d, t)
        /\ store' = [store EXCEPT ![id] = manifest]
        /\ UNCHANGED <<disk, plans, blobStore, latest, prepared, agrees, erased, overlapped, edits>>
    BY Zenon DEF UploadManifest
  <1>2. /\ t \in Tasks /\ t.pc = "latest" /\ t.base = tasks[d].base /\ t.manifest = manifest
        /\ t.id = id /\ t.edited = tasks[d].edited
    BY <1>0, Zenon DEF Tasks, Phases
  <1>3. /\ id \in 1 .. prepared /\ id \in Manifests /\ manifest \in ManifestRecords
        /\ manifest # NoManifest /\ store[id] = NoManifest
    BY <1>0, <1>1, SyncAssumption, SyncConstants DEF UploadFacts, Tasks, SyncTypeOK, Manifests
  <1>4. \A e \in Devices \ {d} :
          /\ tasks[e].pc \in {"blobs", "latest"} => tasks[e].id # id
          /\ agrees[e] # id
    BY <1>0, <1>1, Zenon DEF UploadFacts
  <1>5. agrees[d] = 0 /\ \A e \in Devices : tasks[e].pc = "restore" => tasks[e].id # id
    BY <1>0, <1>1, Zenon DEF DeviceFacts, DeviceInv
  <1>6. ~overlapped => BlobsOf(manifest) \subseteq blobStore
    BY <1>0, <1>1, Zenon DEF SyncInv, BucketInv, BucketFacts
  <1>7. tasks[d].pc = "blobs" /\ ~tasks[d].edited => HasFiles(d, manifest, manifest.scope)
    BY <1>0, Zenon DEF DeviceFacts
  <1> HIDE DEF t, id, manifest
  <1>8. /\ store' \in [Manifests -> ManifestRecords] /\ store'[id] = manifest
        /\ \A m \in Manifests \ {id} : store'[m] = store[m]
        /\ Stored' = Stored \union {id}
    BY <1>0, <1>1, <1>3, Zenon DEF SyncTypeOK, Stored
  <1>9. /\ tasks' \in [Devices -> Tasks] /\ tasks'[d] = t
        /\ \A e \in Devices \ {d} : tasks'[e] = tasks[e]
    BY <1>0, <1>1, <1>2, GoFacts, ZenonT(30)
  <1>10. SyncTypeOK'
    <2>1. \A m \in Manifests : m > prepared => store'[m] = NoManifest
      BY <1>0, <1>3, <1>8, SMTT(30) DEF SyncTypeOK
    <2> QED
      BY <1>0, <1>1, <1>8, <1>9, <2>1, Zenon DEF SyncTypeOK
  <1>11. BucketRestorable'
    <2>1. \A m \in Stored : m # id /\ store'[m] = store[m]
      BY <1>3, <1>8, Zenon DEF Stored
    <2> QED
      BY <1>0, <1>1, <1>6, <1>8, <2>1 DEF SyncInv, BucketRestorable, BlobsOf
  <1>12. BucketInv'
    <2>1. BucketFacts(d)'
      BY <1>2, <1>8, <1>9, Zenon DEF BucketFacts
    <2> QED
      BY <1>0, <1>1, <1>9, <2>1, BucketStep, Zenon DEF SyncInv
  <1>13. ASSUME NEW e \in Devices PROVE UploadFacts(e)'
    <2>1. UploadFacts(e)
      BY <1>0, Zenon DEF SyncInv
    <2>2. CASE e = d
      <3>1. manifest.scope # {} /\ tasks[d].id = id /\ tasks[d].manifest = manifest
        BY <1>0, <1>1, ZenonT(30) DEF UploadFacts, id, manifest
      <3> QED
        BY <1>0, <1>1, <1>2, <1>3, <1>4, <1>8, <1>9, <2>2, <3>1 DEF UploadFacts
    <2>3. CASE e # d
      <3>1. 1 .. prepared \subseteq Manifests
        BY <1>0, SyncAssumption DEF SyncTypeOK, Manifests
      <3>2. tasks'[d].id = tasks[d].id /\ tasks[d].pc = "blobs"
        BY <1>1, <1>2, <1>9, Zenon DEF id
      <3> QED
        BY <1>1, <1>4, <1>8, <1>9, <2>1, <2>3, <3>1, <3>2, SMTT(30) DEF UploadFacts
    <2> QED
      BY <2>2, <2>3, Zenon
  <1>14. PathInv'
    <2> SUFFICES ASSUME NEW q \in Paths, \A e \in Devices : q \in plans[e], q \notin erased
                 PROVE  PathKept(q)'
      BY <1>1, Zenon DEF PathInv
    <2>1. PathKept(q)
      BY <1>0, Zenon DEF PathInv
    <2>2. t.base.entries[q] # Tombstone /\ manifest.entries[q] # Tombstone
      BY <1>2, <2>1, Zenon DEF PathKept, manifest
    <2>3. \A m \in Manifests : store'[m].entries[q] # Tombstone
      BY <1>8, <2>1, <2>2, Zenon DEF PathKept
    <2> QED
      BY <1>1, <1>2, <1>9, <2>1, <2>2, <2>3, Zenon DEF PathKept
  <1>15. ASSUME NEW e \in Devices PROVE DeviceFacts(e)'
    <2>1. DeviceFacts(e)
      BY <1>0 DEF DeviceInv
    <2>2. 1 .. prepared \subseteq Manifests /\ ~(0 \in 1 .. prepared)
      BY <1>0, SyncAssumption DEF SyncTypeOK, Manifests
    <2>3. CASE e = d
      BY <1>1, <1>2, <1>5, <1>7, <1>9, <2>1, <2>2, <2>3, ZenonT(30) DEF DeviceFacts, HasFiles
    <2>4. CASE e # d
      <3>1. agrees[e] \in 1 .. prepared => store'[agrees[e]] = store[agrees[e]]
        BY <1>4, <1>8, <2>2, <2>4, Zenon
      <3>2. tasks[e].pc = "restore" => store'[tasks[e].id] = store[tasks[e].id]
        BY <1>5, <1>8, <2>1, <2>2, Zenon DEF DeviceFacts
      <3>3. \A f \in Devices : tasks'[f].pc = "blobs" => tasks[f].pc = "blobs" /\ tasks'[f].id = tasks[f].id
        BY <1>2, <1>9, Zenon
      <3> QED
        BY <1>1, <1>9, <2>1, <2>4, <3>1, <3>2, <3>3, ZenonT(30) DEF DeviceFacts, HasFiles
    <2> QED
      BY <2>3, <2>4, Zenon
  <1> QED
    BY <1>10, <1>11, <1>12, <1>13, <1>14, <1>15, Zenon DEF StorageInv, SyncInv, DeviceInv

LEMMA DeleteManifestOK ==
    ASSUME StorageInv, NEW d \in Devices, NEW m \in Manifests, DeleteManifest(d, m)
    PROVE  StorageInv'
  <1> DEFINE t == [tasks[d] EXCEPT !.todo = @ \ {m}]
  <1>0. SyncTypeOK /\ SyncInv /\ PathInv /\ DeviceInv /\ tasks[d] \in Tasks
    BY Zenon DEF StorageInv, SyncInv, SyncTypeOK
  <1>1. /\ tasks[d].pc = "manifests" /\ m \in tasks[d].todo /\ Go(d, t)
        /\ store' = [store EXCEPT ![m] = NoManifest]
        /\ UNCHANGED <<disk, plans, blobStore, latest, prepared, agrees, erased, overlapped, edits>>
    BY Zenon DEF DeleteManifest
  <1>2. /\ t \in Tasks /\ t.pc = "manifests" /\ t.base = tasks[d].base /\ t.manifest = tasks[d].manifest
        /\ t.id = tasks[d].id /\ t.needed = tasks[d].needed /\ t.todo = tasks[d].todo \ {m}
    BY <1>0, <1>1, ZenonT(30) DEF Tasks
  <1> HIDE DEF t
  <1>3. /\ store' \in [Manifests -> ManifestRecords] /\ store'[m] = NoManifest
        /\ \A n \in Manifests \ {m} : store'[n] = store[n]
        /\ Stored' = Stored \ {m}
    BY <1>0, <1>1, SyncConstants DEF SyncTypeOK, Stored
  <1>4. /\ tasks' \in [Devices -> Tasks] /\ tasks'[d] = t
        /\ \A e \in Devices \ {d} : tasks'[e] = tasks[e]
    BY <1>0, <1>1, <1>2, GoFacts, Zenon
  <1>5. SyncTypeOK'
    <2>1. \A n \in Manifests : n > prepared => store'[n] = NoManifest
      BY <1>0, <1>3, Zenon DEF SyncTypeOK
    <2> QED
      BY <1>0, <1>1, <1>3, <1>4, <2>1, Zenon DEF SyncTypeOK
  <1>6. ~overlapped =>
          /\ \A n \in Stored \ tasks[d].todo : BlobsOf(store[n]) \subseteq tasks[d].needed
          /\ IF tasks[d].id = 0 THEN Stored = {} ELSE tasks[d].id \in Stored \ tasks[d].todo
    BY <1>0, <1>1, Zenon DEF SyncInv, BucketInv, BucketFacts
  <1>7. \A n \in Stored' : n \in Stored /\ n # m /\ store'[n] = store[n]
    BY <1>3, ZenonT(30) DEF Stored
  <1>8. BucketRestorable'
    <2>1. ~overlapped /\ Stored # {} => tasks[d].id \in Stored'
      BY <1>1, <1>3, <1>6, Zenon
    <2> QED
      BY <1>0, <1>1, <1>3, <1>7, <2>1 DEF SyncInv, BucketRestorable, BlobsOf
  <1>9. BucketInv'
    <2>1. \A n \in Stored' \ t.todo : n \in Stored \ tasks[d].todo /\ BlobsOf(store'[n]) = BlobsOf(store[n])
      BY <1>2, <1>7, SMTT(30) DEF BlobsOf
    <2>2. ~overlapped => IF t.id = 0 THEN Stored' = {} ELSE t.id \in Stored' \ t.todo
      BY <1>1, <1>2, <1>3, <1>6, SMTT(30)
    <2>3. ~overlapped => BucketFacts(d)'
      BY <1>2, <1>4, <1>6, <2>1, <2>2, ZenonT(30) DEF BucketFacts, BlobsOf
    <2> QED
      BY <1>0, <1>1, <1>4, <2>3, BucketStep, ZenonT(30) DEF SyncInv
  <1>10. \A n \in 1 .. prepared : store'[n] \in {store[n], NoManifest}
    BY <1>0, <1>3, SyncAssumption DEF SyncTypeOK, Manifests
  <1>11. ASSUME NEW e \in Devices PROVE UploadFacts(e)'
    <2>1. UploadFacts(e)
      BY <1>0, Zenon DEF SyncInv
    <2>2. CASE e = d
      BY <1>2, <1>4, <2>2, Zenon DEF UploadFacts
    <2>3. CASE e # d
      <3>1. tasks'[d].pc = "manifests"
        BY <1>2, <1>4, ZenonT(30)
      <3> QED
        BY <1>1, <1>4, <1>10, <2>1, <2>3, <3>1, Zenon DEF UploadFacts
    <2> QED
      BY <2>2, <2>3, Zenon
  <1>12. PathInv'
    <2> SUFFICES ASSUME NEW q \in Paths, \A e \in Devices : q \in plans[e], q \notin erased
                 PROVE  PathKept(q)'
      BY <1>1, Zenon DEF PathInv
    <2>1. PathKept(q)
      BY <1>0, Zenon DEF PathInv
    <2>2. \A n \in Manifests : store'[n].entries[q] # Tombstone
      BY <1>3, <2>1, SyncConstants, Zenon DEF PathKept, Unlisted, Tombstone
    <2> QED
      BY <1>1, <1>2, <1>4, <2>1, <2>2, ZenonT(30) DEF PathKept
  <1>13. ASSUME NEW e \in Devices PROVE DeviceFacts(e)'
    <2>1. DeviceFacts(e)
      BY <1>0, Zenon DEF DeviceInv
    <2>2. /\ agrees[e] \in 1 .. prepared => store'[agrees[e]] \in {store[agrees[e]], NoManifest}
          /\ \A f \in Devices : tasks'[f].pc = tasks[f].pc /\ tasks'[f].id = tasks[f].id
      BY <1>1, <1>2, <1>4, <1>10, SMTT(30)
    <2>3. CASE e = d
      BY <1>1, <1>2, <1>4, <2>1, <2>2, <2>3, SMTT(30) DEF DeviceFacts, HasFiles
    <2>4. CASE e # d
      <3>1. tasks[e].pc = "restore" => store'[tasks[e].id] \in {store[tasks[e].id], NoManifest}
        BY <1>10, <2>1, Zenon DEF DeviceFacts
      <3> QED
        BY <1>1, <1>4, <2>1, <2>2, <2>4, <3>1, ZenonT(30) DEF DeviceFacts, HasFiles
    <2> QED
      BY <2>3, <2>4, Zenon
  <1> QED
    BY <1>5, <1>8, <1>9, <1>11, <1>12, <1>13, Zenon DEF StorageInv, SyncInv, DeviceInv

LEMMA PrepareManifestOK ==
    ASSUME StorageInv, NEW d \in Devices, PrepareManifest(d)
    PROVE  StorageInv'
  <1> DEFINE manifest == [entries |-> Entries(d), scope |-> plans[d]]
             t == [tasks[d] EXCEPT !.pc = "blobs", !.manifest = manifest, !.id = prepared + 1,
                                   !.todo = BlobsOf(manifest)]
  <1>0. /\ SyncTypeOK /\ SyncInv /\ PathInv /\ DeviceInv /\ tasks[d] \in Tasks
        /\ DeviceFacts(d)
    BY Zenon DEF StorageInv, SyncInv, SyncTypeOK, DeviceInv
  <1>1. /\ tasks[d].pc = "reconcile" /\ tasks[d].todo = {} /\ Go(d, t)
        /\ prepared < MaxManifests /\ prepared' = prepared + 1
        /\ UNCHANGED <<disk, plans, store, blobStore, latest, agrees, erased, overlapped, edits>>
    BY Zenon DEF PrepareManifest, remoteVars
  <1>2. /\ disk[d] \in [Paths -> Blobs \union {Missing}] /\ plans[d] \subseteq Paths /\ plans[d] # {}
        /\ prepared \in Nat /\ prepared + 1 \in Manifests /\ prepared + 1 \in 0 .. MaxManifests
    <2>1. disk[d] \in [Paths -> Blobs \union {Missing}]
      BY <1>0, Zenon DEF SyncTypeOK
    <2>2. plans[d] \in (SUBSET Paths) \ {{}}
      BY <1>0, Zenon DEF SyncTypeOK
    <2>3. prepared \in Nat /\ prepared + 1 \in 1 .. MaxManifests /\ prepared + 1 \in 0 .. MaxManifests
      BY <1>0, <1>1, SyncAssumption DEF SyncTypeOK
    <2>4. plans[d] \subseteq Paths /\ plans[d] # {}
      BY <2>2, Zenon
    <2> QED
      BY <2>1, <2>3, <2>4, Zenon DEF Manifests
  <1>3. /\ manifest \in ManifestRecords /\ manifest.scope = plans[d]
        /\ \A p \in Paths : manifest.entries[p] = Entries(d)[p]
    <2>1. Entries(d) \in [Paths -> Blobs \union {Unlisted, Tombstone}]
      BY <1>2, Zenon DEF Entries
    <2> QED
      BY <1>2, <2>1, Zenon DEF ManifestRecords
  <1> HIDE DEF manifest
  <1>4. BlobsOf(manifest) \subseteq Blobs
    BY <1>3, BlobsTyped, Zenon
  <1>5. /\ t \in Tasks /\ t.pc = "blobs" /\ t.base = tasks[d].base /\ t.manifest = manifest
        /\ t.id = prepared + 1 /\ t.todo = BlobsOf(manifest) /\ t.edited = tasks[d].edited
    BY <1>0, <1>2, <1>3, <1>4, Zenon DEF Tasks, Phases
  <1> HIDE DEF t
  <1>6. /\ tasks' \in [Devices -> Tasks] /\ tasks'[d] = t
        /\ \A e \in Devices \ {d} : tasks'[e] = tasks[e]
    BY <1>0, <1>1, <1>5, GoFacts, ZenonT(30)
  <1>7. SyncTypeOK'
    <2>1. \A m \in Manifests : m > prepared' => m > prepared
      BY <1>1, <1>2 DEF Manifests
    <2> QED
      BY <1>0, <1>1, <1>2, <1>6, <2>1 DEF SyncTypeOK
  <1>8. BucketRestorable'
    BY <1>0, <1>1 DEF SyncInv, BucketRestorable, BlobsOf, Stored
  <1>9. BucketInv'
    <2>1. BucketFacts(d)'
      BY <1>5, <1>6, ZenonT(30) DEF BucketFacts, BlobsOf
    <2> QED
      BY <1>0, <1>1, <1>6, <2>1, BucketStep, Zenon DEF SyncInv
  <1>10. /\ 1 .. prepared \subseteq 1 .. prepared'
         /\ \A m \in 1 .. prepared : m # prepared + 1 /\ prepared + 1 \in 1 .. prepared'
         /\ prepared + 1 \in 1 .. prepared' /\ store[prepared + 1] = NoManifest
    BY <1>0, <1>1, <1>2 DEF SyncTypeOK
  <1>11. /\ \A e \in Devices : agrees[e] <= prepared /\ agrees[e] # prepared + 1
         /\ \A e \in Devices : tasks[e].pc \in {"blobs", "latest", "restore"} =>
                                 tasks[e].id # prepared + 1 /\ tasks[e].id \in 1 .. prepared
    <2> SUFFICES ASSUME NEW e \in Devices
                 PROVE  /\ agrees[e] <= prepared /\ agrees[e] # prepared + 1
                        /\ tasks[e].pc \in {"blobs", "latest", "restore"} =>
                                 tasks[e].id # prepared + 1 /\ tasks[e].id \in 1 .. prepared
      BY Zenon
    <2>1. UploadFacts(e) /\ DeviceFacts(e) /\ agrees[e] \in Nat
      BY <1>0 DEF SyncInv, DeviceInv, SyncTypeOK
    <2>2. agrees[e] <= prepared
      BY <2>1, ZenonT(30) DEF DeviceFacts
    <2>3. agrees[e] # prepared + 1
      BY <1>2, <2>1, <2>2
    <2> QED
      BY <1>10, <2>1, <2>2, <2>3, Zenon DEF UploadFacts, DeviceFacts
  <1>12. ASSUME NEW e \in Devices PROVE UploadFacts(e)'
    <2>1. UploadFacts(e)
      BY <1>0, ZenonT(30) DEF SyncInv
    <2>2. CASE e = d
      BY <1>1, <1>2, <1>3, <1>5, <1>6, <1>10, <1>11, <2>2, ZenonT(30) DEF UploadFacts
    <2>3. CASE e # d
      BY <1>1, <1>5, <1>6, <1>10, <1>11, <2>1, <2>3, ZenonT(30) DEF UploadFacts
    <2> QED
      BY <2>2, <2>3, Zenon
  <1>13. PathInv'
    <2> SUFFICES ASSUME NEW q \in Paths, \A e \in Devices : q \in plans[e], q \notin erased
                 PROVE  PathKept(q)'
      BY <1>1, Zenon DEF PathInv
    <2>1. PathKept(q)
      BY <1>0, Zenon DEF PathInv
    <2>2. tasks[d].base.entries[q] # Unlisted => disk[d][q] # Missing
      BY <1>1, <2>1, Zenon DEF PathKept
    <2>3. Entries(d)[q] \in {disk[d][q], Unlisted} /\ (Entries(d)[q] = disk[d][q] => disk[d][q] # Tombstone)
      BY <1>2, <2>2, SyncAssumption, Zenon DEF Entries, Missing, Tombstone
    <2>4. manifest.entries[q] # Tombstone
      BY <1>3, <2>3, Zenon DEF Unlisted, Tombstone
    <2> QED
      BY <1>1, <1>5, <1>6, <2>1, <2>4, Zenon DEF PathKept
  <1>14. HasFiles(d, manifest, manifest.scope)
    <2> SUFFICES ASSUME NEW p \in plans[d] PROVE disk[d][p] = Content(Entries(d)[p])
      BY <1>2, <1>3, ZenonT(30) DEF HasFiles
    <2>1. CASE disk[d][p] = Missing
      BY <1>2, <2>1 DEF Entries, Content
    <2>2. CASE disk[d][p] # Missing
      <3>1. Entries(d)[p] = disk[d][p] /\ disk[d][p] \in Blobs
        BY <1>2, <2>2, Zenon DEF Entries
      <3> QED
        BY <3>1, SyncAssumption, Zenon DEF Content
    <2> QED
      BY <2>1, <2>2, Zenon
  <1>15. ASSUME NEW e \in Devices PROVE DeviceFacts(e)'
    <2>1. DeviceFacts(e)
      BY <1>0 DEF DeviceInv
    <2>2. agrees[e] <= prepared' /\ (agrees[e] \in 1 .. prepared' => agrees[e] \in 1 .. prepared)
      BY <1>0, <1>1, <1>2, <1>11 DEF SyncTypeOK
    <2>3. CASE e = d
      <3>1. agrees[d] = 0
        BY <1>1, <2>1, <2>3, Zenon DEF DeviceFacts
      <3> QED
        BY <1>1, <1>5, <1>6, <1>14, <2>1, <2>2, <2>3, <3>1, Zenon DEF DeviceFacts, HasFiles
    <2>4. CASE e # d
      <3>1. tasks[e].pc = "restore" =>
              /\ tasks[e].id \in 1 .. prepared'
              /\ \A f \in Devices : tasks'[f].pc = "blobs" => tasks'[f].id # tasks[e].id
        BY <1>5, <1>6, <1>10, <1>11, <2>1, Zenon DEF DeviceFacts
      <3> QED
        BY <1>1, <1>6, <2>1, <2>2, <2>4, <3>1, Zenon DEF DeviceFacts, HasFiles
    <2> QED
      BY <2>3, <2>4, Zenon
  <1> QED
    BY <1>7, <1>8, <1>9, <1>12, <1>13, <1>15, Zenon DEF StorageInv, SyncInv, DeviceInv

\* A file is taken from a manifest, by a sync or by a restore.
LEMMA TakeEntryOK ==
    ASSUME StorageInv, NEW d \in Devices, NEW p \in Paths, NEW written \in BOOLEAN,
           tasks[d].pc \in {"reconcile", "restore"}, p \in tasks[d].todo,
           TakeEntry(d, p, tasks[d].base, written),
           UNCHANGED <<plans, store, blobStore, latest, prepared, agrees, erased, overlapped, edits>>
    PROVE  StorageInv'
  <1> DEFINE entry == tasks[d].base.entries[p]
             file == IF entry = Tombstone \/ ~written THEN Missing ELSE entry
             next == [tasks[d] EXCEPT !.todo = @ \ {p}]
             t == IF written THEN next ELSE IdleTask
  <1>0. /\ SyncTypeOK /\ SyncInv /\ PathInv /\ DeviceInv /\ tasks[d] \in Tasks
        /\ DeviceFacts(d)
    BY Zenon DEF StorageInv, SyncInv, SyncTypeOK, DeviceInv
  <1>1. /\ entry \in {Tombstone, disk[d][p]} \union blobStore /\ Go(d, t)
        /\ disk' = [disk EXCEPT ![d][p] = file]
    BY Zenon DEF TakeEntry
  <1>2. entry \in Blobs \union {Unlisted, Tombstone} /\ disk[d][p] \in Blobs \union {Missing}
    BY <1>0 DEF Tasks, ManifestRecords, SyncTypeOK
  <1>3. entry \in Blobs \union {Tombstone} /\ entry # Unlisted
    BY <1>0, <1>1, <1>2, SyncAssumption, Zenon DEF SyncTypeOK, Unlisted, Missing, Tombstone
  <1>4. /\ file \in Blobs \union {Missing}
        /\ written => file = Content(entry)
        /\ written /\ entry # Tombstone => file # Missing
    BY <1>3, SyncAssumption, Zenon DEF Content
  <1>5. /\ next \in Tasks /\ next.pc = tasks[d].pc /\ next.base = tasks[d].base
        /\ next.manifest = tasks[d].manifest /\ next.todo = tasks[d].todo \ {p}
        /\ next.id = tasks[d].id /\ next.edited = tasks[d].edited
    BY <1>0, Zenon DEF Tasks
  <1> HIDE DEF next
  <1>6. t \in Tasks /\ (written => t = next) /\ (~written => t = IdleTask)
    BY <1>5, SyncConstants, Zenon
  <1> HIDE DEF t, file
  <1>7. /\ tasks' \in [Devices -> Tasks] /\ tasks'[d] = t
        /\ \A e \in Devices \ {d} : tasks'[e] = tasks[e]
    BY <1>0, <1>1, <1>6, GoFacts, Zenon
  <1>8. /\ disk' \in [Devices -> [Paths -> Blobs \union {Missing}]] /\ disk'[d][p] = file
        /\ \A e \in Devices \ {d} : disk'[e] = disk[e]
        /\ \A q \in Paths \ {p} : disk'[d][q] = disk[d][q]
    BY <1>0, <1>1, <1>4, Zenon DEF SyncTypeOK
  <1>9. t.pc \in {"idle", "reconcile", "restore"}
    BY <1>5, <1>6, SyncConstants
  <1>10. SyncTypeOK'
    BY <1>0, <1>7, <1>8, Zenon DEF SyncTypeOK
  <1>11. BucketRestorable'
    BY <1>0 DEF SyncInv, BucketRestorable, BlobsOf, Stored
  <1>12. BucketInv'
    <2>1. BucketFacts(d)'
      BY <1>7, <1>9, Zenon DEF BucketFacts
    <2> QED
      BY <1>0, <1>7, <2>1, BucketStep, Zenon DEF SyncInv
  <1>13. ASSUME NEW e \in Devices PROVE UploadFacts(e)'
    <2>1. UploadFacts(e)
      BY <1>0, ZenonT(30) DEF SyncInv
    <2>2. CASE e = d
      BY <1>7, <1>9, <2>2 DEF UploadFacts
    <2>3. CASE e # d
      BY <1>7, <1>9, <2>1, <2>3, Zenon DEF UploadFacts
    <2> QED
      BY <2>2, <2>3, Zenon
  <1>14. PathInv'
    <2> SUFFICES ASSUME NEW q \in Paths, \A e \in Devices : q \in plans[e], q \notin erased
                 PROVE  PathKept(q)'
      BY Zenon DEF PathInv
    <2>1. PathKept(q)
      BY <1>0, Zenon DEF PathInv
    <2>2. t.base.entries[q] # Tombstone /\ t.manifest.entries[q] # Tombstone
      BY <1>5, <1>6, <2>1, SyncConstants, Zenon DEF PathKept, Unlisted, Tombstone
    <2>3. t.pc = "reconcile" /\ q \notin t.todo /\ t.base.entries[q] # Unlisted => disk'[d][q] # Missing
      <3> SUFFICES ASSUME t.pc = "reconcile", q \notin t.todo, t.base.entries[q] # Unlisted
                   PROVE  disk'[d][q] # Missing
        BY Zenon
      <3>1. written /\ t = next
        BY <1>6, SyncConstants, SMTT(30)
      <3>2. CASE q = p
        BY <1>4, <1>8, <2>1, <3>1, <3>2 DEF PathKept
      <3>3. CASE q # p
        BY <1>5, <1>8, <2>1, <3>1, <3>3, ZenonT(30) DEF PathKept
      <3> QED
        BY <3>2, <3>3, Zenon
    <2> QED
      BY <1>7, <1>8, <2>1, <2>2, <2>3, Zenon DEF PathKept
  <1>15. ASSUME NEW e \in Devices PROVE DeviceFacts(e)'
    <2>1. DeviceFacts(e)
      BY <1>0 DEF DeviceInv
    <2>2. \A f \in Devices : tasks'[f].pc = "blobs" => tasks[f].pc = "blobs" /\ tasks'[f].id = tasks[f].id
      BY <1>7, <1>9, Zenon
    <2>3. CASE e = d
      <3>1. agrees[d] = 0 /\ 0 <= prepared /\ ~(0 \in 1 .. prepared)
        BY <1>0 DEF DeviceFacts, SyncTypeOK
      <3>2. ASSUME t.pc = "restore"
            PROVE  /\ written /\ t = next /\ tasks[d].pc = "restore"
        BY <1>5, <1>6, <3>2, SyncConstants, Zenon
      <3>3. ASSUME t.pc = "restore", ~t.edited, NEW q \in t.base.scope \ t.todo
            PROVE  disk'[d][q] = Content(t.base.entries[q])
        <4>1. t.base = tasks[d].base /\ t.todo = tasks[d].todo \ {p} /\ ~tasks[d].edited /\ q \in Paths
          BY <1>0, <1>5, <3>2, <3>3, Zenon DEF Tasks, ManifestRecords
        <4>2. CASE q = p
          BY <1>4, <1>8, <3>2, <3>3, <4>1, <4>2, Zenon
        <4>3. CASE q # p
          BY <1>0, <1>8, <3>2, <3>3, <4>1, <4>3 DEF DeviceFacts, HasFiles
        <4> QED
          BY <4>2, <4>3, Zenon
      <3>4. t.pc = "restore" => /\ t.id \in 1 .. prepared /\ store[t.id] \in {t.base, NoManifest}
                                /\ \A f \in Devices : tasks'[f].pc = "blobs" => tasks'[f].id # t.id
        BY <1>0, <1>5, <2>2, <3>2, ZenonT(30) DEF DeviceFacts
      <3> QED
        BY <1>7, <1>9, <2>3, <3>1, <3>3, <3>4, ZenonT(30) DEF DeviceFacts, HasFiles
    <2>4. CASE e # d
      BY <1>7, <1>8, <2>1, <2>2, <2>4 DEF DeviceFacts, HasFiles
    <2> QED
      BY <2>3, <2>4, Zenon
  <1> QED
    BY <1>10, <1>11, <1>12, <1>13, <1>14, <1>15, Zenon DEF StorageInv, SyncInv, DeviceInv

LEMMA StorageNext == StorageInv /\ [SyncNext]_syncVars => StorageInv'
  <1> SUFFICES ASSUME StorageInv, [SyncNext]_syncVars PROVE StorageInv'
    BY Zenon
  <1>1. CASE UNCHANGED syncVars
    <2>0. /\ disk' = disk /\ plans' = plans /\ store' = store /\ blobStore' = blobStore
          /\ latest' = latest /\ prepared' = prepared /\ tasks' = tasks /\ agrees' = agrees
          /\ erased' = erased /\ overlapped' = overlapped /\ edits' = edits
      BY <1>1, Zenon DEF syncVars
    <2>1. SyncTypeOK'
      BY <2>0, Zenon DEF StorageInv, SyncInv, SyncTypeOK
    <2>2. Stored' = Stored /\ BucketRestorable'
      BY <2>0, ZenonT(30) DEF StorageInv, SyncInv, BucketRestorable, Stored, BlobsOf
    <2>3. BucketInv'
      BY <2>0, <2>2 DEF StorageInv, SyncInv, BucketInv, BucketFacts, BlobsOf
    <2>4. \A d \in Devices : UploadFacts(d)'
      BY <2>0, Zenon DEF StorageInv, SyncInv, UploadFacts
    <2>5. PathInv'
      BY <2>0, Zenon DEF StorageInv, PathInv, PathKept
    <2>6. DeviceInv'
      BY <2>0, Zenon DEF StorageInv, DeviceInv, DeviceFacts, HasFiles
    <2> QED
      BY <2>1, <2>2, <2>3, <2>4, <2>5, <2>6, Zenon DEF StorageInv, SyncInv
  <1>2. ASSUME NEW d \in Devices, NEW p \in Paths, NEW written \in BOOLEAN,
               ReconcileEntry(d, p, written) \/ RestoreEntry(d, p, written)
        PROVE  StorageInv'
    <2>1. /\ tasks[d].pc \in {"reconcile", "restore"} /\ p \in tasks[d].todo
          /\ TakeEntry(d, p, tasks[d].base, written)
          /\ UNCHANGED <<plans, store, blobStore, latest, prepared, agrees, erased, overlapped, edits>>
      BY <1>2, Zenon DEF ReconcileEntry, RestoreEntry, remoteVars
    <2> QED
      BY <2>1, TakeEntryOK, Zenon
  <1>3. CASE SyncNext
    BY <1>2, <1>3, EditFileOK, StartSyncOK, StartCleanupOK, StartRestoreOK, PrepareManifestOK,
       UploadManifestOK, UploadLatestOK, ListManifestsOK, ListBlobsOK, PointLatestOK, RestoreEndsOK,
       UploadBlobOK, DeleteBlobOK, DeleteManifestOK, SyncFailsOK, Zenon DEF SyncNext
  <1> QED
    BY <1>1, <1>3, Zenon

\* The strengthened invariant holds in every state of the backup service.
THEOREM StorageInvariant == SyncSpec => []StorageInv
  BY StorageStart, StorageNext, PTL DEF SyncSpec

\* Files, manifests, blobs and latest.json of the backup service stay within their types.
THEOREM SyncTypeCorrect == SyncSpec => []SyncTypeOK
  <1>1. StorageInv => SyncTypeOK
    BY Zenon DEF StorageInv, SyncInv
  <1> QED
    BY <1>1, StorageInvariant, PTL

\* As long as no two devices worked on the bucket at once, every manifest in it can
\* be restored and one that was published stays, at whatever request
\* upload_prepared_manifest and cleanup_remote_snapshots are cut off.
THEOREM BucketSafety == SyncSpec => []BucketRestorable
  <1>1. StorageInv => BucketRestorable
    BY Zenon DEF StorageInv, SyncInv
  <1> QED
    BY <1>1, StorageInvariant, PTL

\* A device that finished a sync or restore_snapshot, and whose files nobody touched
\* since it began, has the files of that manifest within its plan, whatever other
\* devices do to the bucket.
THEOREM DeviceSafety == SyncSpec => []DeviceAgrees
  <1>1. StorageInv => DeviceAgrees
    <2> SUFFICES ASSUME StorageInv, NEW d \in Devices, agrees[d] \in Stored
                 PROVE  \A p \in store[agrees[d]].scope : disk[d][p] = Content(store[agrees[d]].entries[p])
      BY Zenon DEF DeviceAgrees
    <2>1. DeviceFacts(d) /\ SyncTypeOK
      BY Zenon DEF StorageInv, SyncInv, DeviceInv
    <2>2. agrees[d] \in 1 .. prepared /\ store[agrees[d]] # NoManifest
      BY <2>1, SyncAssumption DEF Stored, Manifests, DeviceFacts, SyncTypeOK
    <2> QED
      BY <2>1, <2>2, Zenon DEF DeviceFacts, HasFiles
  <1> QED
    BY <1>1, StorageInvariant, PTL

\* reconcile_local_from_remote removes a file that every device backs up only if some
\* user deleted it, however syncs of devices overlap and fail.
THEOREM FilesSafety == SyncSpec => FilesKept
  <1>1. ASSUME StorageInv, [SyncNext]_syncVars
        PROVE  [\A d \in Devices, p \in Paths : KeepsFile(d, p)]_syncVars
    <2> SUFFICES ASSUME SyncNext, NEW d \in Devices, NEW p \in Paths,
                        disk[d][p] # Missing, disk'[d][p] = Missing,
                        tasks[d].pc = "reconcile", tasks'[d].pc = "reconcile",
                        \A e \in Devices : p \in plans[e], p \notin erased'
                 PROVE  FALSE
      BY <1>1, Zenon DEF KeepsFile
    <2>0. SyncTypeOK /\ PathInv
      BY <1>1, Zenon DEF StorageInv, SyncInv
    <2>1. PICK e \in Devices :
            \/ \E q \in Paths, content \in Blobs \union {Missing} : EditFile(e, q, content)
            \/ \E m \in Manifests : StartRestore(e, m)
            \/ \E q \in Paths, written \in BOOLEAN :
                 ReconcileEntry(e, q, written) \/ RestoreEntry(e, q, written)
      BY Zenon DEF SyncNext, StartSync, StartCleanup, PrepareManifest, UploadManifest, UploadLatest,
             ListManifests, ListBlobs, PointLatest, RestoreEnds, UploadBlob, DeleteBlob,
             DeleteManifest, SyncFails
    <2>2. ASSUME NEW q \in Paths, NEW content \in Blobs \union {Missing}, EditFile(e, q, content)
          PROVE  FALSE
      <3>1. disk' = [disk EXCEPT ![e][q] = content] /\ (content = Missing => q \in erased')
        BY <2>2, Zenon DEF EditFile
      <3>2. e = d /\ q = p /\ content = Missing
        BY <2>0, <3>1, Zenon DEF SyncTypeOK
      <3> QED
        BY <3>1, <3>2, Zenon
    <2>3. ASSUME NEW m \in Manifests, StartRestore(e, m) PROVE FALSE
      <3> DEFINE files == [q \in Paths |-> IF q \in store[m].scope THEN Missing ELSE disk[e][q]]
      <3>1. disk' = [disk EXCEPT ![e] = files] /\ tasks[e].pc = "idle"
        BY <2>3, Zenon DEF StartRestore, Begin
      <3> HIDE DEF files
      <3>2. e # d
        BY <3>1, Zenon
      <3> QED
        BY <2>0, <3>1, <3>2, Zenon DEF SyncTypeOK
    <2>4. ASSUME NEW q \in Paths, NEW written \in BOOLEAN,
                 ReconcileEntry(e, q, written) \/ RestoreEntry(e, q, written)
          PROVE  FALSE
      <3> DEFINE entry == tasks[e].base.entries[q]
                 file == IF entry = Tombstone \/ ~written THEN Missing ELSE entry
                 next == [tasks[e] EXCEPT !.todo = @ \ {q}]
      <3>1. /\ disk' = [disk EXCEPT ![e][q] = file] /\ Go(e, IF written THEN next ELSE IdleTask)
            /\ erased' = erased /\ entry \in {Tombstone, disk[e][q]} \union blobStore
        BY <2>4, Zenon DEF ReconcileEntry, RestoreEntry, TakeEntry
      <3>2. e = d /\ q = p /\ file = Missing
        <4> HIDE DEF file
        <4> QED
          BY <2>0, <3>1, Zenon DEF SyncTypeOK
      <3>3. written
        <4>1. ~written => tasks'[e] = IdleTask
          BY <2>0, <3>1 DEF Go, SyncTypeOK
        <4> QED
          BY <3>2, <4>1, SyncConstants, Zenon
      <3>4. entry # Tombstone
        BY <2>0, <3>1, <3>2, ZenonT(30) DEF PathInv, PathKept
      <3>5. entry = Missing /\ entry \in Blobs \union {Unlisted, Tombstone}
        BY <2>0, <3>2, <3>3, <3>4 DEF SyncTypeOK, Tasks, ManifestRecords
      <3> QED
        BY <3>5, SyncAssumption, Zenon DEF Missing, Unlisted, Tombstone
    <2> QED
      BY <2>1, <2>2, <2>3, <2>4, Zenon
  <1> QED
    BY <1>1, StorageInvariant, PTL DEF SyncSpec, FilesKept
=============================================================================
