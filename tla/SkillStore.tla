----------------------------- MODULE SkillStore -----------------------------
(***************************************************************************)
(* Installed skills: the manifest of managed skills and the git mirrors of *)
(* the registries (klaw-skill/src/fs_store.rs), changed by the panels of   *)
(* the GUI (skills_manager.rs, skills_registry.rs), by the agent's tools   *)
(* (klaw-tool/src/skills_manager.rs, skills_registry.rs) and by the sync   *)
(* of klaw-runtime at startup.                                             *)
(*                                                                         *)
(* Every operation loads the manifest, awaits file system and git calls,   *)
(* and writes the whole manifest back; no lock spans the two.  The GUI's   *)
(* operations follow one another, and so do a turn's tool calls, but the   *)
(* GUI, its background sync and the tools run side by side.                *)
(***************************************************************************)
EXTENDS Naturals, FiniteSets

CONSTANTS
    Registries,
    SkillNames,
    Offers,        \* [Registries -> set of the skill sets a registry may offer]
    MaxSkillOps    \* bound: operations begun

ASSUME SkillAssumption == Registries # {}

SkillActors == {"gui", "sync", "tool"}
NoMirror == {"no mirror"}
Pairs == Registries \X SkillNames
NoJob == [op |-> "none"]

VARIABLES
    configured,  \* registries of config.skills.registries
    wanted,      \* [Registries -> names in their `installed` list]
    mirror,      \* [Registries -> skills in the clone, or NoMirror]
    manifest,    \* [managed, stale, commits] on disk
    localSkills, \* names with a directory under ~/.klaw/skills
    job,         \* [SkillActors -> operation under way]
    begunOps,    \* history: operations begun
    gone         \* history: pairs uninstalled in the GUI while nothing else ran

skillVars == <<configured, wanted, mirror, manifest, localSkills, job, begunOps, gone>>

SkillInit ==
    /\ configured = Registries /\ wanted = [r \in Registries |-> {}]
    /\ mirror \in [Registries -> UNION {Offers[r] : r \in Registries} \cup {NoMirror}]
    /\ \A r \in Registries : mirror[r] \in Offers[r] \cup {NoMirror}
    /\ manifest = [managed |-> {}, stale |-> {}, commits |-> {r \in Registries : mirror[r] # NoMirror}]
    /\ localSkills = SkillNames
    /\ job = [a \in SkillActors |-> NoJob]
    /\ begunOps = 0 /\ gone = {}

Offered(r, n) == mirror[r] # NoMirror /\ n \in mirror[r]
Named(managed, n) == {p \in managed : p[2] = n}
Of(managed, regs) == {p \in managed : p[1] \in regs}
Alone(a) == \A b \in SkillActors \ {a} : job[b] = NoJob

\* a begins an operation on the pairs of scope; alone says that no other one
\* overlaps it, clean that no other one wrote since it loaded the manifest.
Begins(a, op, regs, name, want, phase) ==
    /\ job[a] = NoJob /\ begunOps < MaxSkillOps
    /\ begunOps' = begunOps + 1
    /\ job' = [b \in SkillActors |->
                 IF b = a THEN [op |-> op, regs |-> regs, name |-> name, want |-> want, phase |-> phase,
                                snap |-> {}, synced |-> {}, before |-> IF op \in {"add", "delete"} THEN <<configured, wanted>> ELSE <<>>,
                                clean |-> TRUE, alone |-> Alone(a)]
                 ELSE IF job[b] = NoJob THEN NoJob ELSE [job[b] EXCEPT !.alone = FALSE]]

----------------------------------------------------------------------------
\* The GUI changes the configuration first and the store after it.
GuiInstall(r, n) ==
    /\ r \in configured /\ n \notin wanted[r] /\ Offered(r, n)
    /\ wanted' = [wanted EXCEPT ![r] = @ \cup {n}]
    /\ Begins("gui", "install", {r}, n, {}, "begun")
    /\ gone' = gone \ {<<r, n>>}
    /\ UNCHANGED <<configured, mirror, manifest, localSkills>>

GuiUninstallFrom(r, n) ==
    /\ n \in wanted[r]
    /\ wanted' = [wanted EXCEPT ![r] = @ \ {n}]
    /\ Begins("gui", "uninstallFrom", {r}, n, {}, "begun")
    /\ UNCHANGED <<configured, mirror, manifest, localSkills, gone>>

\* mutant: the list entry goes, the configuration keeps the skill
GuiUninstallListed(r, n) ==
    /\ <<r, n>> \in manifest.managed
    /\ Begins("gui", "uninstall", {r}, n, {}, "begun")
    /\ UNCHANGED <<configured, wanted, mirror, manifest, localSkills, gone>>

\* uninstall_skill, on an entry of the list that came from registry r.
GuiUninstall(r, n) ==
    /\ <<r, n>> \in manifest.managed
    /\ wanted' = [wanted EXCEPT ![r] = @ \ {n}]
    /\ Begins("gui", "uninstall", {r}, n, {}, "begun")
    /\ UNCHANGED <<configured, mirror, manifest, localSkills, gone>>

GuiDeleteRegistry(r) ==
    /\ r \in configured
    /\ configured' = configured \ {r} /\ wanted' = [wanted EXCEPT ![r] = {}]
    /\ Begins("gui", "cleanup", {r}, "", {}, "begun")
    /\ UNCHANGED <<mirror, manifest, localSkills, gone>>

\* build_sync_request, and load_skills_system_prompt for all registries.
SyncTargets(regs) ==
    /\ regs # {} /\ (regs = configured \/ \E r \in configured : regs = {r})
    /\ Begins("sync", "syncAll", regs, "", {p \in Pairs : p[1] \in regs /\ p[2] \in wanted[p[1]]}, "begun")
    /\ UNCHANGED <<configured, wanted, mirror, manifest, localSkills, gone>>

ToolInstall(r, n) ==
    /\ Begins("tool", "install", {r}, n, {}, "begun")
    /\ gone' = gone \ {<<r, n>>}
    /\ UNCHANGED <<configured, wanted, mirror, manifest, localSkills>>

ToolUninstall(n) ==
    /\ Begins("tool", "uninstall", Registries, n, {}, "begun")
    /\ UNCHANGED <<configured, wanted, mirror, manifest, localSkills, gone>>

ToolSync(r) ==
    /\ r \in configured
    /\ Begins("tool", "syncSource", {r}, "", {}, "repository")
    /\ UNCHANGED <<configured, wanted, mirror, manifest, localSkills, gone>>

\* do_add and do_delete save the configuration first, and save the one they
\* started from again when the store fails.
ToolAdd(r) ==
    /\ r \notin configured
    /\ configured' = configured \cup {r} /\ wanted' = [wanted EXCEPT ![r] = {}]
    /\ Begins("tool", "add", {r}, "", {}, "repository")
    /\ UNCHANGED <<mirror, manifest, localSkills, gone>>

ToolDelete(r) ==
    /\ r \in configured
    /\ configured' = configured \ {r} /\ wanted' = [wanted EXCEPT ![r] = {}]
    /\ Begins("tool", "delete", {r}, "", {}, "repository")
    /\ UNCHANGED <<mirror, manifest, localSkills, gone>>

----------------------------------------------------------------------------
Ends(a) == job' = [job EXCEPT ![a] = NoJob]
GoesTo(a, phase) == job' = [job EXCEPT ![a].phase = phase]

\* sync_source_repository clones or resets the mirror; remove_dir_all.
Repository(a) ==
    /\ job[a] # NoJob /\ job[a].phase = "repository"
    /\ \E r \in job[a].regs, now \in UNION {Offers[s] : s \in Registries} :
         /\ job[a].op # "delete" => now \in Offers[r]
         /\ mirror' = [mirror EXCEPT ![r] = IF job[a].op = "delete" THEN NoMirror ELSE now]
    /\ GoesTo(a, "begun")
    /\ UNCHANGED <<configured, wanted, manifest, localSkills, begunOps, gone>>

\* The mirror is as it was, the operation fails, do_add and do_delete roll back.
RepositoryFails(a) ==
    /\ job[a] # NoJob /\ job[a].phase = "repository"
    /\ Ends(a)
    /\ IF job[a].op \in {"add", "delete"}
       THEN configured' = job[a].before[1] /\ wanted' = job[a].before[2]
       ELSE UNCHANGED <<configured, wanted>>
    /\ UNCHANGED <<mirror, manifest, localSkills, begunOps, gone>>

Load(a) ==
    /\ job[a] # NoJob /\ job[a].phase = "begun"
    /\ job' = [job EXCEPT ![a].snap = manifest, ![a].clean = TRUE,
                          ![a].phase = IF job[a].op = "syncAll" THEN "syncing" ELSE "loaded"]
    /\ UNCHANGED <<configured, wanted, mirror, manifest, localSkills, begunOps, gone>>

\* The JoinSet of sync_registry_installed_skills: each mirror is synced, or
\* its sync fails or times out.
SyncMirrors(a) ==
    /\ job[a] # NoJob /\ job[a].phase = "syncing"
    /\ \E ok \in SUBSET job[a].regs : \E now \in [ok -> UNION {Offers[r] : r \in Registries}] :
         /\ \A r \in ok : now[r] \in Offers[r]
         /\ mirror' = [r \in Registries |-> IF r \in ok THEN now[r] ELSE mirror[r]]
         /\ job' = [job EXCEPT ![a].synced = ok, ![a].phase = "loaded"]
    /\ UNCHANGED <<configured, wanted, manifest, localSkills, begunOps, gone>>

\* What sync_registry_installed_skills makes of the manifest it loaded.
Synced(j) ==
    LET available == {r \in j.regs : mirror[r] # NoMirror}
    IN [managed |-> (j.snap.managed \ Of(j.snap.managed, j.regs)) \cup {p \in j.want : p[1] \in available},
        commits |-> (j.snap.commits \ j.regs) \cup available,
        stale   |-> (j.snap.stale \ j.regs) \cup (available \ j.synced)]

\* It resolves every wanted skill of an available registry, each name once.
Resolves(j) ==
    LET desired == {p \in j.want : mirror[p[1]] # NoMirror}
    IN \A p \in desired : Offered(p[1], p[2]) /\ \A q \in desired : q[2] = p[2] => q = p

\* What each operation makes of the manifest it loaded.
\* install_from_registry refuses a name another registry has installed.
Installed(m, r, n) ==
    [m EXCEPT !.managed = IF Offered(r, n) /\ Named(@, n) \subseteq {<<r, n>>}
                          THEN @ \cup {<<r, n>>} ELSE @]
UninstalledFrom(m, r, n) == [m EXCEPT !.managed = @ \ {<<r, n>>}]
Uninstalled(m, n) == [m EXCEPT !.managed = @ \ Named(@, n)]
SourceSynced(m, r) == [m EXCEPT !.stale = @ \ {r}, !.commits = @ \cup {r}]

\* cleanup_registry writes nothing when the registry has no skill installed.
CleanedUp(m, r) ==
    IF Of(m.managed, {r}) = {} THEN m
    ELSE [managed |-> m.managed \ Of(m.managed, {r}), stale |-> m.stale \ {r},
          commits |-> m.commits \ {r}]

\* delete_source does the same once the mirror is gone.
SourceDeleted(m, r) == CleanedUp(m, r)

\* All operations but syncAll, and uninstall of the tool, are about one registry.
Registry(j) == CHOOSE r \in j.regs : TRUE

\* The manifest an operation writes, or what it loaded when it writes none.
Written(j) ==
    CASE j.op = "install"       -> Installed(j.snap, Registry(j), j.name)
      [] j.op = "uninstallFrom" -> UninstalledFrom(j.snap, Registry(j), j.name)
      [] j.op = "uninstall"     -> Uninstalled(j.snap, j.name)
      [] j.op = "cleanup"       -> CleanedUp(j.snap, Registry(j))
      [] j.op = "delete"        -> SourceDeleted(j.snap, Registry(j))
      [] j.op \in {"syncSource", "add"} -> SourceSynced(j.snap, Registry(j))
      [] j.op = "syncAll"       -> IF Resolves(j) THEN Synced(j) ELSE j.snap

\* An operation that adds a registry always writes; the others only a change.
Writes(j) == Written(j) # j.snap \/ j.op \in {"syncSource", "add"} \/ (j.op = "syncAll" /\ Resolves(j))

Write(a) ==
    /\ job[a] # NoJob /\ job[a].phase = "loaded"
    /\ manifest' = IF Writes(job[a]) THEN Written(job[a]) ELSE manifest
    /\ localSkills' = IF job[a].op = "uninstall" THEN localSkills \ {job[a].name} ELSE localSkills
    /\ job' = [b \in SkillActors |->
                 IF b = a THEN NoJob
                 ELSE IF job[b] = NoJob \/ ~Writes(job[a]) THEN job[b] ELSE [job[b] EXCEPT !.clean = FALSE]]
    /\ gone' = IF a = "gui" /\ job[a].op \in {"uninstall", "uninstallFrom"} /\ job[a].alone
               THEN gone \cup (job[a].regs \X {job[a].name}) ELSE gone
    /\ UNCHANGED <<configured, wanted, mirror, begunOps>>

SkillNext ==
    \/ \E r \in Registries, n \in SkillNames :
         GuiInstall(r, n) \/ GuiUninstallFrom(r, n) \/ GuiUninstall(r, n) \/ ToolInstall(r, n)
    \/ \E n \in SkillNames : ToolUninstall(n)
    \/ \E r \in Registries : GuiDeleteRegistry(r) \/ ToolSync(r) \/ ToolAdd(r) \/ ToolDelete(r)
    \/ \E regs \in SUBSET Registries : SyncTargets(regs)
    \/ \E a \in SkillActors : Repository(a) \/ RepositoryFails(a) \/ Load(a) \/ SyncMirrors(a) \/ Write(a)

SkillSpec == SkillInit /\ [][SkillNext]_skillVars

----------------------------------------------------------------------------
Manifests == [managed : SUBSET Pairs, stale : SUBSET Registries, commits : SUBSET Registries]
Ops == {"install", "uninstallFrom", "uninstall", "cleanup", "syncAll", "syncSource", "add", "delete"}
Jobs == [op : Ops, regs : SUBSET Registries, name : SkillNames \cup {""}, want : SUBSET Pairs,
         phase : {"begun", "repository", "loaded", "syncing"}, snap : Manifests \cup {{}},
         synced : SUBSET Registries,
         before : ((SUBSET Registries) \X [Registries -> SUBSET SkillNames]) \cup {<<>>},
         clean : BOOLEAN, alone : BOOLEAN]

\* The manifest, the `installed` lists and the operations under way stay within
\* their types; an operation past its load holds a manifest.
SkillTypeOK ==
    /\ configured \subseteq Registries /\ wanted \in [Registries -> SUBSET SkillNames]
    /\ manifest \in Manifests /\ gone \subseteq Pairs
    /\ job \in [SkillActors -> Jobs \cup {NoJob}]
    /\ \A a \in SkillActors : job[a] # NoJob =>
          /\ job[a].regs # {}
          /\ job[a].op \in {"install", "uninstall", "uninstallFrom"} => job[a].name \in SkillNames
          /\ job[a].op \in {"add", "delete"} => job[a].before # <<>>
          /\ job[a].phase \in {"loaded", "syncing"} => job[a].snap \in Manifests

\* A skill uninstalled in the GUI is not brought back by any later sync, of one
\* registry or of all: the configuration was changed along with the manifest.
UninstalledStaysGone == gone \cap manifest.managed = {}

\* load_managed_index refuses a manifest with a name twice, and with it every
\* installed skill: install_from_registry takes care that there is none.
\* It does not hold and no run checks it (README.md).
ManifestLoadable == \A p, q \in manifest.managed : p[2] = q[2] => p = q

\* klaw-skill/CHANGELOG.md: deleting a source clears its entries and its
\* metadata in the manifest.
\* It does not hold and no run checks it (README.md).
DeletedIsForgotten ==
    [][\A a \in SkillActors : job[a] # NoJob /\ job[a].op = "delete" /\ Write(a) =>
         job[a].regs \cap (manifest'.commits \cup manifest'.stale) = {}]_skillVars
=============================================================================
