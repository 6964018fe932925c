----------------------------- MODULE ConfigStore -----------------------------
(***************************************************************************)
(* config.toml and the stores that hold a snapshot of it (klaw-config/src/ *)
(* io.rs).  Every panel of the GUI, the gateway manager and the            *)
(* skills_registry tool opens a store of its own on the same file.         *)
(* update_config reads the file again before it changes one part of it;    *)
(* save_raw_toml writes a whole text.  A write truncates the file and then *)
(* fills it.  An empty file does not parse (model_provider has no          *)
(* default), but migrate_with_defaults completes it from the defaults.     *)
(***************************************************************************)
EXTENDS Naturals

CONSTANTS
    Savers,         \* the GUI's thread and the runtime's threads
    Stores,         \* open ConfigStores
    Settings,       \* independent parts of AppConfig
    Values,         \* values of a setting
    DefaultValue,
    MaxSaves        \* bound: saves and crashes

ASSUME ConfAssumption == DefaultValue \in Values

VARIABLES
    file,      \* [Settings -> Values], the text written last
    form,      \* "whole", "empty" or "garbled": what the file holds of it
    opened,    \* the process runs and has its stores
    snapshot,  \* [Stores -> [Settings -> Values]]
    saving,    \* [Savers -> save under way, or NoSave]
    chosen,    \* history: the value saved last for each setting
    saves      \* history: saves begun, and crashes

confVars == <<file, form, opened, snapshot, saving, chosen, saves>>

Defaults == [f \in Settings |-> DefaultValue]
NoSave == [kind |-> "none"]

ConfInit ==
    /\ file = Defaults /\ form = "whole" /\ opened = TRUE
    /\ snapshot = [s \in Stores |-> Defaults]
    /\ saving = [t \in Savers |-> NoSave]
    /\ chosen = Defaults /\ saves = 0

In(t, phase) == saving[t] # NoSave /\ saving[t].phase = phase
\* update_config holds the store's write lock to its end.
Unlocked(s) == \A t \in Savers : saving[t] # NoSave /\ saving[t].kind = "update" => saving[t].store # s

\* "clean": nobody else has written since the text was made
Saves(t, kind, s, text, parts) ==
    /\ opened /\ saving[t] = NoSave /\ saves < MaxSaves /\ Unlocked(s)
    /\ saves' = saves + 1
    /\ saving' = [saving EXCEPT ![t] = [kind |-> kind, store |-> s, text |-> text, parts |-> parts,
                                        phase |-> "ready", clean |-> TRUE]]
    /\ UNCHANGED <<file, form, opened, snapshot, chosen>>

\* mutant: the change is made to the snapshot of the store
UpdateSnapshot(t, s, f, v) == form = "whole" /\ Saves(t, "update", s, [snapshot[s] EXCEPT ![f] = v], {f})

UpdateConfig(t, s, f, v) == form = "whole" /\ Saves(t, "update", s, [file EXCEPT ![f] = v], {f})

\* save_raw_toml: the skills_registry tool changes the snapshot it holds and
\* saves all of it, as the configuration panel does with its editor's text.
SaveRaw(t, s, f, v) == Saves(t, "raw", s, [snapshot[s] EXCEPT ![f] = v], {f})

ResetToDefaults(t, s) == Saves(t, "reset", s, Defaults, Settings)

\* What is missing in the file is taken from the defaults.
Completed == IF form = "empty" THEN Defaults ELSE file
Migrate(t, s) == form # "garbled" /\ Saves(t, "migrate", s, Completed, {})

Reload(s) ==
    /\ opened /\ Unlocked(s) /\ form = "whole"
    /\ snapshot' = [snapshot EXCEPT ![s] = file]
    /\ UNCHANGED <<file, form, opened, saving, chosen, saves>>

\* A step of t's write: t goes on, the others' texts are not clean any more.
Wrote(t, next) ==
    saving' = [u \in Savers |->
                 CASE u = t -> next
                   [] u # t /\ saving[u] # NoSave -> [saving[u] EXCEPT !.clean = FALSE]
                   [] OTHER -> NoSave]

Truncate(t) ==
    /\ In(t, "ready")
    /\ form' = "empty"
    /\ Wrote(t, [saving[t] EXCEPT !.phase = "filling"])
    /\ UNCHANGED <<file, opened, snapshot, chosen, saves>>

\* The text goes over what another thread wrote since the truncation, whose end
\* may stay behind it.  update_config then sets the snapshot and is done.
Fill(t) ==
    /\ In(t, "filling")
    /\ file' = saving[t].text
    /\ form' \in (IF form = "empty" THEN {"whole"} ELSE {"whole", "garbled"})
    /\ chosen' = [f \in Settings |-> IF f \in saving[t].parts THEN saving[t].text[f] ELSE chosen[f]]
    /\ IF saving[t].kind = "update"
       THEN /\ snapshot' = [snapshot EXCEPT ![saving[t].store] = saving[t].text]
            /\ Wrote(t, NoSave)
       ELSE /\ Wrote(t, [saving[t] EXCEPT !.phase = "written"])
            /\ UNCHANGED snapshot
    /\ UNCHANGED <<opened, saves>>

\* save_raw_toml sets the snapshot to its text; the others reload the store,
\* and fail when the file does not parse.
Adopt(t) ==
    /\ In(t, "written") /\ Unlocked(saving[t].store)
    /\ snapshot' = [snapshot EXCEPT ![saving[t].store] =
                      CASE saving[t].kind = "raw" -> saving[t].text
                        [] saving[t].kind # "raw" /\ form = "whole" -> file
                        [] OTHER -> @]
    /\ saving' = [saving EXCEPT ![t] = NoSave]
    /\ UNCHANGED <<file, form, opened, chosen, saves>>

Crash ==
    /\ opened /\ saves < MaxSaves /\ saves' = saves + 1
    /\ opened' = FALSE
    /\ saving' = [t \in Savers |-> NoSave]
    /\ UNCHANGED <<file, form, snapshot, chosen>>

\* ConfigStore::open at startup: an error ends the program.
Open ==
    /\ ~opened /\ form = "whole"
    /\ opened' = TRUE /\ snapshot' = [s \in Stores |-> file]
    /\ UNCHANGED <<file, form, saving, chosen, saves>>

\* klaw config migrate, klaw config reset
Repair ==
    /\ ~opened /\ form' = "whole"
    /\ \/ form # "garbled" /\ file' = Completed
       \/ file' = Defaults
    /\ chosen' = file'
    /\ UNCHANGED <<opened, snapshot, saving, saves>>

ConfNext ==
    \/ \E t \in Savers, s \in Stores :
         \/ \E f \in Settings, v \in Values : UpdateConfig(t, s, f, v) \/ SaveRaw(t, s, f, v)
         \/ ResetToDefaults(t, s)
         \/ Migrate(t, s)
    \/ \E s \in Stores : Reload(s)
    \/ \E t \in Savers : Truncate(t) \/ Fill(t) \/ Adopt(t)
    \/ Crash \/ Open \/ Repair

ConfSpec == ConfInit /\ [][ConfNext]_confVars

----------------------------------------------------------------------------
\* Every snapshot is a complete configuration.  While the program runs, the
\* file is empty only within a save (fs::write truncates it first).
ConfTypeOK ==
    /\ file \in [Settings -> Values] /\ chosen \in [Settings -> Values]
    /\ form \in {"whole", "empty", "garbled"} /\ opened \in BOOLEAN
    /\ snapshot \in [Stores -> [Settings -> Values]]
    /\ opened /\ form = "empty" => \E t \in Savers : In(t, "filling")

\* The step that ends t's update leaves the rest of the file alone, when
\* nobody wrote since t read it.
SavesOwnPart(t) ==
    /\ In(t, "filling") /\ saving[t].kind = "update" /\ saving[t].clean
    /\ saving'[t] = NoSave /\ opened'
    => \A f \in Settings \ saving[t].parts : file'[f] = file[f]

\* update_config reads the file again so that a store with an old snapshot does
\* not undo what other stores saved: unless another thread wrote after that
\* read, the save changes its own part of the file and nothing else.
UpdateIsLocal == [][\A t \in Savers : SavesOwnPart(t)]_confVars

\* klaw-config/CHANGELOG.md: stores with old snapshots do not overwrite each
\* other's saved settings: in a file at rest a setting has the value saved for
\* it last (save_raw_toml writes every part of a text made from a snapshot).
\* It does not hold and no run checks it (README.md).
SettingsKept == form = "whole" /\ (\A t \in Savers : saving[t] = NoSave) => file = chosen
=============================================================================
