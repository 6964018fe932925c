------------------------------ MODULE MCRecords ------------------------------
(***************************************************************************)
(* Small instances of LongTermMemory and ManifestSync.  They share no      *)
(* state: a behaviour moves one of them, the focus, and leaves the other   *)
(* in an initial state, so that TLC explores the two state spaces side by  *)
(* side and not their product.                                             *)
(***************************************************************************)
EXTENDS LongTermMemory, ManifestSync, TLC

VARIABLE focus

recordsVars == <<focus, memoryVars, syncVars>>

RecordsInit ==
    /\ focus \in {"memory", "sync"}
    /\ MemoryInit
    /\ SyncInit
    /\ focus = "sync" \/ plans = [d \in Devices |-> Paths]

RecordsNext ==
    /\ UNCHANGED focus
    /\ \/ focus = "memory" /\ MemoryNext /\ UNCHANGED syncVars
       \/ focus = "sync" /\ SyncNext /\ UNCHANGED memoryVars

RecordsSpec == RecordsInit /\ [][RecordsNext]_recordsVars

RecordsSymmetry == Permutations(Writers) \cup Permutations(Texts) \cup Permutations(Topics)
=============================================================================
