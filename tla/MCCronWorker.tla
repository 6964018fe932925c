---------------------------- MODULE MCCronWorker ----------------------------
(* Small instances of CronWorker for TLC. *)
EXTENDS CronWorker, TLC

CONSTANTS j1, j2, w1, w2, gui

\* j1 runs every tick.
MCEveryTick == [j \in Jobs |-> 1]

\* The occurrences of j2 are the multiples of 2 strictly after t + 1.
MCCronNext == [j \in Jobs |-> [t \in Times |-> 2 * ((t + 1) \div 2) + 2]]

\* The driver threads are interchangeable in a run that checks invariants only.
WorkerSymmetry == Permutations(Workers)
=============================================================================
