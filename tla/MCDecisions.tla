---------------------------- MODULE MCDecisions ----------------------------
(***************************************************************************)
(* Small instances of Approval and PendingQuestion, the two things a user  *)
(* decides.  They share no state: a behaviour moves one, the focus.        *)
(***************************************************************************)
EXTENDS Approval, PendingQuestion, TLC

VARIABLE focus

decisionVars == <<focus, vars, questionVars>>

DecisionsInit == focus \in {"approval", "question"} /\ Init /\ QuestionInit

DecisionsNext ==
    /\ UNCHANGED focus
    /\ \/ focus = "approval" /\ Next /\ UNCHANGED questionVars
       \/ focus = "question" /\ QuestionNext /\ UNCHANGED vars

DecisionsSpec == DecisionsInit /\ [][DecisionsNext]_decisionVars

CallerSymmetry == Permutations(Callers)
=============================================================================
