------------------------------ MODULE MCShared ------------------------------
(***************************************************************************)
(* Small instances of five components where several parties work on one    *)
(* thing: the clients of a websocket session, the sockets of a chat page,  *)
(* the turns of a session, the users of the skills manifest and of the     *)
(* configuration file.  They share no state: a behaviour moves one of      *)
(* them, the focus.                                                        *)
(***************************************************************************)
EXTENDS ChatSocket, ChatClient, SessionTurn, SkillStore, ConfigStore, TLC

VARIABLE focus

MCOffers == [r \in Registries |-> IF r = "r1" THEN {{"n1"}} ELSE {{"n1", "n2"}, {"n2"}}]

sharedVars == <<focus, chatVars, uiVars, turnVars, skillVars, confVars>>

\* A component that does not move has one initial state.
SharedInit ==
    /\ focus \in {"chat", "page", "session", "skills", "config"}
    /\ ChatInit
    /\ UiInit
    /\ TurnInit
    /\ SkillInit
    /\ ConfInit
    /\ focus = "page" \/ (stored = <<>> /\ ~page.there)
    /\ focus = "session" \/ limit = 0
    /\ focus = "skills" \/ mirror = [r \in Registries |-> NoMirror]

SharedNext ==
    /\ UNCHANGED focus
    /\ \/ focus = "chat" /\ ChatNext /\ UNCHANGED <<uiVars, turnVars, skillVars, confVars>>
       \/ focus = "page" /\ UiNext /\ UNCHANGED <<chatVars, turnVars, skillVars, confVars>>
       \/ focus = "session" /\ TurnNext /\ UNCHANGED <<chatVars, uiVars, skillVars, confVars>>
       \/ focus = "skills" /\ SkillNext /\ UNCHANGED <<chatVars, uiVars, turnVars, confVars>>
       \/ focus = "config" /\ ConfNext /\ UNCHANGED <<chatVars, uiVars, turnVars, skillVars>>

SharedSpec == SharedInit /\ [][SharedNext]_sharedVars
=============================================================================
