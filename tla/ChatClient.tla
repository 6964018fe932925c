----------------------------- MODULE ChatClient -----------------------------
(***************************************************************************)
(* The chat page of the web UI (klaw-webui/src/web_chat): its websockets,  *)
(* the workspace it loads from the gateway, and the window of one session  *)
(* with its history pages and live frames.                                 *)
(*                                                                         *)
(* The page is one thread.  Socket callbacks run between two repaints and  *)
(* only touch the connection state, the cell that holds the socket and the *)
(* buffer of pending frames; a repaint first handles every pending frame,  *)
(* and then what the user did.  The callbacks do not know whether their    *)
(* socket is still the one in the cell.                                    *)
(*                                                                         *)
(* The gateway answers each socket's requests in order.  A frame goes from *)
(* the gateway's step straight into the buffer: what the network delays is *)
(* delayed by delaying that step.                                          *)
(***************************************************************************)
EXTENDS Naturals, Sequences, FiniteSets

CONSTANTS
    MaxSockets,   \* bound: websockets the page opens
    UiTurns,      \* turns of the session, started by this page or by another client
    PageSize,     \* the limit of thread/history
    MaxStored,    \* bound: records the session has at first
    MaxActs,      \* bound: what the user does besides connecting
    MaxPending,   \* bound: frames that wait for a repaint
    MaxRefusals   \* bound: requests answered with an error

ASSUME ClientAssumption ==
    /\ MaxSockets \in Nat /\ PageSize \in Nat \ {0} /\ MaxStored \in Nat
    /\ MaxActs \in Nat /\ MaxPending \in Nat /\ MaxRefusals \in Nat

Socks == 1..MaxSockets

VARIABLES
    sock,       \* [Socks -> "new", "connecting", "open", "closing" or "closed"]
    page,       \* ChatApp with the window of the session
    inbox,      \* pending_frames
    requests,   \* [Socks -> requests the gateway has not handled]
    listeners,  \* sockets the gateway sends the session's frames to
    stored,     \* the session's records, as a sequence of roles
    alive,      \* does the session exist at the gateway?
    reply,      \* [UiTurns -> where the turn is]
    refusals,   \* number of requests refused
    acts        \* number of the user's acts

uiVars == <<sock, page, inbox, requests, listeners, stored, alive, reply, refusals, acts>>

\* Message ids: a stored record, the user item of a turn, or none.
RecordId(n) == <<"record", n>>
ItemId(t)   == <<"item", t>>
NoId        == <<"none", 0>>

Message(role, id, turns) == [role |-> role, id |-> id, turns |-> turns]

\* SessionWindow::new.
NewWindow == [subscribed |-> FALSE, loading |-> FALSE, more |-> TRUE, oldest |-> 0, cursor |-> {},
              shown |-> <<>>, stream |-> {}]

\* The window restored from localStorage, if any, was open or not.
UiInit ==
    /\ sock = [s \in Socks |-> "new"]
    /\ \E there, isOpen \in BOOLEAN :
        page = [link |-> "down", cell |-> 0, loaded |-> FALSE, there |-> there,
                isOpen |-> there /\ isOpen, win |-> NewWindow, out |-> <<>>]
    /\ inbox = <<>>
    /\ requests = [s \in Socks |-> <<>>]
    /\ listeners = {}
    /\ \E n \in 0..MaxStored : stored = [i \in 1..n |-> IF i % 2 = 1 THEN "user" ELSE "assistant"]
    /\ alive = TRUE
    /\ reply = [t \in UiTurns |-> "none"]
    /\ refusals = 0 /\ acts = 0

Workspace == page.link = "up" /\ page.loaded   \* is_workspace_ready
CanSend   == page.cell # 0 /\ sock[page.cell] = "open"
Gateway   == <<listeners, stored, alive, reply, refusals>>
Acts      == acts < MaxActs /\ acts' = acts + 1

----------------------------------------------------------------------------
(* What the page does to itself: operators on the page's state p.          *)

LastShown(p) == p.win.shown[Len(p.win.shown)]
LastRole(p)  == IF p.win.shown = <<>> THEN "none" ELSE LastShown(p).role

Request(p, r) == [p EXCEPT !.out = Append(@, r)]

\* subscribe_session.
SubscribeSession(p) ==
    IF p.win.subscribed \/ ~CanSend THEN p
    ELSE Request([p EXCEPT !.win.subscribed = TRUE], [kind |-> "subscribe"])

\* load_history_page.
LoadHistoryPage(p) ==
    IF p.win.loading \/ ~p.win.more THEN p
    ELSE IF p.win.shown # <<>> /\ p.win.cursor = {p.win.oldest}
         THEN [p EXCEPT !.win.more = FALSE]
    ELSE IF ~CanSend THEN p
    ELSE Request([p EXCEPT !.win.loading = TRUE, !.win.cursor = {p.win.oldest}],
                 [kind |-> "history", before |-> p.win.oldest])

\* ensure_session_ready, of a window that exists.
EnsureSessionReady(p) == IF p.there THEN LoadHistoryPage(SubscribeSession(p)) ELSE p

\* message_id_exists.
Exists(shown, id) == id # NoId /\ \E i \in DOMAIN shown : shown[i].id = id

\* Mutant of PrependHistoryPage: the ids on the screen are not looked at.
PrependAll(shown, messages) == messages \o shown

\* prepend_history_page.
PrependHistoryPage(shown, messages) ==
    LET kept[k \in 0..Len(messages)] ==
            IF k = 0 THEN <<>>
            ELSE IF Exists(shown, messages[k].id) THEN kept[k - 1]
            ELSE Append(kept[k - 1], messages[k])
    IN  kept[Len(messages)] \o shown

\* Mutant of ProcessHistory: an empty page returns early.
ProcessNonEmpty(p, f) ==
    IF f.messages = <<>> THEN p
    ELSE [p EXCEPT !.win.shown = PrependHistoryPage(@, f.messages),
                   !.win.loading = FALSE,
                   !.win.more = /\ f.more
                                /\ f.oldest # 0
                                /\ p.win.cursor \in {{}, {0}} \/ p.win.cursor # {f.oldest},
                   !.win.oldest = f.oldest]

\* process_result_frame, of a page of messages; history_cursor_can_advance.
ProcessHistory(p, f) ==
    [p EXCEPT !.win.shown = PrependHistoryPage(@, f.messages),
              !.win.loading = FALSE,
              !.win.more = /\ f.more
                           /\ f.oldest # 0
                           /\ p.win.cursor \in {{}, {0}} \/ p.win.cursor # {f.oldest},
              !.win.oldest = f.oldest]

\* process_result_frame, of session/list: sync_sessions_from_workspace rebuilds
\* the windows, subscribe_sessions_needing_history fills the open ones.
ProcessSessions(p, f) ==
    LET q == [p EXCEPT !.there = f.alive, !.isOpen = f.alive /\ p.there /\ @,
                       !.win = NewWindow, !.loaded = TRUE]
    IN  IF q.link = "up" /\ q.isOpen THEN EnsureSessionReady(q) ELSE q

\* apply_assistant_stream_delta: classify_stream_message_action.
ProcessDelta(p, t) ==
    IF p.win.stream = {t} /\ LastRole(p) = "assistant"
    THEN [p EXCEPT !.win.shown[Len(p.win.shown)].turns = @ \cup {t}]
    ELSE [p EXCEPT !.win.shown = Append(@, Message("assistant", NoId, {t})),
                   !.win.stream = {t}]

\* clear_assistant_stream_draft.
ProcessClear(p, t) ==
    IF p.win.stream = {t} /\ LastRole(p) = "assistant" /\ LastShown(p).id = NoId
    THEN [p EXCEPT !.win.shown = SubSeq(@, 1, Len(@) - 1)] ELSE p

\* complete_assistant_response: the gateway's items carry no message id here.
ProcessAnswer(p, t) ==
    IF LastRole(p) = "assistant" THEN p
    ELSE [p EXCEPT !.win.shown = Append(@, Message("assistant", NoId, {t}))]

\* complete_user_message: the echo is taken over if it is the last message.
ProcessUser(p, t) ==
    IF Exists(p.win.shown, ItemId(t)) THEN p
    ELSE IF LastRole(p) = "user" /\ LastShown(p) = Message("user", NoId, {t})
         THEN [p EXCEPT !.win.shown[Len(p.win.shown)].id = ItemId(t)]
    ELSE [p EXCEPT !.win.shown = Append(@, Message("user", ItemId(t), {t}))]

\* process_frame of a frame of the session, for which a window exists.
ProcessSessionFrame(p, f) ==
    CASE f.kind = "history"    -> ProcessHistory(p, f)
      [] f.kind = "subscribed" -> [p EXCEPT !.win.subscribed = TRUE]
      [] f.kind = "user"       -> ProcessUser(p, f.turn)
      [] f.kind = "delta"      -> ProcessDelta(p, f.turn)
      [] f.kind = "clear"      -> ProcessClear(p, f.turn)
      [] f.kind = "answer"     -> ProcessAnswer(p, f.turn)
      [] f.kind = "completed"  -> [ProcessAnswer(p, f.turn) EXCEPT !.win.stream = {}]
      [] f.kind = "deleted"    -> [p EXCEPT !.there = FALSE, !.isOpen = FALSE, !.win = NewWindow]
      [] OTHER                 -> p

\* process_frame.
ProcessFrame(p, f) ==
    CASE f.kind = "error"    -> [p EXCEPT !.link = "error", !.loaded = FALSE]
      [] f.kind = "sessions" -> ProcessSessions(p, f)
      [] OTHER               -> IF p.there THEN ProcessSessionFrame(p, f) ELSE p

\* process_pending_frames: the page after the frames of the buffer, in order.
ProcessPendingFrames ==
    LET after[k \in 0..Len(inbox)] ==
            IF k = 0 THEN page ELSE ProcessFrame(after[k - 1], inbox[k])
    IN  after[Len(inbox)]

\* The page is p, and its requests go out on the socket in the cell.
Becomes(p) ==
    /\ page' = [p EXCEPT !.out = <<>>]
    /\ requests' = IF p.out = <<>> THEN requests
                   ELSE [requests EXCEPT ![page.cell] = @ \o p.out]

\* reset_connection_state.
Reset(w) == [w EXCEPT !.subscribed = FALSE, !.loading = FALSE, !.cursor = {}]

----------------------------------------------------------------------------
(* Repaints.                                                               *)

Repaint ==
    /\ inbox # <<>>
    /\ Becomes(ProcessPendingFrames)
    /\ inbox' = <<>>
    /\ UNCHANGED <<sock, Gateway, acts>>

\* close_connection: close() starts the closing handshake.
Closing == IF page.cell # 0 /\ sock[page.cell] # "closed"
           THEN [sock EXCEPT ![page.cell] = "closing"] ELSE sock

\* connect_workspace, for the connect button and the token of the link.
Connect ==
    /\ inbox = <<>>
    /\ page.link # "dialing"
    /\ \E s \in Socks :
        /\ sock[s] = "new" /\ \A i \in 1..(s - 1) : sock[i] # "new"
        /\ sock' = [Closing EXCEPT ![s] = "connecting"]
        /\ page' = [page EXCEPT !.link = "dialing", !.cell = s, !.loaded = FALSE, !.win = Reset(@)]
    /\ UNCHANGED <<inbox, requests, Gateway, acts>>

\* disconnect_and_clear_token.
Disconnect ==
    /\ inbox = <<>> /\ Acts
    /\ page.link \in {"dialing", "up"}
    /\ sock' = Closing
    /\ page' = [page EXCEPT !.link = "down", !.cell = 0, !.loaded = FALSE, !.win = Reset(@)]
    /\ UNCHANGED <<inbox, requests, Gateway>>

\* What the user does in the workspace, after the pending frames are handled.
InWorkspace == inbox = <<>> /\ Workspace /\ page.there /\ Acts

\* focus_session.
FocusSession ==
    /\ InWorkspace
    /\ Becomes(EnsureSessionReady([page EXCEPT !.isOpen = TRUE]))
    /\ UNCHANGED <<sock, inbox, Gateway>>

CloseWindow ==
    /\ InWorkspace /\ page.isOpen
    /\ page' = [page EXCEPT !.isOpen = FALSE]
    /\ UNCHANGED <<sock, inbox, requests, Gateway>>

\* The window is scrolled to its top.
ScrollUp ==
    /\ InWorkspace /\ page.isOpen
    /\ Becomes(LoadHistoryPage(page))
    /\ UNCHANGED <<sock, inbox, Gateway>>

DeleteSession ==
    /\ InWorkspace /\ CanSend
    /\ Becomes(Request(page, [kind |-> "delete"]))
    /\ UNCHANGED <<sock, inbox, Gateway>>

\* send_session_draft and send_card_action: send_session_input.
SendInput(t) ==
    /\ InWorkspace /\ page.isOpen /\ CanSend
    /\ reply[t] = "none"
    /\ \E stream \in {{}, {t}} :
        Becomes(Request([page EXCEPT !.win.shown = Append(@, Message("user", NoId, {t})),
                                     !.win.stream = stream],
                        [kind |-> "start", turn |-> t]))
    /\ reply' = [reply EXCEPT ![t] = "asked"]
    /\ UNCHANGED <<sock, inbox, listeners, stored, alive, refusals>>

----------------------------------------------------------------------------
(* Socket callbacks.                                                       *)

\* onopen: session/list is the request whose answer changes the workspace.
OnOpen(s) ==
    /\ sock[s] = "connecting"
    /\ sock' = [sock EXCEPT ![s] = "open"]
    /\ page' = [page EXCEPT !.link = "up"]
    /\ requests' = [requests EXCEPT ![s] = <<[kind |-> "list"]>>]
    /\ UNCHANGED <<inbox, Gateway, acts>>

\* onclose, after onerror if the socket failed: the connection failed, ended, or
\* was closed by the page.  It empties the cell, whichever socket is in it.
OnClose(s) ==
    /\ sock[s] \in {"connecting", "open", "closing"}
    /\ sock' = [sock EXCEPT ![s] = "closed"]
    /\ page' = [page EXCEPT !.link = "down", !.cell = 0]
    /\ requests' = [requests EXCEPT ![s] = <<>>]
    /\ listeners' = listeners \ {s}
    /\ UNCHANGED <<inbox, stored, alive, reply, refusals, acts>>

----------------------------------------------------------------------------
(* The gateway.                                                            *)

\* A socket that closes delivers nothing more.
Reaches(s) == sock[s] = "open"

Put(s, f) == inbox' = IF Reaches(s) THEN Append(inbox, f) ELSE inbox

\* The frame reaches every socket that listens.
SendAll(to, f) ==
    inbox' = inbox \o [i \in 1..Cardinality({s \in to : Reaches(s)}) |-> f]

\* thread/history: the records before one, or the last ones.
HistoryPage(before) ==
    LET end   == IF before = 0 THEN Len(stored) ELSE before - 1
        start == IF end > PageSize THEN end - PageSize + 1 ELSE 1
    IN  [kind |-> "history",
         messages |-> [i \in 1..(end - start + 1) |->
                          Message(stored[start + i - 1], RecordId(start + i - 1), {})],
         more |-> start > 1,
         oldest |-> IF end = 0 THEN 0 ELSE start]

AnswerList(s) ==
    /\ Put(s, [kind |-> "sessions", alive |-> alive])
    /\ UNCHANGED <<listeners, alive, reply>>

AnswerSubscribe(s) ==
    /\ listeners' = listeners \cup {s}
    /\ Put(s, [kind |-> "subscribed"])
    /\ UNCHANGED <<alive, reply>>

AnswerHistory(s, before) ==
    /\ Put(s, IF alive THEN HistoryPage(before) ELSE [kind |-> "error"])
    /\ UNCHANGED <<listeners, alive, reply>>

\* The answer says whether there was a session to delete.
AnswerDelete(s) ==
    /\ Put(s, [kind |-> IF alive THEN "deleted" ELSE "absent"])
    /\ alive' = FALSE
    /\ UNCHANGED <<listeners, reply>>

\* turn/start subscribes its connection and tells every listener of the input.
AnswerStart(s, t) ==
    /\ listeners' = listeners \cup {s}
    /\ SendAll(listeners', [kind |-> "user", turn |-> t])
    /\ reply' = [reply EXCEPT ![t] = "running"]
    /\ UNCHANGED alive

\* The gateway handles the next request of a socket.
Handle(s) ==
    /\ requests[s] # <<>> /\ Len(inbox) < MaxPending
    /\ LET r == Head(requests[s])
       IN  \/ r.kind = "list" /\ AnswerList(s)
           \/ r.kind = "subscribe" /\ AnswerSubscribe(s)
           \/ r.kind = "history" /\ AnswerHistory(s, r.before)
           \/ r.kind = "delete" /\ AnswerDelete(s)
           \/ r.kind = "start" /\ AnswerStart(s, r.turn)
    /\ requests' = [requests EXCEPT ![s] = Tail(@)]
    /\ UNCHANGED <<sock, page, stored, refusals, acts>>

\* It refuses it, or fails to.
Refuse(s) ==
    /\ requests[s] # <<>> /\ Len(inbox) < MaxPending
    /\ refusals < MaxRefusals
    /\ Put(s, [kind |-> "error"])
    /\ requests' = [requests EXCEPT ![s] = Tail(@)]
    /\ refusals' = refusals + 1
    /\ UNCHANGED <<sock, page, listeners, stored, alive, reply, acts>>

\* Another client of the session starts a turn.
StartElsewhere(t) ==
    /\ alive /\ reply[t] = "none" /\ Len(inbox) < MaxPending
    /\ reply' = [reply EXCEPT ![t] = "running"]
    /\ SendAll(listeners, [kind |-> "user", turn |-> t])
    /\ UNCHANGED <<sock, page, requests, listeners, stored, alive, refusals, acts>>

\* The turn streams a piece of text, or takes back what it has streamed.
Streams(t) ==
    /\ reply[t] \in {"running", "streamed"} /\ Len(inbox) < MaxPending
    /\ \E kind \in {"delta", "clear"} :
        /\ reply[t] = IF kind = "delta" THEN "running" ELSE "streamed"
        /\ SendAll(listeners, [kind |-> kind, turn |-> t])
        /\ reply' = [reply EXCEPT ![t] = IF kind = "delta" THEN "streamed" ELSE "cleared"]
    /\ UNCHANGED <<sock, page, requests, listeners, stored, alive, refusals, acts>>

\* The turn stores its records and sends the answer.
Answers(t) ==
    /\ reply[t] \in {"running", "streamed", "cleared"} /\ Len(inbox) < MaxPending
    /\ stored' = stored \o <<"user", "assistant">>
    /\ SendAll(listeners, [kind |-> "answer", turn |-> t])
    /\ reply' = [reply EXCEPT ![t] = "answered"]
    /\ UNCHANGED <<sock, page, requests, listeners, alive, refusals, acts>>

\* turn/completed.  A turn that fails takes no further step: the page does
\* nothing on turn/failed.
Completes(t) ==
    /\ reply[t] = "answered" /\ Len(inbox) < MaxPending
    /\ SendAll(listeners, [kind |-> "completed", turn |-> t])
    /\ reply' = [reply EXCEPT ![t] = "ended"]
    /\ UNCHANGED <<sock, page, requests, listeners, stored, alive, refusals, acts>>

----------------------------------------------------------------------------
UiNext ==
    \/ Repaint \/ Connect \/ Disconnect
    \/ FocusSession \/ CloseWindow \/ ScrollUp \/ DeleteSession
    \/ \E s \in Socks : OnOpen(s) \/ OnClose(s) \/ Handle(s) \/ Refuse(s)
    \/ \E t \in UiTurns : \/ SendInput(t) \/ StartElsewhere(t) \/ Streams(t)
                          \/ Answers(t) \/ Completes(t)

UiSpec == UiInit /\ [][UiNext]_uiVars

----------------------------------------------------------------------------
(* Properties.                                                             *)

\* No message with an id is on the screen twice, although history pages overlap
\* with live frames, answers of a socket that was replaced still arrive, and two
\* sockets may both listen: the checks of message_id_exists and
\* prepend_history_page.
MessagesUnique ==
    \A i, j \in DOMAIN page.win.shown :
        page.win.shown[i].id = page.win.shown[j].id /\ page.win.shown[i].id # NoId => i = j

Awaited(kinds) ==
    \/ \E i \in DOMAIN inbox : inbox[i].kind \in kinds
    \/ \E s \in Socks : \E i \in DOMAIN requests[s] : requests[s][i].kind \in kinds

\* A window of the workspace that shows "loading" waits for something that will
\* come: its page of history, an error, or a list of sessions that replaces the
\* window.  Until then the flag blocks every further load (load_history_page).
LoadingEnds ==
    Workspace /\ page.there /\ page.win.loading
        => Awaited({"history", "list", "sessions", "error"})

\* A page that shows the workspace has an open socket to send on: can_send
\* enables the composer whenever the state is Connected.
\* It does not hold and no run checks it (README.md).
ConnectedCanSend == Workspace => CanSend

\* One message of the user is on the screen once (klaw-webui/README.md,
\* the local echo is not repeated by the gateway's item).
\* It does not hold and no run checks it (README.md).
EchoOnce ==
    \A t \in UiTurns :
        Cardinality({i \in DOMAIN page.win.shown :
            page.win.shown[i].role = "user" /\ page.win.shown[i].turns = {t}}) <= 1
=============================================================================
