----------------------------- MODULE ChatSocket -----------------------------
(***************************************************************************)
(* The chat websocket of the gateway: the connections and their turns      *)
(* (klaw-gateway/src/websocket.rs), the broadcaster that fans a turn's     *)
(* frames out (klaw-gateway/src/state.rs) and the handler that publishes   *)
(* them (klaw-runtime/src/gateway_websocket.rs).  One session.             *)
(*                                                                         *)
(* A turn runs as a task of its own and publishes into a bounded queue; a  *)
(* second task takes frames from it and offers each to the bounded queue   *)
(* of every subscribed connection; the loop of a connection writes its     *)
(* queue to the socket, and handles the client's requests one at a time.   *)
(* What a request answers is written to the socket past the queue.         *)
(***************************************************************************)
EXTENDS Naturals, Sequences, FiniteSets, Functions

CONSTANTS
    Conns,        \* websocket connections, one of a client each
    ChatTurns,    \* turns clients may start
    NoTurn,
    Capacity,     \* GATEWAY_WEBSOCKET_OUTBOUND_QUEUE_CAPACITY
    MaxActive,    \* GATEWAY_WEBSOCKET_MAX_ACTIVE_TURNS_PER_CONNECTION
    MaxFrames,    \* bound: frames a turn publishes before its last
    MaxPushes     \* bound: messages background services push to the session

\* A channel of tokio has room for one message at least.
ASSUME ChatAssumption ==
    /\ NoTurn \notin ChatTurns \cup Conns /\ "push" \notin ChatTurns
    /\ Capacity \in Nat \ {0}

Terminal == {"completed", "failed", "interrupted"}
Pushed == "push"   \* in place of a turn: an item of the outbound dispatcher

VARIABLES
    open,        \* connections whose socket loop runs
    registered,  \* connections the broadcaster knows
    subscribed,  \* those with the session among subscribed_session_keys
    outgoing,    \* [Conns -> queue of frames for the socket]
    listing,     \* [Conns -> turn spawned and not yet in active_turns]
    activeTurns, \* [Conns -> turns in active_turns]
    owner,       \* [ChatTurns -> connection that started it, or NoTurn]
    task,        \* [ChatTurns -> where the turn's task is]
    aborting,    \* turns whose task was told to abort
    fan,         \* [ChatTurns -> queue between the task and the fan-out]
    sent,        \* [ChatTurns -> number of frames published so far]
    received,    \* history: [Conns -> frames written to the socket, of the turns not in left]
    dropped,     \* history: turns with a frame that found the queue full
    pushes,      \* history: messages pushed
    left         \* history: <<connection, turn>>, not subscribed all through the turn

chatVars == <<open, registered, subscribed, outgoing, listing, activeTurns, owner, task, aborting, fan, sent,
              received, dropped, pushes, left>>

ChatInit ==
    /\ open = Conns /\ registered = Conns /\ subscribed = {}
    /\ outgoing = [c \in Conns |-> <<>>]
    /\ listing = [c \in Conns |-> NoTurn]
    /\ activeTurns = [c \in Conns |-> {}]
    /\ owner = [t \in ChatTurns |-> NoTurn]
    /\ task = [t \in ChatTurns |-> "none"]
    /\ aborting = {}
    /\ fan = [t \in ChatTurns |-> <<>>] /\ sent = [t \in ChatTurns |-> 0]
    /\ received = [c \in Conns |-> {}]
    /\ dropped = {} /\ pushes = 0 /\ left = {}

Frame(t, kind) == [turn |-> t, n |-> sent[t], kind |-> kind]
Begun == {t \in ChatTurns : sent[t] > 0}
Ready(c) == c \in open /\ listing[c] = NoTurn   \* its loop is at the select

----------------------------------------------------------------------------
\* session/subscribe and session/unsubscribe.  track_session_key finds no
\* connection that the broadcaster has dropped.
Subscribe(c) ==
    /\ Ready(c) /\ c \notin subscribed
    /\ subscribed' = subscribed \cup ({c} \cap registered)
    /\ left' = left \cup ({c} \X Begun)
    /\ received' = [received EXCEPT ![c] = {}]
    /\ UNCHANGED <<open, registered, outgoing, listing, activeTurns, owner, task, aborting, fan, sent, dropped, pushes>>

Unsubscribe(c) ==
    /\ Ready(c) /\ c \in subscribed
    /\ subscribed' = subscribed \ {c}
    /\ left' = left \cup ({c} \X Begun)
    /\ received' = [received EXCEPT ![c] = {}]
    /\ UNCHANGED <<open, registered, outgoing, listing, activeTurns, owner, task, aborting, fan, sent, dropped, pushes>>

MayStart(c) == Cardinality(activeTurns[c]) < MaxActive

\* handle_protocol_turn_start, up to the spawn of the turn's task.  The user's
\* message and turn/started, published together, are one frame here.
TurnStart(c, t) ==
    /\ Ready(c) /\ owner[t] = NoTurn /\ MayStart(c)
    /\ subscribed' = subscribed \cup ({c} \cap registered)
    /\ left' = IF c \in subscribed THEN left ELSE left \cup ({c} \X Begun)
    /\ owner' = [owner EXCEPT ![t] = c]
    /\ fan' = [fan EXCEPT ![t] = <<Frame(t, "started")>>]
    /\ sent' = [sent EXCEPT ![t] = 1]
    /\ task' = [task EXCEPT ![t] = "running"]
    /\ listing' = [listing EXCEPT ![c] = t]
    /\ UNCHANGED <<open, registered, outgoing, activeTurns, aborting, received, dropped, pushes>>

\* The rest of it: the turn enters active_turns, and leaves again when its
\* task has already finished.
TurnListed(c) ==
    /\ c \in open /\ listing[c] # NoTurn
    /\ activeTurns' = [activeTurns EXCEPT ![c] = IF task[listing[c]] = "finished" THEN @ \ {listing[c]}
                                                 ELSE @ \cup {listing[c]}]
    /\ listing' = [listing EXCEPT ![c] = NoTurn]
    /\ UNCHANGED <<open, registered, subscribed, outgoing, owner, task, aborting, fan, sent, received, dropped, pushes, left>>

\* mutant: the client that cancels gets the answer and no notification
TurnCancelQuietly(c, t) ==
    /\ Ready(c) /\ t \in activeTurns[c]
    /\ activeTurns' = [activeTurns EXCEPT ![c] = @ \ {t}]
    /\ aborting' = aborting \cup {t}
    /\ UNCHANGED <<open, registered, subscribed, outgoing, listing, owner, task, fan, sent, received, dropped, pushes, left>>

\* handle_protocol_turn_cancel: the task is told to abort and turn/interrupted
\* written to the client that asked.
TurnCancel(c, t) ==
    /\ Ready(c) /\ t \in activeTurns[c]
    /\ activeTurns' = [activeTurns EXCEPT ![c] = @ \ {t}]
    /\ aborting' = aborting \cup {t}
    /\ received' = [received EXCEPT ![c] = @ \cup {[turn |-> t, n |-> 0, kind |-> "interrupted"] : u \in {t} \ {v \in ChatTurns : <<c, v>> \in left}}]
    /\ UNCHANGED <<open, registered, subscribed, outgoing, listing, owner, task, fan, sent, dropped, pushes, left>>

\* The socket closes: abort_active_turns and cleanup_connection.
Close(c) ==
    /\ Ready(c)
    /\ open' = open \ {c} /\ registered' = registered \ {c} /\ subscribed' = subscribed \ {c}
    /\ aborting' = aborting \cup activeTurns[c]
    /\ activeTurns' = [activeTurns EXCEPT ![c] = {}]
    /\ outgoing' = [outgoing EXCEPT ![c] = <<>>]
    /\ received' = [received EXCEPT ![c] = {}]
    /\ UNCHANGED <<listing, owner, task, fan, sent, dropped, pushes, left>>

\* The socket loop writes a queued frame.
WriteFrame(c) ==
    /\ Ready(c) /\ outgoing[c] # <<>>
    /\ outgoing' = [outgoing EXCEPT ![c] = Tail(@)]
    /\ received' = [received EXCEPT ![c] = @ \cup {f \in {Head(outgoing[c])} : f.turn # Pushed /\ <<c, f.turn>> \notin left}]
    /\ UNCHANGED <<open, registered, subscribed, listing, activeTurns, owner, task, aborting, fan, sent, dropped, pushes, left>>

----------------------------------------------------------------------------
\* The turn's task: submit publishes with try_send, which fails when the
\* queue is full; that fails the turn, whose turn/failed is tried once.
Room(t) == Len(fan[t]) < Capacity
Publish(t, kind) ==
    /\ fan' = [fan EXCEPT ![t] = Append(@, Frame(t, kind))]
    /\ sent' = [sent EXCEPT ![t] = @ + 1]
    /\ UNCHANGED dropped
Lose(t) == dropped' = dropped \cup {t} /\ UNCHANGED <<fan, sent>>
taskRest == <<open, registered, subscribed, outgoing, listing, activeTurns, owner, aborting, received, pushes, left>>

\* mutant: a frame that finds the queue full is only logged
TaskPublishesOn(t) ==
    /\ task[t] = "running" /\ sent[t] < MaxFrames
    /\ IF Room(t) THEN Publish(t, "item")
       ELSE sent' = [sent EXCEPT ![t] = @ + 1] /\ dropped' = dropped \cup {t} /\ UNCHANGED fan
    /\ UNCHANGED <<task, taskRest>>

TaskPublishes(t) ==
    /\ task[t] = "running" /\ sent[t] < MaxFrames
    /\ IF Room(t) THEN Publish(t, "item") /\ UNCHANGED task
       ELSE Lose(t) /\ task' = [task EXCEPT ![t] = "failing"]
    /\ UNCHANGED taskRest

TaskFails(t) ==
    /\ task[t] \in {"running", "failing"}
    /\ IF Room(t) THEN Publish(t, "failed") ELSE Lose(t)
    /\ task' = [task EXCEPT ![t] = "over"]
    /\ UNCHANGED taskRest

TaskCompletes(t) ==
    /\ task[t] = "running"
    /\ IF Room(t) THEN Publish(t, "completed") /\ task' = [task EXCEPT ![t] = "over"]
       ELSE Lose(t) /\ task' = [task EXCEPT ![t] = "failing"]
    /\ UNCHANGED taskRest

\* It takes itself out of active_turns, and has finished one step later.
TaskUnlists(t) ==
    /\ task[t] = "over"
    /\ task' = [task EXCEPT ![t] = "unlisted"]
    /\ activeTurns' = [activeTurns EXCEPT ![owner[t]] = @ \ {t}]
    /\ UNCHANGED <<open, registered, subscribed, outgoing, listing, owner, aborting, fan, sent, received, dropped, pushes, left>>

TaskFinishes(t) ==
    /\ task[t] = "unlisted"
    /\ task' = [task EXCEPT ![t] = "finished"]
    /\ UNCHANGED <<fan, sent, dropped, taskRest>>

\* An abort takes effect where the task next awaits.
TaskStops(t) ==
    /\ t \in aborting /\ task[t] # "finished"
    /\ task' = [task EXCEPT ![t] = "finished"]
    /\ UNCHANGED <<fan, sent, dropped, taskRest>>

----------------------------------------------------------------------------
\* broadcast_to_session: a subscribed connection whose queue is full, or gone,
\* is dropped from the broadcaster; its socket stays open.
Hears(c) == c \in registered \cap subscribed

Broadcast(frame) ==
    LET full == {c \in Conns : Hears(c) /\ Len(outgoing[c]) >= Capacity} IN
    /\ outgoing' = [c \in Conns |-> IF Hears(c) /\ c \notin full THEN Append(outgoing[c], frame) ELSE outgoing[c]]
    /\ registered' = registered \ full
    /\ subscribed' = subscribed \ full

FanOut(t) ==
    /\ fan[t] # <<>>
    /\ Broadcast(Head(fan[t]))
    /\ fan' = [fan EXCEPT ![t] = Tail(@)]
    /\ UNCHANGED <<open, listing, activeTurns, owner, task, aborting, sent, received, dropped, pushes, left>>

\* dispatch_websocket_outbound_message.
Push ==
    /\ pushes < MaxPushes
    /\ Broadcast([turn |-> Pushed, n |-> pushes, kind |-> "item"])
    /\ pushes' = pushes + 1
    /\ UNCHANGED <<open, listing, activeTurns, owner, task, aborting, fan, sent, received, dropped, left>>

ChatNext ==
    \/ \E c \in Conns : Subscribe(c) \/ Unsubscribe(c) \/ Close(c) \/ WriteFrame(c) \/ TurnListed(c)
    \/ \E c \in Conns, t \in ChatTurns : TurnStart(c, t) \/ TurnCancel(c, t)
    \/ \E t \in ChatTurns : \/ TaskPublishes(t) \/ TaskFails(t) \/ TaskCompletes(t)
                            \/ TaskUnlists(t) \/ TaskFinishes(t) \/ TaskStops(t) \/ FanOut(t)
    \/ Push

ChatSpec == ChatInit /\ [][ChatNext]_chatVars

----------------------------------------------------------------------------
Frames == [turn : ChatTurns \cup {Pushed}, n : Nat, kind : Terminal \cup {"started", "item"}]
TaskStates == {"none", "running", "failing", "over", "unlisted", "finished"}

\* The maps of handle_socket and the broadcaster stay within their types, the two
\* queues within their capacity.
ChatTypeOK ==
    /\ open \subseteq Conns /\ registered \subseteq open /\ subscribed \subseteq registered
    /\ outgoing \in [Conns -> Seq(Frames)] /\ \A c \in Conns : Len(outgoing[c]) <= Capacity
    /\ listing \in [Conns -> ChatTurns \cup {NoTurn}] /\ activeTurns \in [Conns -> SUBSET ChatTurns]
    /\ received \in [Conns -> SUBSET Frames]
    /\ owner \in [ChatTurns -> Conns \cup {NoTurn}] /\ task \in [ChatTurns -> TaskStates]
    /\ fan \in [ChatTurns -> Seq(Frames)] /\ \A t \in ChatTurns : Len(fan[t]) <= Capacity
    /\ sent \in [ChatTurns -> Nat] /\ aborting \subseteq {t \in ChatTurns : task[t] # "none"}
    /\ dropped \subseteq ChatTurns /\ pushes \in Nat /\ left \subseteq Conns \X ChatTurns

\* Frames of a turn that reached a connection's queue or socket, in order.
Reached(c, t) == {f.n : f \in {g \in received[c] \cup Range(outgoing[c]) : g.turn = t /\ g.kind # "interrupted"}}

\* A client applies deltas to what it already shows.  Two bounded queues and a
\* broadcaster that drops a slow connection lie in between: whatever part of a
\* turn a client that stays subscribed gets is a beginning of it, no gaps.
NoGaps ==
    \A c \in Conns, t \in ChatTurns :
        <<c, t>> \notin left => \A n \in Reached(c, t) : \A m \in 0 .. n : m \in Reached(c, t)

\* The turn is over, all its frames were queued and offered, and c heard them.
Witnessed(c, t) ==
    /\ task[t] = "finished" /\ fan[t] = <<>> /\ t \notin dropped
    /\ Hears(c) /\ <<c, t>> \notin left
Concluded(c, t) == \E f \in received[c] \cup Range(outgoing[c]) : f.turn = t /\ f.kind \in Terminal

\* A turn may complete, fail or be cancelled while its frames are under way.
\* The client that started it gets a terminal notification, unless it left,
\* was dropped for being slow, or the turn's own queue overflowed.
StarterLearnsEnd == \A t \in ChatTurns, c \in Conns : owner[t] = c /\ Witnessed(c, t) => Concluded(c, t)

\* klaw-gateway/CHANGELOG.md: the turn lifecycle frames fan out to every
\* connection subscribed to the session, so that is true of all of them.
\* It does not hold and no run checks it (README.md).
LifecycleFansOut == \A t \in ChatTurns, c \in Conns : owner[t] \in open /\ Witnessed(c, t) => Concluded(c, t)
=============================================================================
