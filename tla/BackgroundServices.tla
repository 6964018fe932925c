------------------------ MODULE BackgroundServices --------------------------
(***************************************************************************)
(* The runtime ticks of BackgroundServices and what they share.            *)
(*                                                                         *)
(* One BackgroundServices serves the whole process.  Every channel driver  *)
(* runs a tick of its own on its own thread, as one job of its select      *)
(* loop; each click on "run now" in the GUI spawns a task with a tick on   *)
(* the one thread of the GUI runtime.  A tick drains the inbound queue,    *)
(* which may publish answers, and then forwards what was published to the  *)
(* outbound dispatcher.  Two locks are involved:                           *)
(*                                                                         *)
(*   guard      runtime_drain_error, a std Mutex: a thread that has to     *)
(*              wait for it runs nothing else;                             *)
(*   published  the list of InMemoryTransport under a tokio Mutex: a task  *)
(*              that has to wait for it is parked, and its thread goes on  *)
(*              with other tasks.  The lock is handed over in the order of *)
(*              the requests, to a parked task too.                        *)
(*                                                                         *)
(* A message is its place in the list.                                     *)
(***************************************************************************)
EXTENDS Naturals, Sequences

CONSTANTS Drivers,      \* channel drivers, a thread each
          Clicks,       \* tasks of the GUI thread
          NoTick,       \* nobody holds the guard
          MaxMessages,  \* bound: answers published
          MaxMishaps    \* bound: drains that fail and ticks that are dropped

ASSUME ServicesAssumption == NoTick \notin Drivers \union Clicks

VARIABLES phase,       \* where each tick is
          handling,    \* drivers that handle an update meanwhile
          guard,       \* the holder of runtime_drain_error
          lockQueue,   \* requests for the published list, the holder first
          outbound,    \* number of messages published
          range,       \* what a tick is about to forward: after from, up to upTo
          dispatched,  \* dispatched_outbound_count
          forwarded,   \* what the outbound dispatcher received
          mishaps

serviceVars == <<phase, handling, guard, lockQueue, outbound, range, dispatched,
                 forwarded, mishaps>>

Ticks == Drivers \union Clicks
SameThread(a, b) == a = b \/ {a, b} \subseteq Clicks

\* In these phases a tick is in the middle of a poll, or blocks its thread.
OnThread == {"push", "read", "forward", "blocked", "failing"}

\* The tick is polled: its thread is not with another task, and the select loop
\* of its driver is not inside handle_update.
Polled(a) ==
  /\ \A b \in Ticks \ {a} : SameThread(a, b) => phase[b] \notin OnThread
  /\ a \in Drivers => ~handling[a]

ServicesInit ==
  /\ phase = [a \in Ticks |-> "idle"]
  /\ handling = [d \in Drivers |-> FALSE]
  /\ guard = NoTick /\ lockQueue = <<>>
  /\ outbound = 0 /\ dispatched = 0 /\ forwarded = <<>> /\ mishaps = 0
  /\ range = [a \in Ticks |-> [from |-> 0, upTo |-> 0]]

\* published.lock().await: at once when it is free, parked when it is not.
LockPublished(a, now, parked) ==
  /\ lockQueue' = Append(lockQueue, a)
  /\ phase' = [phase EXCEPT ![a] = IF lockQueue = <<>> THEN now ELSE parked]

StartTick(a) ==
  /\ phase[a] = "idle" /\ Polled(a)
  /\ phase' = [phase EXCEPT ![a] = "drain"]
  /\ UNCHANGED <<handling, guard, lockQueue, outbound, range, dispatched, forwarded, mishaps>>

\* A message of the queue was processed and its answer is to be published.
DrainPublishes(a) ==
  /\ phase[a] = "drain" /\ Polled(a) /\ outbound + Len(lockQueue) < MaxMessages
  /\ LockPublished(a, "push", "parkedPush")
  /\ UNCHANGED <<handling, guard, outbound, range, dispatched, forwarded, mishaps>>

Push(a) ==
  /\ phase[a] \in {"push", "parkedPush"} /\ Head(lockQueue) = a /\ Polled(a)
  /\ outbound' = outbound + 1
  /\ lockQueue' = Tail(lockQueue)
  /\ phase' = [phase EXCEPT ![a] = "drain"]
  /\ UNCHANGED <<handling, guard, range, dispatched, forwarded, mishaps>>

\* Mutant: the guard is released before the dispatch.
AfterDrainReleased(a, ok) ==
  IF guard # NoTick
    THEN /\ phase' = [phase EXCEPT ![a] = IF ok THEN "blocked" ELSE "failing"]
         /\ UNCHANGED <<guard, lockQueue>>
    ELSE IF ok
      THEN LockPublished(a, "read", "parkedRead") /\ UNCHANGED guard
      ELSE phase' = [phase EXCEPT ![a] = "idle"] /\ UNCHANGED <<guard, lockQueue>>

\* Mutant: after one failure nothing is dispatched any more.
AfterDrainOnceFailed(a, ok) ==
  IF guard # NoTick
    THEN /\ phase' = [phase EXCEPT ![a] = IF ok THEN "blocked" ELSE "failing"]
         /\ UNCHANGED <<guard, lockQueue>>
    ELSE IF ok /\ mishaps = 0
      THEN LockPublished(a, "read", "parkedRead") /\ guard' = a
      ELSE phase' = [phase EXCEPT ![a] = "idle"] /\ UNCHANGED <<guard, lockQueue>>

\* on_runtime_tick after the drain: with the guard, note an error, or keep the
\* guard and ask for the published list.
AfterDrain(a, ok) ==
  IF guard # NoTick
    THEN /\ phase' = [phase EXCEPT ![a] = IF ok THEN "blocked" ELSE "failing"]
         /\ UNCHANGED <<guard, lockQueue>>
    ELSE IF ok
      THEN LockPublished(a, "read", "parkedRead") /\ guard' = a
      ELSE phase' = [phase EXCEPT ![a] = "idle"] /\ UNCHANGED <<guard, lockQueue>>

DrainEnds(a, ok) ==
  /\ phase[a] = "drain" /\ Polled(a)
  /\ ok \/ mishaps < MaxMishaps
  /\ AfterDrain(a, ok)
  /\ mishaps' = IF ok THEN mishaps ELSE mishaps + 1
  /\ UNCHANGED <<handling, outbound, range, dispatched, forwarded>>

\* The std Mutex is free and the thread goes on.
Unblocks(a) ==
  /\ phase[a] \in {"blocked", "failing"} /\ guard = NoTick
  /\ AfterDrain(a, phase[a] = "blocked")
  /\ UNCHANGED <<handling, outbound, range, dispatched, forwarded, mishaps>>

\* dispatch_outbound_messages: the list and the count are read ...
ReadPublished(a) ==
  /\ phase[a] \in {"read", "parkedRead"} /\ Head(lockQueue) = a /\ Polled(a)
  /\ range' = [range EXCEPT ![a] = [from |-> dispatched, upTo |-> outbound]]
  /\ lockQueue' = Tail(lockQueue)
  /\ phase' = [phase EXCEPT ![a] = "forward"]
  /\ UNCHANGED <<handling, guard, outbound, dispatched, forwarded, mishaps>>

\* ... what is new is sent on, and the count is stored; the guard goes last.
ForwardOut(a) ==
  /\ phase[a] = "forward"
  /\ forwarded' = forwarded \o [i \in 1 .. range[a].upTo - range[a].from |-> range[a].from + i]
  /\ dispatched' = range[a].upTo
  /\ range' = [range EXCEPT ![a] = [from |-> 0, upTo |-> 0]]
  /\ guard' = IF guard = a THEN NoTick ELSE guard
  /\ phase' = [phase EXCEPT ![a] = "idle"]
  /\ UNCHANGED <<handling, lockQueue, outbound, mishaps>>

\* A driver reconnects or stops: its runtime_job is dropped where it awaits, and
\* with it the guard and the place in the queue.
DropTick(d) ==
  /\ phase[d] \in {"drain", "parkedPush", "parkedRead"} /\ ~handling[d] /\ mishaps < MaxMishaps
  /\ phase' = [phase EXCEPT ![d] = "idle"]
  /\ lockQueue' = SelectSeq(lockQueue, LAMBDA a : a # d)
  /\ guard' = IF guard = d THEN NoTick ELSE guard
  /\ mishaps' = mishaps + 1
  /\ UNCHANGED <<handling, outbound, range, dispatched, forwarded>>

\* handle_update runs in a branch of the select loop: the driver's tick waits
\* where it is.  The turn answers directly and publishes nothing.
StartUpdate(d) ==
  /\ ~handling[d] /\ phase[d] \notin OnThread
  /\ handling' = [handling EXCEPT ![d] = TRUE]
  /\ UNCHANGED <<phase, guard, lockQueue, outbound, range, dispatched, forwarded, mishaps>>

EndUpdate(d) ==
  /\ handling[d]
  /\ handling' = [handling EXCEPT ![d] = FALSE]
  /\ UNCHANGED <<phase, guard, lockQueue, outbound, range, dispatched, forwarded, mishaps>>

TickStep(a) ==
  \/ Push(a) \/ (\E ok \in BOOLEAN : DrainEnds(a, ok)) \/ Unblocks(a)
  \/ ReadPublished(a) \/ ForwardOut(a)

ServicesNext ==
  \/ \E a \in Ticks : StartTick(a) \/ DrainPublishes(a) \/ TickStep(a)
  \/ \E d \in Drivers : DropTick(d) \/ StartUpdate(d) \/ EndUpdate(d)

ServicesSpec == ServicesInit /\ [][ServicesNext]_serviceVars

\* A turn ends (its provider call has a timeout), and a select loop, which picks
\* at random among the branches that are ready, does not pass a tick over for
\* ever; a driver starts ticks from a timer.
ServicesFairness ==
  /\ \A a \in Ticks : SF_serviceVars(TickStep(a))
  /\ \A d \in Drivers : WF_serviceVars(EndUpdate(d)) /\ SF_serviceVars(StartTick(d))

FairServicesSpec == ServicesSpec /\ ServicesFairness

-----------------------------------------------------------------------------
(* Properties *)

\* runtime_drain_error is held exactly by the tick that waits for the published
\* list, reads it or forwards: one that was dropped or failed holds nothing.
ServicesTypeOK ==
  /\ phase \in [Ticks -> {"idle", "drain", "parkedPush", "parkedRead"} \union OnThread]
  /\ handling \in [Drivers -> BOOLEAN] /\ guard \in Ticks \union {NoTick}
  /\ outbound \in Nat /\ dispatched \in Nat /\ dispatched <= outbound
  /\ range \in [Ticks -> [from : Nat, upTo : Nat]]
  /\ \A a \in Ticks : guard = a <=> phase[a] \in {"read", "parkedRead", "forward"}

\* Whatever ticks overlap, fail or are dropped, the outbound dispatcher receives
\* every message once and in the order of publication (dispatch_outbound_messages
\* reads the count, sends and stores the count under runtime_drain_error).
OutboundOnce == forwarded = [i \in 1 .. dispatched |-> i]

\* What was published is forwarded in the end, by whichever tick comes next,
\* also when drains fail, drivers reconnect and updates are handled meanwhile.
OutboundForwarded == \A n \in 1 .. MaxMessages : outbound >= n ~> dispatched >= n

\* The comment in on_runtime_tick: "The lock scope is small and bounded".  A tick
\* that holds runtime_drain_error lets go of it.
GuardReleased == \A a \in Ticks : guard = a ~> guard # a
=============================================================================
