----------------------------- MODULE HostsProofs -----------------------------
(***************************************************************************)
(* Proofs about the three managers behind the panels of the GUI: the       *)
(* channel manager, the MCP manager with the tool registry, the gateway    *)
(* manager.                                                                *)
(***************************************************************************)
EXTENDS ChannelManager, ToolHost, GatewayManager, TLAPS

-----------------------------------------------------------------------------
(* The channel manager *)

Want(o, k) == IF k \in Enabled(o.snapshot) THEN o.snapshot[k] ELSE Off
Scope(o) == IF o.kind = "sync" THEN Keys ELSE {o.key}

\* What the operation under way has planned, and what it has done of it.
PlanFacts ==
    op # NoOp =>
        /\ starts \subseteq Enabled(op.snapshot) \cap Scope(op)
        /\ \A k \in Scope(op) \cap Managed :
              k \in stops \/ threads[channels[k]].setting = Want(op, k)
        /\ \A k \in stops : /\ k \in Scope(op)
                            /\ op.kind = "restart" \/ threads[channels[k]].setting # Want(op, k)

\* The handle of a key leads to the thread of that key, which was not told to stop.
HandleFacts ==
    /\ \A k \in Managed :
          /\ threads[channels[k]].key = k /\ ~threads[channels[k]].signal
          /\ threads[channels[k]].setting \in Versions
    /\ \A t \in Thread : Live(t) => threads[t].key \in Keys
    /\ \A t \in joining : threads[t].signal /\ threads[t].key \in Keys

LockFacts ==
    /\ op = NoOp => stops = {} /\ starts = {} /\ (closed \/ joining = {})
    /\ closed => op = NoOp
    /\ starts \cap Managed \subseteq stops

ChInv == ChTypeOK /\ OneServerPerChannel /\ HandleFacts /\ LockFacts /\ PlanFacts

LEMMA NoOpFacts == NoOp \notin Operations /\ NoOp.kind = "none"
  BY Zenon DEF NoOp, Operations

LEMMA NoThreadFacts ==
    /\ NoThread \in ThreadRecords /\ NoThread.life = "done" /\ ~NoThread.signal
  BY Zenon DEF NoThread, ThreadRecords, Settings

\* An operation has its fields, and a restart a key.
LEMMA OperationFacts ==
    ASSUME NEW o \in Operations
    PROVE  /\ o.kind \in {"sync", "restart"} /\ o.snapshot \in [Keys -> Settings]
           /\ o.awaited \in BOOLEAN /\ o # NoOp
           /\ o.kind = "restart" => o.key \in Keys
           /\ Scope(o) \subseteq Keys /\ Enabled(o.snapshot) \subseteq Keys
  BY DEF Operations, NoOp, Scope, Enabled

LEMMA QueueFacts ==
    ASSUME NEW q \in Seq(Operations), q # <<>>
    PROVE  Head(q) \in Operations /\ Tail(q) \in Seq(Operations)
  OBVIOUS

\* Steps that touch neither the threads nor the plan keep the invariant.
LEMMA QuietStep ==
    ASSUME ChInv, UNCHANGED <<op, stops, starts, joining, channels, threads, closed>>,
           saved' \in [Keys -> Settings], panel' \in [sync : BOOLEAN, restart : BOOLEAN],
           posted' \subseteq Commands, queue' \in Seq(Operations), applied' \in [Keys -> Settings],
           statuses' \in [Keys -> {"none", "running", "trouble", "failed", "stopped"}]
    PROVE  ChInv'
  <1>1. Managed' = Managed
    BY Zenon DEF Managed
  <1>2. ChTypeOK'
    BY <1>1, Zenon DEF ChInv, ChTypeOK
  <1>3. OneServerPerChannel' /\ HandleFacts'
    BY <1>1, Zenon DEF ChInv, OneServerPerChannel, HandleFacts, Live
  <1>4. LockFacts'
    BY <1>1, Zenon DEF ChInv, LockFacts
  <1>5. PlanFacts'
    BY <1>1, Zenon DEF ChInv, PlanFacts, Want, Scope, Enabled
  <1> QED
    BY <1>2, <1>3, <1>4, <1>5, Zenon DEF ChInv

LEMMA ChStart == ChInit => ChInv
  <1> SUFFICES ASSUME ChInit PROVE ChInv
    BY Zenon
  <1>1. Managed = {} /\ 0 \in 0 .. MaxThreads
    BY ChAssumption DEF ChInit, Managed
  <1>2. queue \in Seq(Operations)
    <2> DEFINE o == [kind |-> "sync", key |-> "none", snapshot |-> saved, awaited |-> FALSE]
    <2>1. o \in Operations
      BY Zenon DEF ChInit, Operations
    <2> HIDE DEF o
    <2>2. <<o>> \in Seq(Operations)
      BY <2>1
    <2> QED
      BY <2>2, Zenon DEF ChInit, o
  <1>3. \A t \in Thread : threads[t] = NoThread
    BY Zenon DEF ChInit
  <1>4. ChTypeOK
    <2>1. /\ saved \in [Keys -> Settings] /\ applied \in [Keys -> Settings]
          /\ panel \in [sync : BOOLEAN, restart : BOOLEAN] /\ posted \subseteq Commands
          /\ op = NoOp /\ stops = {} /\ starts = {} /\ joining = {} /\ closed = FALSE
      BY Zenon DEF ChInit, Settings
    <2>2. threads \in [Thread -> ThreadRecords]
      BY NoThreadFacts, Zenon DEF ChInit
    <2>3. channels \in [Keys -> 0 .. MaxThreads]
      BY <1>1, Zenon DEF ChInit
    <2>4. statuses \in [Keys -> {"none", "running", "trouble", "failed", "stopped"}]
      BY Zenon DEF ChInit
    <2> QED
      BY <1>2, <2>1, <2>2, <2>3, <2>4, Zenon DEF ChTypeOK
  <1>5. OneServerPerChannel /\ HandleFacts
    BY <1>1, <1>3, NoThreadFacts, Zenon DEF OneServerPerChannel, HandleFacts, Live, ChInit
  <1>6. LockFacts /\ PlanFacts
    BY <1>1, Zenon DEF LockFacts, PlanFacts, ChInit
  <1> QED
    BY <1>4, <1>5, <1>6, Zenon DEF ChInv

LEMMA PanelOK ==
    ASSUME ChInv, NEW k \in Keys
    PROVE  /\ ClickRestart(k) => ChInv'
           /\ \A s \in Settings : SaveConfig(k, s) => ChInv'
  <1>0. /\ ChTypeOK /\ panel \in [sync : BOOLEAN, restart : BOOLEAN]
        /\ queue \in Seq(Operations) /\ posted \subseteq Commands /\ saved \in [Keys -> Settings]
    BY Zenon DEF ChInv, ChTypeOK
  <1>1. ASSUME ClickRestart(k) PROVE ChInv'
    <2>1. [kind |-> "restart", key |-> k] \in Commands
      BY Zenon DEF Commands
    <2>2. posted' \subseteq Commands
      BY <1>0, <1>1, <2>1, Zenon DEF ClickRestart
    <2> QED
      BY <1>0, <1>1, <2>2, QuietStep, Zenon DEF ClickRestart, ChTypeOK, planVars, hostVars
  <1>2. ASSUME NEW s \in Settings, SaveConfig(k, s) PROVE ChInv'
    <2>1. [kind |-> "sync", key |-> "none"] \in Commands
      BY Zenon DEF Commands
    <2>2. posted' \subseteq Commands
      BY <1>0, <1>2, <2>1, Zenon DEF SaveConfig
    <2>3. saved' \in [Keys -> Settings]
      BY <1>0, <1>2, Zenon DEF SaveConfig
    <2> QED
      BY <1>0, <1>2, <2>2, <2>3, QuietStep, Zenon DEF SaveConfig, ChTypeOK, planVars, hostVars
  <1> QED
    BY <1>1, <1>2, Zenon

LEMMA OpenSnapshotOK ==
    ASSUME ChInv, NEW c \in posted, OpenSnapshot(c)
    PROVE  ChInv'
  <1>0. /\ ChTypeOK /\ queue \in Seq(Operations) /\ c \in Commands /\ saved \in [Keys -> Settings]
    BY Zenon DEF ChInv, ChTypeOK
  <1>1. Opened(c) \in Operations
    BY <1>0, Zenon DEF Opened, Operations, Commands
  <1>2. queue' \in Seq(Operations)
    BY <1>0, <1>1 DEF OpenSnapshot
  <1>3. posted' \subseteq Commands
    BY <1>0, Zenon DEF OpenSnapshot, ChTypeOK
  <1> QED
    BY <1>0, <1>2, <1>3, QuietStep, Zenon DEF OpenSnapshot, ChTypeOK, planVars, hostVars

LEMMA RequestTimesOutOK ==
    ASSUME ChInv, NEW kind \in {"sync", "restart"}, RequestTimesOut(kind)
    PROVE  ChInv'
  <1> DEFINE late(o) == IF o.kind = kind THEN [o EXCEPT !.awaited = FALSE] ELSE o
  <1>0. /\ ChTypeOK /\ queue \in Seq(Operations) /\ op \in Operations \cup {NoOp}
        /\ panel \in [sync : BOOLEAN, restart : BOOLEAN]
    BY Zenon DEF ChInv, ChTypeOK
  <1>1. /\ op' = late(op) /\ queue' = [i \in DOMAIN queue |-> late(queue[i])]
        /\ panel' = [panel EXCEPT ![kind] = FALSE]
        /\ UNCHANGED <<saved, posted, closed, applied, stops, starts, joining, channels, threads, statuses>>
    BY Zenon DEF RequestTimesOut, hostVars
  <1>2. ASSUME NEW o \in Operations
        PROVE  /\ late(o) \in Operations /\ late(o).kind = o.kind /\ late(o).key = o.key
               /\ late(o).snapshot = o.snapshot
    BY Zenon DEF Operations
  <1>3. late(NoOp) = NoOp
    BY NoOpFacts, Zenon
  <1> HIDE DEF late
  <1>4. /\ op' \in Operations \cup {NoOp} /\ (op' = NoOp <=> op = NoOp)
        /\ op # NoOp => op'.kind = op.kind /\ op'.key = op.key /\ op'.snapshot = op.snapshot
    BY <1>0, <1>1, <1>2, <1>3, NoOpFacts, Zenon
  <1>5. queue' \in Seq(Operations)
    <2>1. \A i \in DOMAIN queue : queue[i] \in Operations
      BY <1>0
    <2>2. \A i \in DOMAIN queue : late(queue[i]) \in Operations
      BY <1>2, <2>1, Zenon
    <2>3. DOMAIN queue = 1 .. Len(queue) /\ Len(queue) \in Nat
      BY <1>0
    <2> QED
      BY <1>1, <2>2, <2>3
  <1>6. panel' \in [sync : BOOLEAN, restart : BOOLEAN]
    BY <1>0, <1>1, Zenon
  <1>7. Managed' = Managed
    BY <1>1, Zenon DEF Managed
  <1>8. ChTypeOK'
    BY <1>0, <1>1, <1>4, <1>5, <1>6, <1>7, Zenon DEF ChTypeOK
  <1>9. OneServerPerChannel' /\ HandleFacts'
    BY <1>1, <1>7, Zenon DEF ChInv, OneServerPerChannel, HandleFacts, Live
  <1>10. LockFacts'
    BY <1>1, <1>4, <1>7, Zenon DEF ChInv, LockFacts
  <1>11. PlanFacts'
    <2> SUFFICES ASSUME op # NoOp PROVE PlanFacts'
      BY <1>4, Zenon DEF PlanFacts
    <2> QED
      BY <1>1, <1>4, <1>7, Zenon DEF ChInv, PlanFacts, Want, Scope, Enabled
  <1> QED
    BY <1>8, <1>9, <1>10, <1>11, Zenon DEF ChInv

LEMMA BeginOpOK ==
    ASSUME ChInv, Begin
    PROVE  ChInv'
  <1> DEFINE o == Head(queue)
  <1>0. /\ ChTypeOK /\ HandleFacts /\ LockFacts /\ OneServerPerChannel
    BY Zenon DEF ChInv
  <1>1. /\ op = NoOp /\ ~closed /\ op' = o /\ queue' = Tail(queue) /\ Plan(o)
        /\ o.kind = "restart" => o.key \in Enabled(o.snapshot)
        /\ UNCHANGED <<saved, panel, posted, closed, applied, joining, channels, threads, statuses>>
    BY Zenon DEF Begin, hostVars
  <1>2. o \in Operations /\ queue' \in Seq(Operations)
    BY <1>0, <1>1, QueueFacts, Zenon DEF Begin, ChTypeOK
  <1> HIDE DEF o
  <1>3. /\ o.kind \in {"sync", "restart"} /\ o # NoOp
        /\ o.kind = "restart" => o.key \in Keys
        /\ Scope(o) \subseteq Keys /\ Enabled(o.snapshot) \subseteq Keys
    BY <1>2, OperationFacts, Zenon
  <1>4. Managed' = Managed
    BY <1>1, Zenon DEF Managed
  <1>5. CASE o.kind = "sync"
    <2>1. /\ stops' = Unwanted(o.snapshot) \cup Changed(o.snapshot)
          /\ starts' = Missing(o.snapshot) \cup Changed(o.snapshot)
      BY <1>1, <1>5, Zenon DEF Plan
    <2>2. stops' \subseteq Managed /\ starts' \subseteq Keys /\ starts' \cap Managed \subseteq stops'
      BY <1>3, <2>1, Zenon DEF Unwanted, Changed, Missing
    <2>3. ChTypeOK'
      BY <1>0, <1>1, <1>2, <1>4, <2>2, Zenon DEF ChTypeOK
    <2>4. LockFacts'
      BY <1>0, <1>1, <1>3, <1>4, <2>2, Zenon DEF LockFacts
    <2>5. PlanFacts'
      <3>1. Scope(o) = Keys
        BY <1>5, Zenon DEF Scope
      <3>2. starts' \subseteq Enabled(o.snapshot) \cap Keys
        BY <1>3, <2>1, Zenon DEF Changed, Missing
      <3>3. ASSUME NEW k \in Managed, k \notin stops' PROVE threads[channels[k]].setting = Want(o, k)
        BY <2>1, <3>3, Zenon DEF Unwanted, Changed, Want
      <3>4. ASSUME NEW k \in stops' PROVE k \in Keys /\ threads[channels[k]].setting # Want(o, k)
        <4>1. CASE k \in Unwanted(o.snapshot)
          <5>1. threads[channels[k]].setting \in Versions /\ Off \notin Versions /\ k \in Keys
            BY <1>0, <4>1, ChAssumption, Zenon DEF HandleFacts, Unwanted, Managed
          <5> QED
            BY <4>1, <5>1, Zenon DEF Unwanted, Want
        <4>2. CASE k \in Changed(o.snapshot)
          BY <4>2, Zenon DEF Changed, Want, Managed
        <4> QED
          BY <2>1, <4>1, <4>2, Zenon
      <3>5. /\ \A k \in Keys \cap Managed' : k \in stops' \/ threads'[channels'[k]].setting = Want(op', k)
            /\ \A k \in stops' : k \in Keys /\ threads'[channels'[k]].setting # Want(op', k)
        BY <1>1, <1>4, <3>3, <3>4, Zenon
      <3> QED
        BY <1>1, <3>1, <3>2, <3>5, Zenon DEF PlanFacts, Want, Scope, Enabled
    <2>6. OneServerPerChannel' /\ HandleFacts'
      BY <1>0, <1>1, <1>4, Zenon DEF OneServerPerChannel, HandleFacts, Live
    <2> QED
      BY <2>3, <2>4, <2>5, <2>6, Zenon DEF ChInv
  <1>6. CASE o.kind = "restart"
    <2>1. stops' = {o.key} \cap Managed /\ starts' = {o.key} /\ o.key \in Keys
      BY <1>1, <1>3, <1>6, Zenon DEF Plan
    <2>3. ChTypeOK'
      BY <1>0, <1>1, <1>2, <1>4, <2>1, Zenon DEF ChTypeOK
    <2>4. LockFacts'
      BY <1>0, <1>1, <1>3, <1>4, <2>1, Zenon DEF LockFacts
    <2>5. PlanFacts'
      BY <1>1, <1>4, <1>6, <2>1, Zenon DEF PlanFacts, Scope, Enabled
    <2>6. OneServerPerChannel' /\ HandleFacts'
      BY <1>0, <1>1, <1>4, Zenon DEF OneServerPerChannel, HandleFacts, Live
    <2> QED
      BY <2>3, <2>4, <2>5, <2>6, Zenon DEF ChInv
  <1> QED
    BY <1>3, <1>5, <1>6, Zenon

LEMMA RefuseRestartOK ==
    ASSUME ChInv, RefuseRestart
    PROVE  ChInv'
  <1>0. ChTypeOK /\ panel \in [sync : BOOLEAN, restart : BOOLEAN]
    BY Zenon DEF ChInv, ChTypeOK
  <1>1. Head(queue) \in Operations /\ queue' \in Seq(Operations)
    BY <1>0, QueueFacts, Zenon DEF RefuseRestart, ChTypeOK
  <1>2. panel' \in [sync : BOOLEAN, restart : BOOLEAN]
    BY <1>0, Zenon DEF RefuseRestart, Respond
  <1> QED
    BY <1>0, <1>1, <1>2, QuietStep, Zenon DEF RefuseRestart, ChTypeOK, planVars, hostVars

LEMMA StopChannelOK ==
    ASSUME ChInv, NEW k \in Keys, StopChannel(k)
    PROVE  ChInv'
  <1> DEFINE t == channels[k]
             r == [threads[t] EXCEPT !.signal = TRUE]
  <1>0. /\ ChTypeOK /\ HandleFacts /\ LockFacts /\ OneServerPerChannel /\ PlanFacts
    BY Zenon DEF ChInv
  <1>1. /\ k \in stops /\ joining = {} /\ stops' = stops \ {k} /\ joining' = {t}
        /\ threads' = [threads EXCEPT ![t] = r] /\ channels' = [channels EXCEPT ![k] = 0]
        /\ UNCHANGED <<saved, panel, posted, queue, op, starts, statuses, closed, applied>>
    BY Zenon DEF StopChannel, panelVars
  <1>2. k \in Managed /\ t \in Thread /\ threads[t].key = k /\ threads[t] \in ThreadRecords
    BY <1>0, <1>1, ChAssumption DEF ChTypeOK, Managed, HandleFacts, Thread
  <1>3. /\ r \in ThreadRecords /\ r.signal /\ r.key = k /\ r.setting = threads[t].setting
        /\ r.life = threads[t].life
    BY <1>2, Zenon DEF ThreadRecords
  <1>4. \A j \in Managed \ {k} : channels[j] # t /\ channels[j] \in Thread
    BY <1>0, <1>2, ChAssumption DEF HandleFacts, ChTypeOK, Managed, Thread
  <1> HIDE DEF r, t
  <1>5. /\ channels' \in [Keys -> 0 .. MaxThreads] /\ channels'[k] = 0
        /\ \A j \in Keys \ {k} : channels'[j] = channels[j]
        /\ Managed' = Managed \ {k}
    <2>1. 0 \in 0 .. MaxThreads
      BY ChAssumption
    <2> QED
      BY <1>0, <1>1, <2>1, Zenon DEF ChTypeOK, Managed
  <1>6. /\ threads' \in [Thread -> ThreadRecords] /\ threads'[t] = r
        /\ \A u \in Thread \ {t} : threads'[u] = threads[u]
    BY <1>0, <1>1, <1>2, <1>3, Zenon DEF ChTypeOK
  <1>7. ChTypeOK'
    BY <1>0, <1>1, <1>2, <1>5, <1>6, Zenon DEF ChTypeOK
  <1>8. OneServerPerChannel'
    <2> SUFFICES ASSUME NEW u \in Thread, Live(u)', ~threads'[u].signal
                 PROVE  channels'[threads'[u].key] = u
      BY Zenon DEF OneServerPerChannel
    <2>1. u # t /\ threads'[u] = threads[u]
      BY <1>3, <1>6, Zenon
    <2>2. channels[threads[u].key] = u /\ threads[u].key \in Keys
      BY <1>0, <2>1, Zenon DEF OneServerPerChannel, HandleFacts, Live
    <2>3. threads[u].key # k
      BY <2>1, <2>2, Zenon DEF t
    <2> QED
      BY <1>5, <2>1, <2>2, <2>3, Zenon
  <1>9. HandleFacts'
    <2>1. \A u \in Thread : Live(u)' => Live(u) /\ threads'[u].key = threads[u].key
      BY <1>2, <1>3, <1>6, Zenon DEF Live
    <2> QED
      BY <1>0, <1>1, <1>3, <1>4, <1>5, <1>6, <2>1 DEF HandleFacts
  <1>10. LockFacts'
    BY <1>0, <1>1, <1>5, Zenon DEF LockFacts
  <1>11. PlanFacts'
    <2>1. \A j \in Managed \ {k} : threads'[channels'[j]].setting = threads[channels[j]].setting
      BY <1>4, <1>5, <1>6, Zenon DEF Managed
    <2>2. stops \subseteq Managed
      BY <1>0, Zenon DEF ChTypeOK
    <2> QED
      BY <1>0, <1>1, <1>5, <2>1, <2>2 DEF PlanFacts, Want, Scope, Enabled
  <1> QED
    BY <1>7, <1>8, <1>9, <1>10, <1>11, Zenon DEF ChInv

\* A thread that no handle leads to ends, or its record is forgotten, or it is no
\* longer waited for.
LEMMA ThreadStep ==
    ASSUME ChInv, NEW t \in Thread, NEW r \in ThreadRecords, threads' = [threads EXCEPT ![t] = r],
           r.life = "live" => r = threads[t],
           r # threads[t] /\ (r.setting # threads[t].setting \/ r.key # threads[t].key \/ r.signal)
             => threads[t].signal,
           joining' \subseteq joining, t \in joining' => r.signal /\ r.key = threads[t].key,
           statuses' \in [Keys -> {"none", "running", "trouble", "failed", "stopped"}],
           UNCHANGED <<saved, panel, posted, queue, op, stops, starts, channels, closed, applied>>
    PROVE  ChInv'
  <1>0. /\ ChTypeOK /\ HandleFacts /\ LockFacts /\ OneServerPerChannel /\ PlanFacts
    BY Zenon DEF ChInv
  <1>1. /\ threads' \in [Thread -> ThreadRecords] /\ threads'[t] = r
        /\ \A u \in Thread \ {t} : threads'[u] = threads[u]
    BY <1>0, Zenon DEF ChTypeOK
  <1>2. Managed' = Managed
    BY Zenon DEF Managed
  <1>3. ChTypeOK'
    BY <1>0, <1>1, <1>2, Zenon DEF ChTypeOK
  <1>4. \A k \in Managed : /\ channels[k] \in Thread
                           /\ threads'[channels[k]].setting = threads[channels[k]].setting
                           /\ threads'[channels[k]].key = threads[channels[k]].key
                           /\ ~threads'[channels[k]].signal
    <2> SUFFICES ASSUME NEW k \in Managed
                 PROVE  /\ channels[k] \in Thread
                        /\ threads'[channels[k]].setting = threads[channels[k]].setting
                        /\ threads'[channels[k]].key = threads[channels[k]].key
                        /\ ~threads'[channels[k]].signal
      BY Zenon
    <2>1. channels[k] \in Thread
      BY <1>0, ChAssumption DEF ChTypeOK, Managed, Thread
    <2>2. ~threads[channels[k]].signal
      BY <1>0, Zenon DEF HandleFacts
    <2>3. CASE channels[k] = t
      BY <1>1, <2>1, <2>2, <2>3, Zenon
    <2>4. CASE channels[k] # t
      BY <1>1, <2>1, <2>2, <2>4, Zenon
    <2> QED
      BY <2>3, <2>4, Zenon
  <1>5. \A u \in Thread : Live(u)' => threads'[u] = threads[u]
    BY <1>1, Zenon DEF Live
  <1>6. OneServerPerChannel'
    BY <1>0, <1>5, Zenon DEF OneServerPerChannel, Live
  <1>7. HandleFacts'
    <2>1. \A u \in joining' : threads'[u].signal /\ threads'[u].key \in Keys
      <3> SUFFICES ASSUME NEW u \in joining' PROVE threads'[u].signal /\ threads'[u].key \in Keys
        BY Zenon
      <3>1. u \in joining /\ u \in Thread /\ threads[u].signal /\ threads[u].key \in Keys
        BY <1>0, Zenon DEF HandleFacts, ChTypeOK
      <3> QED
        BY <1>1, <3>1, Zenon
    <2> QED
      BY <1>0, <1>2, <1>4, <1>5, <2>1 DEF HandleFacts, Live
  <1>8. LockFacts'
    BY <1>0, <1>2, Zenon DEF LockFacts
  <1>9. PlanFacts'
    <2>1. stops \subseteq Managed
      BY <1>0, Zenon DEF ChTypeOK
    <2> QED
      BY <1>0, <1>2, <1>4, <2>1 DEF PlanFacts, Want, Scope, Enabled
  <1> QED
    BY <1>3, <1>6, <1>7, <1>8, <1>9, Zenon DEF ChInv

LEMMA JoinOK ==
    ASSUME ChInv, NEW t \in Thread, Joined(t) \/ StopTimesOut(t)
    PROVE  ChInv'
  <1>0. /\ ChTypeOK /\ HandleFacts /\ threads \in [Thread -> ThreadRecords]
        /\ statuses \in [Keys -> {"none", "running", "trouble", "failed", "stopped"}]
    BY Zenon DEF ChInv, ChTypeOK
  <1>1. /\ t \in joining /\ joining' = joining \ {t} /\ threads[t].signal /\ threads[t].key \in Keys
        /\ \E s \in {"failed", "stopped"} : statuses' = [statuses EXCEPT ![threads[t].key] = s]
        /\ UNCHANGED <<saved, panel, posted, queue, op, stops, starts, channels, closed, applied>>
    BY <1>0, Zenon DEF Joined, StopTimesOut, EndJoin, HandleFacts, panelVars, planVars
  <1>2. statuses' \in [Keys -> {"none", "running", "trouble", "failed", "stopped"}]
    BY <1>0, <1>1, Zenon
  <1>3. CASE Joined(t)
    <2>1. threads' = [threads EXCEPT ![t] = NoThread]
      BY <1>3, Zenon DEF Joined
    <2> QED
      BY <1>1, <1>2, <2>1, NoThreadFacts, ThreadStep, Zenon
  <1>4. CASE StopTimesOut(t)
    <2>1. threads' = [threads EXCEPT ![t] = threads[t]] /\ threads[t] \in ThreadRecords
      BY <1>0, <1>4, Zenon DEF StopTimesOut
    <2> QED
      BY <1>1, <1>2, <2>1, ThreadStep, Zenon
  <1> QED
    BY <1>3, <1>4, Zenon

LEMMA StartChannelOK ==
    ASSUME ChInv, NEW k \in Keys, StartChannel(k)
    PROVE  ChInv'
  <1>0. /\ ChTypeOK /\ HandleFacts /\ LockFacts /\ OneServerPerChannel /\ PlanFacts
    BY Zenon DEF ChInv
  <1>1. /\ stops = {} /\ joining = {} /\ k \in starts /\ starts' = starts \ {k}
        /\ UNCHANGED <<saved, panel, posted, queue, op, stops, joining, closed, applied>>
    BY Zenon DEF StartChannel, StopsOver, panelVars
  <1>2. op \in Operations /\ op # NoOp /\ k \notin Managed
    BY <1>0, <1>1, Zenon DEF LockFacts, ChTypeOK
  <1>3. k \in Enabled(op.snapshot) /\ k \in Scope(op) /\ op.snapshot[k] \in Versions
    BY <1>0, <1>1, <1>2, Zenon DEF PlanFacts, Enabled
  <1>4. ASSUME NEW s \in {"running", "failed"}, statuses' = [statuses EXCEPT ![k] = s]
        PROVE  statuses' \in [Keys -> {"none", "running", "trouble", "failed", "stopped"}]
    BY <1>0, <1>4, Zenon DEF ChTypeOK
  <1>5. ASSUME statuses' = [statuses EXCEPT ![k] = "failed"], UNCHANGED <<channels, threads>>
        PROVE  ChInv'
    <2>1. Managed' = Managed
      BY <1>5, Zenon DEF Managed
    <2>2. ChTypeOK'
      BY <1>0, <1>1, <1>4, <1>5, <2>1, Zenon DEF ChTypeOK
    <2>3. OneServerPerChannel' /\ HandleFacts'
      BY <1>0, <1>1, <1>5, <2>1, Zenon DEF OneServerPerChannel, HandleFacts, Live
    <2>4. LockFacts' /\ PlanFacts'
      BY <1>0, <1>1, <1>5, <2>1, Zenon DEF LockFacts, PlanFacts, Want, Scope, Enabled
    <2> QED
      BY <2>2, <2>3, <2>4, Zenon DEF ChInv
  <1>6. ASSUME NEW t \in Thread, ~Live(t), \A j \in Keys : channels[j] # t,
               threads' = [threads EXCEPT ![t] = [key |-> k, setting |-> op.snapshot[k],
                                                  signal |-> FALSE, life |-> "live"]],
               channels' = [channels EXCEPT ![k] = t],
               statuses' = [statuses EXCEPT ![k] = "running"]
        PROVE  ChInv'
    <2> DEFINE r == [key |-> k, setting |-> op.snapshot[k], signal |-> FALSE, life |-> "live"]
    <2>1. r \in ThreadRecords /\ r.key = k /\ r.setting = op.snapshot[k] /\ ~r.signal
      BY <1>3, Zenon DEF ThreadRecords, Settings
    <2>2. threads' = [threads EXCEPT ![t] = r]
      BY <1>6, Zenon
    <2> HIDE DEF r
    <2>3. /\ threads' \in [Thread -> ThreadRecords] /\ threads'[t] = r
          /\ \A u \in Thread \ {t} : threads'[u] = threads[u]
      BY <1>0, <2>1, <2>2, Zenon DEF ChTypeOK
    <2>4. /\ channels' \in [Keys -> 0 .. MaxThreads] /\ channels'[k] = t
          /\ \A j \in Keys \ {k} : channels'[j] = channels[j]
          /\ Managed' = Managed \cup {k} /\ t # 0
      <3>1. t \in 0 .. MaxThreads /\ t # 0
        BY ChAssumption DEF Thread
      <3> QED
        BY <1>0, <1>6, <3>1, Zenon DEF ChTypeOK, Managed
    <2>5. \A j \in Managed : channels[j] \in Thread /\ channels[j] # t /\ j # k
      BY <1>0, <1>2, <1>6, ChAssumption DEF ChTypeOK, Managed, Thread
    <2>6. ChTypeOK'
      BY <1>0, <1>1, <1>4, <1>6, <2>3, <2>4, Zenon DEF ChTypeOK
    <2>7. OneServerPerChannel'
      <3> SUFFICES ASSUME NEW u \in Thread, Live(u)', ~threads'[u].signal, u # t
                   PROVE  channels'[threads'[u].key] = u
        BY <2>1, <2>3, <2>4, Zenon DEF OneServerPerChannel
      <3>1. channels[threads[u].key] = u /\ threads[u].key \in Keys /\ threads'[u] = threads[u]
        BY <1>0, <2>3, Zenon DEF OneServerPerChannel, HandleFacts, Live
      <3>2. threads[u].key # k
        <4>1. u # 0
          BY DEF Thread
        <4> QED
          BY <1>2, <3>1, <4>1, Zenon DEF Managed
      <3> QED
        BY <2>4, <3>1, <3>2, Zenon
    <2>8. HandleFacts'
      <3>1. \A u \in Thread : Live(u)' => threads'[u].key \in Keys
        BY <1>0, <2>1, <2>3, Zenon DEF HandleFacts, Live
      <3>2. ASSUME NEW j \in Managed'
            PROVE  /\ threads'[channels'[j]].key = j /\ ~threads'[channels'[j]].signal
                   /\ threads'[channels'[j]].setting \in Versions
        <4>1. CASE j = k
          BY <1>3, <2>1, <2>3, <2>4, <4>1, Zenon
        <4>2. CASE j # k
          <5>1. j \in Managed /\ j \in Keys
            BY <2>4, <4>2, Zenon DEF Managed
          <5> QED
            BY <1>0, <2>3, <2>4, <2>5, <4>2, <5>1 DEF HandleFacts
        <4> QED
          BY <4>1, <4>2, Zenon
      <3> QED
        BY <1>1, <3>1, <3>2, Zenon DEF HandleFacts
    <2>9. LockFacts'
      BY <1>0, <1>1, <1>2, <2>4, Zenon DEF LockFacts
    <2>10. PlanFacts'
      <3>1. \A j \in Managed : threads'[channels'[j]].setting = threads[channels[j]].setting
        BY <2>3, <2>4, <2>5, Zenon DEF Managed
      <3>2. threads'[channels'[k]].setting = Want(op, k)
        BY <1>3, <2>1, <2>3, <2>4, Zenon DEF Want
      <3>3. \A j \in Scope(op) \cap Managed' : threads'[channels'[j]].setting = Want(op, j)
        BY <1>0, <1>1, <1>2, <2>4, <3>1, <3>2, Zenon DEF PlanFacts
      <3> QED
        BY <1>0, <1>1, <3>3, Zenon DEF PlanFacts, Want, Scope, Enabled
    <2> QED
      BY <2>6, <2>7, <2>8, <2>9, <2>10, Zenon DEF ChInv
  <1> QED
    BY <1>5, <1>6, Zenon DEF StartChannel

LEMMA FinishOK ==
    ASSUME ChInv, Finish
    PROVE  ChInv'
  <1>0. /\ ChTypeOK /\ HandleFacts /\ LockFacts /\ OneServerPerChannel
        /\ panel \in [sync : BOOLEAN, restart : BOOLEAN]
    BY Zenon DEF ChInv, ChTypeOK
  <1>1. /\ op # NoOp /\ stops = {} /\ starts = {} /\ joining = {} /\ op' = NoOp
        /\ statuses' = Reconciled(op.snapshot)
        /\ UNCHANGED <<saved, posted, queue, closed, stops, starts, joining, channels, threads>>
    BY Zenon DEF Finish
  <1>2. op \in Operations /\ op.snapshot \in [Keys -> Settings]
    BY <1>0, <1>1, OperationFacts, Zenon DEF ChTypeOK
  <1>3. panel' \in [sync : BOOLEAN, restart : BOOLEAN] /\ applied' \in [Keys -> Settings]
    BY <1>0, <1>2, Zenon DEF Finish, Respond, ChTypeOK
  <1>4. statuses' \in [Keys -> {"none", "running", "trouble", "failed", "stopped"}]
    BY <1>0, <1>1, Zenon DEF Reconciled, ChTypeOK
  <1>5. Managed' = Managed
    BY <1>1, Zenon DEF Managed
  <1>6. ChTypeOK'
    BY <1>0, <1>1, <1>3, <1>4, <1>5, Zenon DEF ChTypeOK
  <1>7. OneServerPerChannel' /\ HandleFacts'
    BY <1>0, <1>1, <1>5, Zenon DEF OneServerPerChannel, HandleFacts, Live
  <1>8. LockFacts' /\ PlanFacts'
    BY <1>0, <1>1, <1>5, Zenon DEF LockFacts, PlanFacts
  <1> QED
    BY <1>6, <1>7, <1>8, Zenon DEF ChInv

LEMMA ShutdownAllOK ==
    ASSUME ChInv, ShutdownAll
    PROVE  ChInv'
  <1>0. /\ ChTypeOK /\ HandleFacts /\ LockFacts /\ OneServerPerChannel
    BY Zenon DEF ChInv
  <1>1. /\ op = NoOp /\ closed' = TRUE /\ joining' = {channels[k] : k \in Managed}
        /\ threads' = [t \in Thread |-> [threads[t] EXCEPT
                          !.signal = @ \/ \E k \in Managed : channels[k] = t]]
        /\ channels' = [k \in Keys |-> 0]
        /\ UNCHANGED <<saved, panel, posted, queue, op, stops, starts, statuses, applied>>
    BY Zenon DEF ShutdownAll, panelVars, planVars
  <1>2. ASSUME NEW t \in Thread
        PROVE  /\ threads'[t] \in ThreadRecords /\ threads'[t].key = threads[t].key
               /\ threads'[t].life = threads[t].life
               /\ threads'[t].signal <=> (threads[t].signal \/ \E k \in Managed : channels[k] = t)
    <2>1. threads[t] \in ThreadRecords
      BY <1>0, Zenon DEF ChTypeOK
    <2> DEFINE told == threads[t].signal \/ \E k \in Managed : channels[k] = t
    <2>2. threads'[t] = [threads[t] EXCEPT !.signal = told]
      BY <1>1, Zenon
    <2>3. told \in BOOLEAN
      BY <2>1, Zenon DEF ThreadRecords
    <2> HIDE DEF told
    <2>4. /\ threads'[t] \in ThreadRecords /\ threads'[t].key = threads[t].key
          /\ threads'[t].life = threads[t].life /\ threads'[t].signal = told
      BY <2>1, <2>2, <2>3, Zenon DEF ThreadRecords
    <2> QED
      BY <2>4, Zenon DEF told
  <1>3. threads' \in [Thread -> ThreadRecords]
    BY <1>1, <1>2, Zenon
  <1>4. Managed' = {}
    BY <1>1, Zenon DEF Managed
  <1>5. joining' \subseteq Thread /\ \A t \in joining' : \E k \in Managed : channels[k] = t
    BY <1>0, <1>1, ChAssumption DEF ChTypeOK, Managed, Thread
  <1>6. ChTypeOK'
    <2>1. channels' \in [Keys -> 0 .. MaxThreads]
      BY <1>1, ChAssumption
    <2> QED
      BY <1>0, <1>1, <1>3, <1>4, <1>5, <2>1, Zenon DEF ChTypeOK, LockFacts
  <1>7. OneServerPerChannel'
    <2> SUFFICES ASSUME NEW t \in Thread, Live(t)', ~threads'[t].signal PROVE FALSE
      BY Zenon DEF OneServerPerChannel
    <2>1. channels[threads[t].key] = t /\ threads[t].key \in Keys /\ t # 0
      BY <1>0, <1>2 DEF OneServerPerChannel, HandleFacts, Live, Thread
    <2> QED
      BY <1>2, <2>1, Zenon DEF Managed
  <1>8. HandleFacts'
    <2>1. \A t \in Thread : Live(t)' => threads'[t].key \in Keys
      BY <1>0, <1>2, Zenon DEF HandleFacts, Live
    <2>2. ASSUME NEW t \in joining' PROVE threads'[t].signal /\ threads'[t].key \in Keys
      <3>1. PICK k \in Managed : channels[k] = t
        BY <1>5, Zenon
      <3> QED
        BY <1>0, <1>2, <1>5, <3>1 DEF HandleFacts, Managed
    <2> QED
      BY <1>4, <2>1, <2>2, Zenon DEF HandleFacts
  <1>9. LockFacts' /\ PlanFacts'
    BY <1>0, <1>1, <1>4, Zenon DEF LockFacts, PlanFacts
  <1> QED
    BY <1>6, <1>7, <1>8, <1>9, Zenon DEF ChInv

LEMMA ServerThreadOK ==
    ASSUME ChInv, NEW t \in Thread,
           \/ \E s \in {"running", "trouble"} : Report(t, s)
           \/ \E err \in BOOLEAN : ThreadReturns(t, err)
           \/ ThreadPanics(t)
    PROVE  ChInv'
  <1>0. /\ ChTypeOK /\ HandleFacts /\ threads[t] \in ThreadRecords /\ threads[t].key \in Keys
        /\ threads \in [Thread -> ThreadRecords]
        /\ statuses \in [Keys -> {"none", "running", "trouble", "failed", "stopped"}]
    BY Zenon DEF ChInv, ChTypeOK, HandleFacts, Report, ThreadReturns, ThreadPanics
  <1>1. ASSUME NEW s \in {"running", "trouble"}, Report(t, s) PROVE ChInv'
    <2>1. statuses' \in [Keys -> {"none", "running", "trouble", "failed", "stopped"}]
      BY <1>0, <1>1, Zenon DEF Report
    <2> QED
      BY <1>0, <1>1, <2>1, QuietStep, Zenon DEF Report, ChTypeOK, panelVars, planVars
  <1>2. ASSUME NEW life \in {"done", "panicked"}, threads' = [threads EXCEPT ![t] = ThreadEnd(t, life)],
               statuses' \in [Keys -> {"none", "running", "trouble", "failed", "stopped"}],
               UNCHANGED <<saved, panel, posted, queue, op, stops, starts, joining, channels, closed, applied>>
        PROVE  ChInv'
    <2> DEFINE r == ThreadEnd(t, life)
    <2>1. CASE threads[t].signal /\ t \notin joining
      <3>1. r = NoThread
        BY <2>1, Zenon DEF ThreadEnd
      <3>2. threads' = [threads EXCEPT ![t] = NoThread] /\ joining' \subseteq joining
        BY <1>2, <3>1, Zenon
      <3>3. t \notin joining'
        BY <1>2, <2>1, Zenon
      <3> QED
        BY <1>2, <2>1, <3>2, <3>3, NoThreadFacts, ThreadStep, Zenon
    <2>2. CASE ~(threads[t].signal /\ t \notin joining)
      <3>1. r = [threads[t] EXCEPT !.life = life]
        BY <2>2, Zenon DEF ThreadEnd
      <3>2. /\ r \in ThreadRecords /\ r.key = threads[t].key /\ r.setting = threads[t].setting
            /\ r.signal = threads[t].signal /\ r.life = life
        BY <1>0, <3>1, Zenon DEF ThreadRecords
      <3>3. t \in joining => threads[t].signal
        BY <1>0, Zenon DEF HandleFacts
      <3> HIDE DEF r
      <3>4. threads' = [threads EXCEPT ![t] = r]
        BY <1>2, Zenon DEF r
      <3>5. r.life # "live"
        BY <1>2, <3>2, Zenon
      <3>6. joining' \subseteq joining
        BY <1>2, Zenon
      <3>7. /\ r # threads[t] /\ (r.setting # threads[t].setting \/ r.key # threads[t].key \/ r.signal)
               => threads[t].signal
            /\ t \in joining' => r.signal /\ r.key = threads[t].key
        BY <1>2, <3>2, <3>3, Zenon
      <3> QED
        BY <1>2, <3>2, <3>4, <3>5, <3>6, <3>7, ThreadStep, Zenon
    <2> QED
      BY <2>1, <2>2, Zenon
  <1>3. ASSUME NEW err \in BOOLEAN, ThreadReturns(t, err) PROVE ChInv'
    <2>1. statuses' \in [Keys -> {"none", "running", "trouble", "failed", "stopped"}]
      BY <1>0, <1>3, Zenon DEF ThreadReturns
    <2> QED
      BY <1>2, <1>3, <2>1, Zenon DEF ThreadReturns, panelVars, planVars
  <1>4. ASSUME ThreadPanics(t) PROVE ChInv'
    BY <1>0, <1>2, <1>4, Zenon DEF ThreadPanics, panelVars, planVars
  <1> QED
    BY <1>1, <1>3, <1>4, Zenon

LEMMA ChStep == ChInv /\ [ChNext]_chVars => ChInv'
  <1> SUFFICES ASSUME ChInv, [ChNext]_chVars PROVE ChInv'
    BY Zenon
  <1>1. CASE UNCHANGED chVars
    BY <1>1, QuietStep, Zenon DEF chVars, ChInv, ChTypeOK
  <1>2. CASE Command
    BY <1>2, PanelOK, RequestTimesOutOK, ShutdownAllOK, Zenon DEF Command
  <1>3. CASE Manager
    BY <1>3, OpenSnapshotOK, BeginOpOK, RefuseRestartOK, FinishOK, StopChannelOK, StartChannelOK,
       JoinOK, Zenon DEF Manager
  <1>4. CASE ServerThreads
    BY <1>4, ServerThreadOK, Zenon DEF ServerThreads
  <1> QED
    BY <1>1, <1>2, <1>3, <1>4, Zenon DEF ChNext

\* The strengthened invariant holds in every state of the channel manager.
THEOREM ChInvariant == ChSpec => []ChInv
  BY ChStart, ChStep, PTL DEF ChSpec

\* The fields of ChannelManager stay within their types, and stop_channel is only
\* ever called for a key that has a handle.
THEOREM ChTypeCorrect == ChSpec => []ChTypeOK
  <1>1. ChInv => ChTypeOK
    BY Zenon DEF ChInv
  <1> QED
    BY <1>1, ChInvariant, PTL

\* For any keys, configurations and number of threads: a live channel thread that
\* was not told to stop is the one the handle of its key leads to, whatever syncs,
\* restarts, timeouts, panics and shutdown_all do (stop_channel before
\* start_channel in sync and restart_channel).
THEOREM OneServerSafety == ChSpec => []OneServerPerChannel
  <1>1. ChInv => OneServerPerChannel
    BY Zenon DEF ChInv
  <1> QED
    BY <1>1, ChInvariant, PTL

\* The configurations the managed channels run with, as the hot reload sees them.
ChRun == [k \in Keys |-> IF channels[k] = 0 THEN Off ELSE threads[channels[k]].setting]

\* A step that leaves handles and their settings, and the operation, alone.
LEMMA ChStutter ==
    ASSUME UNCHANGED channels, \A k \in Managed : threads'[channels[k]].setting = threads[channels[k]].setting
    PROVE  ChRun' = ChRun
  BY Zenon DEF ChRun, Managed

LEMMA GoalFacts ==
    ASSUME NEW o \in Operations
    PROVE  /\ GoalOf(o).scope = Scope(o) /\ (GoalOf(o).force <=> o.kind = "restart")
           /\ \A k \in Keys : GoalOf(o).want[k] = Want(o, k)
           /\ GoalOf(o) \in Reload!Goals
  <1>0. /\ o # NoOp /\ o.kind \in {"sync", "restart"} /\ Scope(o) \subseteq Keys
    BY OperationFacts, Zenon
  <1> DEFINE w == [k \in Keys |-> IF k \in Enabled(o.snapshot) THEN o.snapshot[k] ELSE Off]
             f == (o.kind = "restart")
  <1>1. GoalOf(o) = [want |-> w, scope |-> Scope(o), force |-> f]
    BY <1>0, Zenon DEF GoalOf, Scope
  <1>2. w \in [Keys -> Versions \cup {Off}] /\ \A k \in Keys : w[k] = Want(o, k)
    BY Zenon DEF Enabled, Want
  <1>3. f \in BOOLEAN
    BY Zenon
  <1> HIDE DEF w
  <1>4. GoalOf(o).scope = Scope(o) /\ GoalOf(o).want = w /\ GoalOf(o).force = f
    BY <1>1
  <1> HIDE DEF f
  <1>5. GoalOf(o) \in Reload!Goals
    BY <1>0, <1>1, <1>2, <1>3 DEF Reload!Goals, Reload!States
  <1> QED
    BY <1>2, <1>4, <1>5, Zenon DEF f

\* Every step of the channel manager is a step of the hot reload, or none.
LEMMA ChReloadStep ==
    ASSUME ChInv, ChInv', [ChNext]_chVars
    PROVE  [Reload!Next]_<<ChRun, ChGoal>>
  <1>0. /\ ChTypeOK /\ HandleFacts /\ LockFacts /\ PlanFacts
        /\ op \in Operations \cup {NoOp} /\ channels \in [Keys -> 0 .. MaxThreads]
    BY Zenon DEF ChInv, ChTypeOK
  <1>1. \A k \in Managed : /\ channels[k] \in Thread /\ k \in Keys /\ ChRun[k] \in Versions
                           /\ ChRun[k] = threads[channels[k]].setting /\ ChRun[k] # Off
    BY <1>0, ChAssumption DEF ChTypeOK, Managed, Thread, HandleFacts, ChRun
  <1>2. \A k \in Keys \ Managed : ChRun[k] = Off
    BY Zenon DEF Managed, ChRun
  <1>3. op = NoOp => ChGoal = Reload!NoGoal
    BY Zenon DEF ChGoal, GoalOf, Reload!NoGoal
  <1>4. ASSUME UNCHANGED <<op, channels>>,
               \A k \in Managed : threads'[channels[k]].setting = threads[channels[k]].setting
        PROVE  UNCHANGED <<ChRun, ChGoal>>
    <2>1. ChRun' = ChRun
      BY <1>4, ChStutter, Zenon
    <2>2. ChGoal' = ChGoal
      BY <1>4, Zenon DEF ChGoal, GoalOf, Enabled
    <2> QED
      BY <2>1, <2>2, Zenon
  <1>5. ASSUME UNCHANGED <<op, channels, threads>> PROVE UNCHANGED <<ChRun, ChGoal>>
    BY <1>4, <1>5, Zenon
  <1>6. CASE UNCHANGED chVars
    BY <1>5, <1>6, Zenon DEF chVars
  <1>7. ASSUME NEW k \in Keys, ClickRestart(k) \/ \E s \in Settings : SaveConfig(k, s)
        PROVE  UNCHANGED <<ChRun, ChGoal>>
    BY <1>5, <1>7, Zenon DEF ClickRestart, SaveConfig, planVars, hostVars
  <1>8. ASSUME NEW kind \in {"sync", "restart"}, RequestTimesOut(kind)
        PROVE  UNCHANGED <<ChRun, ChGoal>>
    <2> DEFINE late(o) == IF o.kind = kind THEN [o EXCEPT !.awaited = FALSE] ELSE o
    <2>1. op' = late(op) /\ UNCHANGED <<channels, threads>>
      BY <1>8, Zenon DEF RequestTimesOut, hostVars
    <2>2. ChRun' = ChRun
      BY <2>1, Zenon DEF ChRun
    <2>3. CASE op = NoOp
      <3>1. op' = op
        BY <2>1, <2>3, NoOpFacts, Zenon
      <3> QED
        BY <1>5, <2>1, <3>1, Zenon
    <2>4. CASE op \in Operations
      <3>1. op' # NoOp /\ op'.kind = op.kind /\ op'.key = op.key /\ op'.snapshot = op.snapshot /\ op # NoOp
        BY <2>1, <2>4 DEF Operations, NoOp
      <3>2. ChGoal' = ChGoal
        BY <3>1, Zenon DEF ChGoal, GoalOf, Enabled
      <3> QED
        BY <2>2, <3>2, Zenon
    <2> QED
      BY <1>0, <2>3, <2>4, Zenon
  <1>9. ASSUME ShutdownAll PROVE Reload!StopAll
    <2>1. op = NoOp /\ op' = op /\ channels' = [k \in Keys |-> 0]
      BY <1>9, Zenon DEF ShutdownAll, planVars
    <2>2. ChRun' = [k \in Keys |-> Off]
      BY <2>1, Zenon DEF ChRun
    <2>3. ChGoal = Reload!NoGoal /\ ChGoal' = ChGoal
      BY <1>3, <2>1, Zenon DEF ChGoal, GoalOf, Enabled
    <2> QED
      BY <2>2, <2>3, Zenon DEF Reload!StopAll, ChRun
  <1>10. ASSUME NEW c \in posted, OpenSnapshot(c) PROVE UNCHANGED <<ChRun, ChGoal>>
    BY <1>5, <1>10, Zenon DEF OpenSnapshot, planVars, hostVars
  <1>11. ASSUME RefuseRestart PROVE UNCHANGED <<ChRun, ChGoal>>
    BY <1>5, <1>11, Zenon DEF RefuseRestart, planVars, hostVars
  <1>12. ASSUME Begin PROVE Reload!BeginOperation
    <2>1. op = NoOp /\ op' = Head(queue) /\ UNCHANGED <<channels, threads>> /\ queue # <<>>
      BY <1>12, Zenon DEF Begin, hostVars
    <2>2. op' \in Operations
      BY <1>0, <2>1, QueueFacts, Zenon DEF ChTypeOK
    <2>3. ChGoal' \in Reload!Goals
      BY <2>2, GoalFacts, Zenon DEF ChGoal, GoalOf, Enabled
    <2>4. ChRun' = ChRun
      BY <2>1, Zenon DEF ChRun
    <2> QED
      BY <1>3, <2>1, <2>3, <2>4, Zenon DEF Reload!BeginOperation, ChRun
  <1>13. ASSUME Finish PROVE Reload!EndOperation
    <2>1. /\ op \in Operations /\ stops = {} /\ op' = NoOp /\ UNCHANGED <<channels, threads>>
      BY <1>0, <1>13, Zenon DEF Finish
    <2>2. ChGoal' = Reload!NoGoal /\ ChRun' = ChRun
      BY <2>1, Zenon DEF ChGoal, GoalOf, Reload!NoGoal, ChRun
    <2>3. ASSUME NEW k \in ChGoal.scope PROVE ChRun[k] \in {Off, ChGoal.want[k]}
      <3>1. k \in Scope(op) /\ k \in Keys /\ ChGoal.want[k] = Want(op, k)
        BY <2>1, <2>3, GoalFacts, OperationFacts, Zenon DEF ChGoal
      <3>2. k \in Managed => threads[channels[k]].setting = Want(op, k)
        BY <1>0, <2>1, <3>1, OperationFacts, Zenon DEF PlanFacts
      <3> QED
        BY <1>1, <1>2, <3>1, <3>2, Zenon
    <2> QED
      BY <2>2, <2>3, Zenon DEF Reload!EndOperation, Reload!Settled, ChRun
  <1>14. ASSUME NEW k \in Keys, StopChannel(k) PROVE Reload!Stop(k)
    <2>1. /\ k \in stops /\ op' = op /\ channels' = [channels EXCEPT ![k] = 0]
          /\ threads' = [threads EXCEPT ![channels[k]].signal = TRUE]
      BY <1>14, Zenon DEF StopChannel
    <2>2. op \in Operations /\ k \in Managed
      BY <1>0, <2>1, Zenon DEF LockFacts, ChTypeOK
    <2>3. /\ k \in ChGoal.scope /\ ChRun[k] # Off /\ (ChGoal.force \/ ChRun[k] # ChGoal.want[k])
      BY <1>0, <1>1, <2>1, <2>2, GoalFacts, OperationFacts DEF PlanFacts, ChGoal
    <2>4. ChRun' = [ChRun EXCEPT ![k] = Off]
      <3>1. \A j \in Managed \ {k} : threads'[channels[j]].setting = threads[channels[j]].setting
        BY <1>0, <1>1, <2>1 DEF ChTypeOK, ThreadRecords
      <3>2. \A j \in Keys \ {k} : ChRun'[j] = ChRun[j]
        BY <1>0, <2>1, <3>1, Zenon DEF ChRun, Managed
      <3>3. ChRun'[k] = Off
        BY <1>0, <2>1, Zenon DEF ChRun
      <3>4. ChRun' = [j \in Keys |-> ChRun'[j]] /\ ChRun = [j \in Keys |-> ChRun[j]]
        BY Zenon DEF ChRun
      <3> QED
        BY <3>2, <3>3, <3>4, Zenon
    <2>5. ChGoal' = ChGoal
      BY <2>1, Zenon DEF ChGoal, GoalOf, Enabled
    <2> QED
      BY <2>3, <2>4, <2>5, Zenon DEF Reload!Stop, ChRun
  <1>15. ASSUME NEW k \in Keys, StartChannel(k)
         PROVE  Reload!Start(k) \/ UNCHANGED <<ChRun, ChGoal>>
    <2>1. stops = {} /\ k \in starts /\ op' = op
      BY <1>15, Zenon DEF StartChannel, StopsOver
    <2>2. op \in Operations /\ k \notin Managed
      BY <1>0, <2>1, Zenon DEF LockFacts, ChTypeOK
    <2>3. k \in Scope(op) /\ k \in Enabled(op.snapshot)
      BY <1>0, <2>1, <2>2, OperationFacts, Zenon DEF PlanFacts
    <2>4. ASSUME NEW j \in ChGoal.scope PROVE ChRun[j] \in {Off, ChGoal.want[j]}
      <3>1. j \in Scope(op) /\ j \in Keys /\ ChGoal.want[j] = Want(op, j)
        BY <2>2, <2>4, GoalFacts, OperationFacts, Zenon DEF ChGoal
      <3>2. j \in Managed => threads[channels[j]].setting = Want(op, j)
        BY <1>0, <2>1, <2>2, <3>1, OperationFacts, Zenon DEF PlanFacts
      <3> QED
        BY <1>1, <1>2, <3>1, <3>2, Zenon
    <2>5. k \in ChGoal.scope /\ ChRun[k] = Off /\ ChGoal.want[k] = op.snapshot[k] /\ ChGoal' = ChGoal
      <3>1. k \in ChGoal.scope /\ ChGoal.want[k] = op.snapshot[k]
        BY <2>2, <2>3, GoalFacts, Zenon DEF ChGoal, Want
      <3>2. ChGoal' = ChGoal
        BY <2>1, Zenon DEF ChGoal, GoalOf, Enabled
      <3> QED
        BY <1>2, <2>2, <3>1, <3>2, Zenon
    <2>6. ASSUME NEW t \in Thread, \A j \in Keys : channels[j] # t,
                 threads' = [threads EXCEPT ![t] = [key |-> k, setting |-> op.snapshot[k],
                                                    signal |-> FALSE, life |-> "live"]],
                 channels' = [channels EXCEPT ![k] = t]
          PROVE  Reload!Start(k)
      <3>1. t # 0 /\ threads'[t].setting = op.snapshot[k]
        BY <1>0, <2>6 DEF Thread, ChTypeOK
      <3>2. \A j \in Managed : threads'[channels[j]].setting = threads[channels[j]].setting
        BY <1>0, <1>1, <2>6, Zenon DEF ChTypeOK
      <3>3. \A j \in Keys \ {k} : ChRun'[j] = ChRun[j]
        BY <1>0, <2>6, <3>2, Zenon DEF ChRun, Managed
      <3>4. ChRun'[k] = op.snapshot[k]
        BY <1>0, <2>6, <3>1, Zenon DEF ChRun
      <3>5. ChRun' = [j \in Keys |-> ChRun'[j]] /\ ChRun = [j \in Keys |-> ChRun[j]]
        BY Zenon DEF ChRun
      <3>6. ChRun' = [ChRun EXCEPT ![k] = ChGoal.want[k]]
        BY <2>5, <3>3, <3>4, <3>5, Zenon
      <3> QED
        BY <2>4, <2>5, <3>6, Zenon DEF Reload!Start, Reload!Settled, ChRun
    <2>7. ASSUME UNCHANGED <<channels, threads>> PROVE UNCHANGED <<ChRun, ChGoal>>
      BY <1>5, <2>1, <2>7, Zenon
    <2> QED
      BY <1>15, <2>6, <2>7, Zenon DEF StartChannel
  <1>16. ASSUME NEW t \in Thread, Joined(t) \/ StopTimesOut(t) PROVE UNCHANGED <<ChRun, ChGoal>>
    <2>1. t \in joining /\ UNCHANGED <<op, channels>>
      BY <1>16, Zenon DEF Joined, StopTimesOut, EndJoin, planVars
    <2>2. \A k \in Managed : channels[k] # t
      BY <1>0, <2>1, Zenon DEF HandleFacts
    <2>3. \A k \in Managed : threads'[channels[k]].setting = threads[channels[k]].setting
      BY <1>0, <1>1, <1>16, <2>2, Zenon DEF Joined, StopTimesOut, ChTypeOK
    <2> QED
      BY <1>4, <2>1, <2>3, Zenon
  <1>17. ASSUME ServerThreads PROVE UNCHANGED <<ChRun, ChGoal>>
    <2>1. PICK t \in Thread :
            \/ \E s \in {"running", "trouble"} : Report(t, s)
            \/ \E err \in BOOLEAN : ThreadReturns(t, err)
            \/ ThreadPanics(t)
      BY <1>17, Zenon DEF ServerThreads
    <2>2. UNCHANGED <<op, channels>>
      BY <2>1, Zenon DEF Report, ThreadReturns, ThreadPanics, planVars
    <2>3. CASE UNCHANGED threads
      BY <1>5, <2>2, <2>3, Zenon
    <2>4. ASSUME NEW life, threads' = [threads EXCEPT ![t] = ThreadEnd(t, life)]
          PROVE  \A k \in Managed : threads'[channels[k]].setting = threads[channels[k]].setting
      <3>1. \A k \in Managed : channels[k] = t => ThreadEnd(t, life).setting = threads[t].setting
        BY <1>0 DEF HandleFacts, ThreadEnd, ChTypeOK, ThreadRecords
      <3> QED
        BY <1>0, <1>1, <2>4, <3>1, Zenon DEF ChTypeOK
    <2> QED
      BY <1>4, <2>1, <2>2, <2>3, <2>4, Zenon DEF Report, ThreadReturns, ThreadPanics
  <1> QED
    BY <1>6, <1>7, <1>8, <1>9, <1>10, <1>11, <1>12, <1>13, <1>14, <1>15, <1>16, <1>17, Zenon
    DEF ChNext, Command, Manager, Reload!Next

\* sync, restart_channel and shutdown_all implement the hot reload for any keys,
\* configurations and number of threads: an unchanged channel keeps its thread, a
\* restart touches no other channel, and nothing starts before every stop is over.
THEOREM ChRefinement == ChSpec => ChReconciles
  <1>1. ChInit => Reload!Init
    BY Zenon DEF ChInit, Reload!Init, Reload!NoGoal, ChGoal, GoalOf
  <1>2. ChInv /\ ChInv' /\ [ChNext]_chVars => [Reload!Next]_<<ChRun, ChGoal>>
    BY ChReloadStep, Zenon
  <1> QED
    BY <1>1, <1>2, ChInvariant, PTL DEF ChSpec, ChReconciles, Reload!Spec, ChRun

-----------------------------------------------------------------------------
(* The MCP manager and the tool registry *)

McpWant(c, s) == IF s \in Wanted(c.snapshot) THEN c.snapshot[s] ELSE McpOff
McpScope(c) == IF c.kind = "sync" THEN Servers ELSE {c.server}

\* What the operation under way has planned, and what it has done of it.
McpPlanFacts ==
    mcpOp # NoCmd =>
        /\ toStart \cup starting \subseteq Wanted(mcpOp.snapshot) \cap McpScope(mcpOp)
        /\ \A s \in McpScope(mcpOp) \cap RunningServers :
              s \in toStop \/ servers[s].setting = McpWant(mcpOp, s)
        /\ \A s \in toStop : /\ s \in McpScope(mcpOp)
                             /\ mcpOp.kind = "restart" \/ servers[s].setting # McpWant(mcpOp, s)

McpLockFacts ==
    /\ mcpOp = NoCmd => toStop = {} /\ toStart = {} /\ stopping = {} /\ starting = {}
    /\ starting # {} => toStop = {} /\ stopping = {}
    /\ toStart \cap RunningServers \subseteq toStop

\* A name that belongs to a server is one of the tools its handle lists, a name
\* that belongs to an agent is its own.
OwnerFacts ==
    \A n \in Names :
        /\ registry[n] \in Servers => n \in servers[registry[n]].tools
        /\ registry[n] \in Agents => registry[n] = n /\ n \in agents

HostInv == HostTypeOK /\ McpPlanFacts /\ McpLockFacts /\ OwnerFacts /\ OwnToolsKept

\* The servers and their statuses are those of the snapshot.
SettledAt(snapshot) ==
    \A s \in Servers :
        /\ s \in RunningServers => servers[s].setting = snapshot[s]
        /\ snapshot[s] \in McpVersions => mcpStatus[s] \in {"running", "failed"}
        /\ snapshot[s] = McpAbsent <=> mcpStatus[s] = "absent"

\* A restart reads the snapshot of the command before it: every change of the file
\* queues a sync.
McpQueueFacts ==
    /\ mcpQueue # <<>> => mcpQueue[Len(mcpQueue)].snapshot = mcpConfig
    /\ mcpQueue = <<>> /\ mcpOp # NoCmd => mcpOp.snapshot = mcpConfig
    /\ \A i \in 1 .. Len(mcpQueue) - 1 :
          mcpQueue[i + 1].kind = "restart" => mcpQueue[i + 1].snapshot = mcpQueue[i].snapshot
    /\ mcpQueue # <<>> /\ mcpQueue[1].kind = "restart" =>
          IF mcpOp = NoCmd THEN SettledAt(mcpQueue[1].snapshot)
          ELSE mcpOp.snapshot = mcpQueue[1].snapshot
    /\ McpIdle => SettledAt(mcpConfig)

\* The status of a server follows its handle, and a server the operation is done
\* with runs as wanted or has failed.
McpStatusFacts ==
    /\ \A s, t \in stopping : s = t
    /\ \A s, t \in starting : s = t
    /\ \A s \in Servers :
           /\ s \in RunningServers => mcpStatus[s] = "running"
           /\ mcpStatus[s] = "running" => s \in RunningServers \cup stopping
           /\ s \in starting => mcpStatus[s] = "starting"
           /\ mcpOp # NoCmd =>
                 /\ s \in (toStop \cup stopping) \cap Wanted(mcpOp.snapshot) => s \in toStart
                 /\ s \in RunningServers =>
                       s \in toStop \/ (s \in Wanted(mcpOp.snapshot) /\ servers[s].setting = mcpOp.snapshot[s])
                 /\ s \in Wanted(mcpOp.snapshot) \ (RunningServers \cup toStart \cup starting) =>
                       mcpStatus[s] = "failed"

McpInv == HostInv /\ McpQueueFacts /\ McpStatusFacts

LEMMA HandleTyped ==
    ASSUME HostTypeOK, NEW s \in Servers
    PROVE  /\ s \in RunningServers => servers[s].setting \in McpVersions /\ servers[s].tools \in Catalog[s]
           /\ s \notin RunningServers => servers[s].setting = McpOff /\ servers[s].tools = {}
           /\ s \in RunningServers <=> servers[s].setting # McpOff
<1>1. CASE servers[s] = NoHandle
    BY <1>1 DEF RunningServers, NoHandle
<1>2. CASE servers[s] # NoHandle
  <2>1. servers[s] \in [setting : McpVersions, tools : Catalog[s]]
    BY <1>2, Zenon DEF HostTypeOK, Handles
  <2> QED
    BY <1>2, <2>1, ToolHostAssumption, Zenon DEF RunningServers
<1> QED
    BY <1>1, <1>2, Zenon

LEMMA CommandFacts ==
    ASSUME NEW c \in McpCommands
    PROVE  /\ c # NoCmd /\ c.kind \in {"sync", "restart"} /\ c.snapshot \in [Servers -> McpSettings]
           /\ c.kind = "restart" => c.server \in Servers
           /\ McpScope(c) \subseteq Servers /\ Wanted(c.snapshot) \subseteq Servers
    BY DEF McpCommands, NoCmd, McpScope, Wanted

LEMMA HostStart == HostInit => HostInv
<1> SUFFICES ASSUME HostInit PROVE HostInv
    BY Zenon
<1> USE DEF HostInit
<1>1. RunningServers = {} /\ \A s \in Servers : servers[s] \in Handles(s)
    BY Zenon DEF RunningServers, Handles
<1>2. mcpConfig \in [Servers -> McpSettings]
    BY Zenon DEF McpSettings
<1>3. mcpQueue \in Seq(McpCommands)
  <2> DEFINE c == [kind |-> "sync", server |-> "none", snapshot |-> mcpConfig]
  <2>1. c \in McpCommands
    BY <1>2, Zenon DEF McpCommands
  <2>2. mcpQueue = <<c>>
    BY Zenon
  <2> QED
    BY <2>1, <2>2
<1>4. registry \in [Names -> Owners]
    BY Zenon DEF Owners
<1>5. HostTypeOK
    BY <1>1, <1>2, <1>3, <1>4 DEF HostTypeOK
<1>6. OwnerFacts
    BY ToolHostAssumption, Zenon DEF OwnerFacts
<1> QED
    BY <1>1, <1>5, <1>6, Zenon DEF HostInv, McpPlanFacts, McpLockFacts, OwnToolsKept

\* A command that is only queued, a refusal and a stuttering step leave the
\* servers and the registry alone.
LEMMA QueueOK ==
    ASSUME HostInv, mcpConfig' \in [Servers -> McpSettings], mcpQueue' \in Seq(McpCommands),
           toolConfig' \subseteq Builtins, acpConfig' \subseteq Agents, toolTasks' \in Seq(SUBSET Builtins),
           UNCHANGED <<mcpRest, agents, registry>>
    PROVE  HostInv'
<1> USE DEF HostInv, mcpRest
<1>1. /\ mcpOp' = mcpOp /\ toStop' = toStop /\ toStart' = toStart /\ stopping' = stopping
      /\ starting' = starting /\ servers' = servers /\ hub' = hub /\ mcpStatus' = mcpStatus
      /\ agents' = agents /\ registry' = registry
    BY Zenon
<1>2. RunningServers' = RunningServers
    BY <1>1, Zenon DEF RunningServers
<1>3. HostTypeOK'
    BY <1>1, <1>2, Zenon DEF HostTypeOK
<1>4. McpPlanFacts'
    BY <1>1, <1>2, Zenon DEF McpPlanFacts
<1>5. McpLockFacts'
    BY <1>1, <1>2, Zenon DEF McpLockFacts
<1>6. OwnerFacts' /\ OwnToolsKept'
    BY <1>1, <1>2, Zenon DEF OwnerFacts, OwnToolsKept
<1> QED
    BY <1>3, <1>4, <1>5, <1>6, Zenon

LEMMA QueueTyped ==
    ASSUME HostTypeOK, NEW kind \in {"sync", "restart"}, NEW s \in Servers \cup {"none"},
           kind = "restart" => s \in Servers,
           NEW snapshot \in [Servers -> McpSettings], QueueMcp(kind, s, snapshot)
    PROVE  mcpQueue' \in Seq(McpCommands)
<1> DEFINE c == [kind |-> kind, server |-> s, snapshot |-> snapshot]
<1>1. c \in McpCommands
    BY Zenon DEF McpCommands
<1>2. mcpQueue' = Append(mcpQueue, c)
    BY Zenon DEF QueueMcp
<1> HIDE DEF c
<1> QED
    BY <1>1, <1>2 DEF HostTypeOK

LEMMA SyncMcpOK ==
    ASSUME HostInv, NEW s \in Servers, NEW v \in McpSettings, SyncMcp(s, v)
    PROVE  HostInv'
<1>1. mcpConfig' \in [Servers -> McpSettings]
    BY Zenon DEF SyncMcp, HostInv, HostTypeOK
<1>2. mcpQueue' \in Seq(McpCommands)
    BY <1>1, QueueTyped, Zenon DEF SyncMcp, HostInv
<1> QED
    BY <1>1, <1>2, QueueOK, Zenon DEF SyncMcp, HostInv, HostTypeOK

LEMMA RestartMcpServerOK ==
    ASSUME HostInv, NEW s \in Servers, RestartMcpServer(s)
    PROVE  HostInv'
<1>1. mcpConfig' = mcpConfig /\ mcpConfig \in [Servers -> McpSettings]
    BY Zenon DEF RestartMcpServer, HostInv, HostTypeOK
<1>2. mcpQueue' \in Seq(McpCommands)
    BY <1>1, QueueTyped, Zenon DEF RestartMcpServer, HostInv
<1> QED
    BY <1>1, <1>2, QueueOK, Zenon DEF RestartMcpServer, HostInv, HostTypeOK

LEMMA SyncToolsOK ==
    ASSUME HostInv, NEW enabled \in SUBSET Builtins, SyncTools(enabled)
    PROVE  HostInv'
    BY QueueOK DEF SyncTools, HostInv, HostTypeOK, mcpVars, mcpRest

LEMMA RefuseMcpOK == ASSUME HostInv, RefuseMcp PROVE HostInv'
    BY QueueOK DEF RefuseMcp, HostInv, HostTypeOK, confVars

LEMMA HostStutter == ASSUME HostInv, UNCHANGED toolHostVars PROVE HostInv'
    BY QueueOK, Zenon DEF HostInv, HostTypeOK, toolHostVars, mcpVars, mcpRest, confVars

\* A step that changes only the owners of built-in names and of agents.
LEMMA RegistryOK ==
    ASSUME HostInv, UNCHANGED <<mcpVars, mcpConfig>>, toolTasks' \in Seq(SUBSET Builtins),
           toolConfig' \subseteq Builtins, acpConfig' \subseteq Agents, agents' \subseteq Agents,
           registry' \in [Names -> Owners],
           \A n \in Names \ (Builtins \cup Agents) : registry'[n] = registry[n],
           \A n \in Names : registry'[n] \in Servers => registry'[n] = registry[n],
           \A n \in Names : registry'[n] \in Agents => registry'[n] = n /\ n \in agents'
    PROVE  HostInv'
<1> USE DEF HostInv, mcpVars
<1>1. /\ mcpOp' = mcpOp /\ toStop' = toStop /\ toStart' = toStart /\ stopping' = stopping
      /\ starting' = starting /\ servers' = servers /\ hub' = hub /\ mcpStatus' = mcpStatus
      /\ mcpQueue' = mcpQueue /\ mcpConfig' = mcpConfig
    BY Zenon
<1>2. RunningServers' = RunningServers
    BY <1>1, Zenon DEF RunningServers
<1>3. HostTypeOK'
    BY <1>1, <1>2, Zenon DEF HostTypeOK
<1>4. McpPlanFacts' /\ McpLockFacts'
    BY <1>1, <1>2, Zenon DEF McpPlanFacts, McpLockFacts
<1>5. OwnerFacts'
    BY <1>1, Zenon DEF OwnerFacts
<1>6. OwnToolsKept'
  <2> SUFFICES ASSUME NEW s \in RunningServers, NEW n \in servers[s].tools \ Contested(s)
               PROVE  registry'[n] = s
    BY <1>1, <1>2, Zenon DEF OwnToolsKept, Contested
  <2>1. registry[n] = s
    BY Zenon DEF OwnToolsKept
  <2>2. n \in Names \ (Builtins \cup Agents)
    BY HandleTyped DEF Contested, Names, RunningServers
  <2> QED
    BY <2>1, <2>2, Zenon
<1> QED
    BY <1>3, <1>4, <1>5, <1>6, Zenon

LEMMA SyncAcpOK ==
    ASSUME HostInv, NEW enabled \in SUBSET Agents, SyncAcp(enabled)
    PROVE  HostInv'
<1> USE DEF HostInv
<1>1. \A n \in Names : registry'[n] = IF n \in enabled \ agents THEN n
                                      ELSE IF n \in agents \ enabled THEN "nobody" ELSE registry[n]
    BY Zenon DEF SyncAcp, StartAgents, StopAgents
<1>2. \A n \in Names : registry[n] \in Owners
    BY Zenon DEF HostTypeOK
<1>3. registry' \in [Names -> Owners]
  <2>1. registry' = [n \in Names |-> registry'[n]]
    BY Zenon DEF SyncAcp, StartAgents
  <2> QED
    BY <1>1, <1>2, <2>1, Zenon DEF Owners
<1>4. \A n \in Names \ (Builtins \cup Agents) : registry'[n] = registry[n]
    BY <1>1, Zenon DEF HostTypeOK
<1>5. \A n \in Names : registry'[n] \in Servers => registry'[n] = registry[n]
    BY <1>1, ToolHostAssumption DEF HostTypeOK
<1>6. \A n \in Names : registry'[n] \in Agents => registry'[n] = n /\ n \in agents'
    BY <1>1, ToolHostAssumption, Zenon DEF OwnerFacts, SyncAcp
<1>7. UNCHANGED <<mcpVars, mcpConfig, toolConfig, toolTasks>> /\ acpConfig' = enabled /\ agents' = enabled
    BY Zenon DEF SyncAcp
<1> QED
    BY <1>3, <1>4, <1>5, <1>6, <1>7, RegistryOK, Zenon DEF HostTypeOK

LEMMA ApplyToolsOK ==
    ASSUME HostInv, NEW i \in DOMAIN toolTasks, ApplyTools(i)
    PROVE  HostInv'
<1> USE DEF HostInv
<1>1. toolTasks[i] \subseteq Builtins /\ toolTasks \in Seq(SUBSET Builtins)
    BY DEF HostTypeOK
<1>2. toolTasks' \in Seq(SUBSET Builtins)
    BY <1>1 DEF ApplyTools
<1>3. \A n \in Names : registry'[n] = IF n \in toolTasks[i] THEN "builtin"
                                      ELSE IF n \in Builtins THEN "nobody" ELSE registry[n]
    BY Zenon DEF ApplyTools
<1>4. registry' \in [Names -> Owners]
  <2>1. registry' = [n \in Names |-> registry'[n]] /\ \A n \in Names : registry[n] \in Owners
    BY Zenon DEF ApplyTools, HostTypeOK
  <2> QED
    BY <1>3, <2>1, Zenon DEF Owners
<1>5. UNCHANGED <<mcpVars, mcpConfig, toolConfig, acpConfig, agents>>
    BY Zenon DEF ApplyTools, confVars
<1>6. \A n \in Names : registry'[n] \in Servers \cup Agents => registry'[n] = registry[n]
    BY <1>3, ToolHostAssumption, Zenon
<1> QED
    BY <1>1, <1>2, <1>3, <1>4, <1>5, <1>6, RegistryOK, Zenon DEF HostTypeOK, OwnerFacts

LEMMA BeginMcpFacts ==
    ASSUME HostInv, BeginMcp
    PROVE  /\ Head(mcpQueue) \in McpCommands /\ mcpOp' = Head(mcpQueue) /\ mcpQueue' \in Seq(McpCommands)
           /\ mcpOp = NoCmd /\ toStop = {} /\ toStart = {} /\ stopping = {} /\ starting = {}
           /\ toStop' \subseteq RunningServers \cap McpScope(mcpOp')
           /\ toStart' \subseteq Wanted(mcpOp'.snapshot) \cap McpScope(mcpOp')
           /\ toStart' \cap RunningServers \subseteq toStop'
           /\ Wanted(mcpOp'.snapshot) \cap McpScope(mcpOp') \subseteq RunningServers \cup toStart'
           /\ Wanted(mcpOp'.snapshot) \cap toStop' \subseteq toStart'
           /\ \A s \in McpScope(mcpOp') \cap RunningServers :
                 s \in toStop' \/ servers[s].setting = McpWant(mcpOp', s)
           /\ \A s \in toStop' : mcpOp'.kind = "restart" \/ servers[s].setting # McpWant(mcpOp', s)
<1> USE DEF HostInv
<1> DEFINE c == Head(mcpQueue)
<1>1. mcpQueue \in Seq(McpCommands) /\ mcpQueue # <<>> /\ mcpOp' = c /\ mcpQueue' = Tail(mcpQueue) /\ mcpOp = NoCmd
    BY Zenon DEF HostTypeOK, BeginMcp
<1>2. c \in McpCommands /\ mcpQueue' \in Seq(McpCommands)
    BY <1>1
<1>3. \/ c.kind = "sync" /\ PlanSync(c.snapshot)
      \/ c.kind = "restart" /\ PlanRestart(c.server, c.snapshot)
    BY Zenon DEF BeginMcp
<1> HIDE DEF c
<1>4. toStop = {} /\ toStart = {} /\ stopping = {} /\ starting = {}
    BY <1>1, Zenon DEF McpLockFacts
<1>5. RunningServers \subseteq Servers /\ Wanted(c.snapshot) \subseteq Servers
    BY Zenon DEF RunningServers, Wanted
<1>6. \A s \in RunningServers : servers[s].setting \in McpVersions /\ servers[s].setting # McpOff
    BY <1>5, HandleTyped, ToolHostAssumption, Zenon
<1>7. CASE c.kind = "sync"
  <2>1. McpScope(c) = Servers
    BY <1>7, Zenon DEF McpScope
  <2>2. /\ toStop' = (RunningServers \ Wanted(c.snapshot)) \cup Altered(c.snapshot)
        /\ toStart' = (Wanted(c.snapshot) \ RunningServers) \cup Altered(c.snapshot)
    BY <1>3, <1>7, Zenon DEF PlanSync
  <2>3. Altered(c.snapshot) = {s \in RunningServers \cap Wanted(c.snapshot) : servers[s].setting # c.snapshot[s]}
    BY Zenon DEF Altered
  <2>4. /\ toStop' \subseteq RunningServers /\ toStart' \subseteq Wanted(c.snapshot)
        /\ toStart' \cap RunningServers \subseteq toStop'
        /\ Wanted(c.snapshot) \subseteq RunningServers \cup toStart'
        /\ Wanted(c.snapshot) \cap toStop' \subseteq toStart'
    BY <2>2, <2>3, Zenon
  <2>5. \A s \in RunningServers : s \in toStop' \/ servers[s].setting = McpWant(c, s)
    BY <2>2, <2>3, Zenon DEF McpWant
  <2>6. \A s \in toStop' : servers[s].setting # McpWant(c, s)
    BY <1>6, <2>2, <2>3, Zenon DEF McpWant
  <2> QED
    BY <1>1, <1>2, <1>4, <1>5, <2>1, <2>4, <2>5, <2>6, Zenon DEF c
<1>8. CASE c.kind = "restart"
  <2>1. McpScope(c) = {c.server}
    BY <1>8, Zenon DEF McpScope
  <2>2. c.server \in Wanted(c.snapshot) /\ toStop' = {c.server} \cap RunningServers /\ toStart' = {c.server}
    BY <1>3, <1>8, Zenon DEF PlanRestart
  <2> QED
    BY <1>1, <1>2, <1>4, <1>8, <2>1, <2>2, Zenon DEF c
<1> QED
    BY <1>3, <1>7, <1>8, Zenon

LEMMA BeginMcpOK == ASSUME HostInv, BeginMcp PROVE HostInv'
<1> USE DEF HostInv
<1>1. /\ mcpOp' \in McpCommands /\ mcpOp' # NoCmd
      /\ McpScope(mcpOp') \subseteq Servers /\ Wanted(mcpOp'.snapshot) \subseteq Servers
    BY BeginMcpFacts, CommandFacts, Zenon
<1>2. /\ UNCHANGED <<stopping, starting, servers, hub, mcpStatus, toolTasks, agents, registry>>
      /\ UNCHANGED <<mcpConfig, toolConfig, acpConfig>>
    BY Zenon DEF BeginMcp, confVars
<1>3. RunningServers' = RunningServers
    BY <1>2, Zenon DEF RunningServers
<1>4. HostTypeOK'
    BY <1>1, <1>2, <1>3, BeginMcpFacts, Zenon DEF HostTypeOK
<1>5. McpPlanFacts'
    BY <1>2, <1>3, BeginMcpFacts, Zenon DEF McpPlanFacts
<1>6. McpLockFacts'
    BY <1>1, <1>2, <1>3, BeginMcpFacts, Zenon DEF McpLockFacts
<1>7. OwnerFacts' /\ OwnToolsKept'
    BY <1>2, <1>3, Zenon DEF OwnerFacts, OwnToolsKept
<1> QED
    BY <1>4, <1>5, <1>6, <1>7, Zenon

LEMMA StopServerOK ==
    ASSUME HostInv, NEW s \in Servers, StopServer(s)
    PROVE  HostInv'
<1> USE DEF HostInv
<1>1. /\ s \in toStop /\ stopping = {} /\ toStop' = toStop \ {s} /\ stopping' = {s}
      /\ UNCHANGED <<mcpQueue, mcpOp, toStart, starting, hub, mcpStatus, toolTasks, agents>>
      /\ UNCHANGED <<mcpConfig, toolConfig, acpConfig>>
    BY Zenon DEF StopServer, confVars
<1>2. /\ servers'[s] = NoHandle /\ \A t \in Servers \ {s} : servers'[t] = servers[t]
      /\ DOMAIN servers' = Servers
    BY Zenon DEF StopServer, HostTypeOK
<1>3. s \in RunningServers /\ toStop \subseteq RunningServers
    BY <1>1, Zenon DEF HostTypeOK
<1>4. RunningServers' = RunningServers \ {s}
    BY <1>2, Zenon DEF RunningServers
<1>5. \A n \in Names : registry'[n] = IF n \in servers[s].tools THEN "nobody" ELSE registry[n]
    BY Zenon DEF StopServer, UnregisterMany, RegisterMany
<1>6. servers[s].tools \in Catalog[s]
    BY <1>3, HandleTyped, Zenon
<1>7. starting = {} /\ mcpOp # NoCmd
    BY <1>1, Zenon DEF McpLockFacts
<1>8. HostTypeOK'
  <2>1. registry' \in [Names -> Owners]
    <3>1. registry' = [n \in Names |-> registry'[n]] /\ \A n \in Names : registry[n] \in Owners
      BY Zenon DEF StopServer, UnregisterMany, RegisterMany, HostTypeOK
    <3> QED
      BY <1>5, <3>1, Zenon DEF Owners
  <2>2. \A t \in Servers : servers'[t] \in Handles(t)
    BY <1>2, Zenon DEF HostTypeOK, Handles
  <2> QED
    BY <1>1, <1>2, <1>3, <1>4, <1>7, <2>1, <2>2, Zenon DEF HostTypeOK
<1>9. McpPlanFacts'
    BY <1>1, <1>2, <1>3, <1>4, Zenon DEF McpPlanFacts, RunningServers
<1>10. McpLockFacts'
    BY <1>1, <1>4, <1>7, Zenon DEF McpLockFacts
<1>11. OwnerFacts'
  <2> SUFFICES ASSUME NEW n \in Names
               PROVE  /\ registry'[n] \in Servers => n \in servers'[registry'[n]].tools
                      /\ registry'[n] \in Agents => registry'[n] = n /\ n \in agents
    BY <1>1, Zenon DEF OwnerFacts
  <2>1. CASE n \in servers[s].tools
    BY <1>5, <2>1, ToolHostAssumption, Zenon
  <2>2. CASE n \notin servers[s].tools
    BY <1>2, <1>5, <2>2 DEF OwnerFacts
  <2> QED
    BY <2>1, <2>2, Zenon
<1>12. OwnToolsKept'
  <2> SUFFICES ASSUME NEW t \in RunningServers \ {s}, NEW n \in servers[t].tools \ Contested(t)
               PROVE  registry'[n] = t
    BY <1>2, <1>4, Zenon DEF OwnToolsKept, Contested, RunningServers
  <2>1. registry[n] = t
    BY Zenon DEF OwnToolsKept
  <2>2. n \notin servers[s].tools
    BY <1>6, Zenon DEF Contested
  <2>3. n \in Names
    BY HandleTyped, Zenon DEF Names, RunningServers
  <2> QED
    BY <1>5, <2>1, <2>2, <2>3, Zenon
<1> QED
    BY <1>8, <1>9, <1>10, <1>11, <1>12, Zenon

\* A step of the manager that leaves the handles and the registry alone.
LEMMA ManagerOK ==
    ASSUME HostInv, UNCHANGED <<mcpQueue, servers, confVars, toolTasks, agents, registry>>,
           hub' \subseteq Servers, RunningServers \subseteq hub',
           mcpStatus' \in [Servers -> {"starting", "running", "stopped", "failed", "absent"}],
           mcpOp' \in {mcpOp, NoCmd}, toStop' = toStop, toStart' \subseteq toStart \ starting',
           stopping' \subseteq stopping, starting' \subseteq starting \cup toStart,
           starting' # {} => toStop = {} /\ stopping' = {},
           mcpOp' = NoCmd => toStop' = {} /\ toStart' = {} /\ stopping' = {} /\ starting' = {}
    PROVE  HostInv'
<1> USE DEF HostInv, confVars
<1>1. RunningServers' = RunningServers
    BY Zenon DEF RunningServers
<1>2. starting' \cap RunningServers = {} /\ toStop \subseteq RunningServers
    BY Zenon DEF HostTypeOK, McpLockFacts
<1>3. HostTypeOK'
    BY <1>1, <1>2, Zenon DEF HostTypeOK
<1>4. McpPlanFacts'
  <2> SUFFICES ASSUME mcpOp' # NoCmd PROVE McpPlanFacts'
    BY Zenon DEF McpPlanFacts
  <2>1. mcpOp' = mcpOp
    BY Zenon
  <2> QED
    BY <1>1, <2>1, Zenon DEF McpPlanFacts
<1>5. McpLockFacts'
    BY <1>1, Zenon DEF McpLockFacts
<1>6. OwnerFacts' /\ OwnToolsKept'
    BY <1>1, Zenon DEF OwnerFacts, OwnToolsKept
<1> QED
    BY <1>3, <1>4, <1>5, <1>6, Zenon

LEMMA ServerStoppedOK ==
    ASSUME HostInv, NEW s \in Servers, ServerStopped(s)
    PROVE  HostInv'
<1> USE DEF HostInv
<1>1. /\ UNCHANGED <<mcpQueue, mcpOp, toStop, toStart, starting, servers, confVars, toolTasks, agents, registry>>
      /\ stopping' = {} /\ s \in stopping /\ hub' = hub \ {s}
    BY Zenon DEF ServerStopped
<1>2. mcpStatus' \in [Servers -> {"starting", "running", "stopped", "failed", "absent"}]
    BY Zenon DEF ServerStopped, HostTypeOK
<1>3. RunningServers \subseteq hub' /\ hub' \subseteq Servers
    BY <1>1, Zenon DEF HostTypeOK
<1>4. toStart \subseteq toStart \ starting
    BY Zenon DEF HostTypeOK
<1> QED
    BY <1>1, <1>2, <1>3, <1>4, ManagerOK, Zenon DEF McpLockFacts

LEMMA StartServerOK ==
    ASSUME HostInv, NEW s \in Servers, StartServer(s)
    PROVE  HostInv'
<1> USE DEF HostInv
<1>1. /\ UNCHANGED <<mcpQueue, mcpOp, toStop, stopping, servers, hub, confVars, toolTasks, agents, registry>>
      /\ toStop = {} /\ stopping = {} /\ starting = {} /\ s \in toStart
      /\ toStart' = toStart \ {s} /\ starting' = {s}
    BY Zenon DEF StartServer
<1>2. mcpStatus' \in [Servers -> {"starting", "running", "stopped", "failed", "absent"}]
    BY Zenon DEF StartServer, HostTypeOK
<1>3. mcpOp # NoCmd
    BY <1>1, Zenon DEF McpLockFacts
<1> QED
    BY <1>1, <1>2, <1>3, ManagerOK, Zenon DEF HostTypeOK

LEMMA ServerFailedOK ==
    ASSUME HostInv, NEW s \in Servers, ServerFailed(s)
    PROVE  HostInv'
<1> USE DEF HostInv
<1>1. /\ UNCHANGED <<mcpQueue, mcpOp, toStop, toStart, stopping, servers, hub, confVars, toolTasks, agents, registry>>
      /\ starting' = {} /\ s \in starting
    BY Zenon DEF ServerFailed
<1>2. mcpStatus' \in [Servers -> {"starting", "running", "stopped", "failed", "absent"}]
    BY Zenon DEF ServerFailed, HostTypeOK
<1>3. mcpOp # NoCmd
    BY <1>1, Zenon DEF McpLockFacts
<1> QED
    BY <1>1, <1>2, <1>3, ManagerOK, Zenon DEF HostTypeOK

LEMMA FinishMcpOK == ASSUME HostInv, FinishMcp PROVE HostInv'
<1> USE DEF HostInv
<1>1. /\ UNCHANGED <<mcpQueue, toStop, toStart, stopping, starting, servers, hub, confVars, toolTasks, agents, registry>>
      /\ toStop = {} /\ toStart = {} /\ stopping = {} /\ starting = {} /\ mcpOp' = NoCmd
    BY Zenon DEF FinishMcp
<1>2. mcpStatus' \in [Servers -> {"starting", "running", "stopped", "failed", "absent"}]
    BY Zenon DEF FinishMcp, McpShown, HostTypeOK
<1> QED
    BY <1>1, <1>2, ManagerOK, Zenon DEF HostTypeOK

LEMMA StartedFacts ==
    ASSUME HostInv, NEW s \in Servers, NEW tools \in Catalog[s], ServerStarted(s, tools)
    PROVE  /\ mcpOp \in McpCommands /\ s \in starting /\ s \notin RunningServers
           /\ s \in Wanted(mcpOp.snapshot) \cap McpScope(mcpOp) /\ toStop = {} /\ stopping = {}
           /\ servers'[s] = [setting |-> mcpOp.snapshot[s], tools |-> tools]
           /\ mcpOp.snapshot[s] \in McpVersions
           /\ \A t \in Servers \ {s} : servers'[t] = servers[t]
           /\ DOMAIN servers' = Servers /\ RunningServers' = RunningServers \cup {s}
<1> USE DEF HostInv
<1>1. s \in starting /\ s \notin RunningServers
    BY Zenon DEF ServerStarted, HostTypeOK
<1>2. mcpOp # NoCmd /\ toStop = {} /\ stopping = {} /\ mcpOp \in McpCommands
    BY <1>1, Zenon DEF McpLockFacts, HostTypeOK
<1>3. s \in Wanted(mcpOp.snapshot) \cap McpScope(mcpOp)
    BY <1>1, <1>2, Zenon DEF McpPlanFacts
<1>4. mcpOp.snapshot[s] \in McpVersions
    BY <1>3, Zenon DEF Wanted
<1>5. /\ servers'[s] = [setting |-> mcpOp.snapshot[s], tools |-> tools]
      /\ \A t \in Servers \ {s} : servers'[t] = servers[t]
      /\ DOMAIN servers' = Servers
    BY Zenon DEF ServerStarted, HostTypeOK
<1>6. servers'[s] # NoHandle
    BY <1>4, <1>5, ToolHostAssumption DEF NoHandle
<1>7. RunningServers' = RunningServers \cup {s}
    BY <1>5, <1>6, Zenon DEF RunningServers
<1> QED
    BY <1>1, <1>2, <1>3, <1>4, <1>5, <1>7, Zenon

LEMMA ServerStartedOK ==
    ASSUME HostInv, NEW s \in Servers, NEW tools \in Catalog[s], ServerStarted(s, tools)
    PROVE  HostInv'
<1> USE DEF HostInv
<1>0. /\ mcpOp \in McpCommands /\ s \in starting /\ s \notin RunningServers
      /\ s \in Wanted(mcpOp.snapshot) \cap McpScope(mcpOp) /\ toStop = {} /\ stopping = {}
      /\ servers'[s] = [setting |-> mcpOp.snapshot[s], tools |-> tools]
      /\ mcpOp.snapshot[s] \in McpVersions
      /\ \A t \in Servers \ {s} : servers'[t] = servers[t]
      /\ DOMAIN servers' = Servers /\ RunningServers' = RunningServers \cup {s}
    BY StartedFacts, Zenon
<1>1. /\ UNCHANGED <<mcpQueue, mcpOp, toStop, toStart, stopping, toolTasks, agents>>
      /\ UNCHANGED <<mcpConfig, toolConfig, acpConfig>>
      /\ starting' = {} /\ hub' = hub \cup {s}
    BY Zenon DEF ServerStarted, confVars
<1>2. \A n \in Names : registry'[n] = IF n \in tools THEN s ELSE registry[n]
    BY Zenon DEF ServerStarted, RegisterMany
<1>3. HostTypeOK'
  <2>1. registry' \in [Names -> Owners]
    <3>1. registry' = [n \in Names |-> registry'[n]] /\ \A n \in Names : registry[n] \in Owners
      BY Zenon DEF ServerStarted, RegisterMany, HostTypeOK
    <3> QED
      BY <1>2, <3>1, Zenon DEF Owners
  <2>2. servers'[s] \in Handles(s)
    BY <1>0 DEF Handles
  <2>3. \A t \in Servers : servers'[t] \in Handles(t)
    BY <2>2, <1>0, Zenon DEF HostTypeOK
  <2>4. mcpStatus' \in [Servers -> {"starting", "running", "stopped", "failed", "absent"}]
    BY Zenon DEF ServerStarted, HostTypeOK
  <2>5. hub' \subseteq Servers /\ RunningServers' \subseteq hub'
    BY <1>1, <1>0, Zenon DEF HostTypeOK
  <2>6. /\ toStop' \subseteq RunningServers' /\ toStart' \subseteq Servers \ starting'
        /\ stopping' \cap RunningServers' = {} /\ starting' \cap RunningServers' = {}
    BY <1>1, <1>0, Zenon DEF HostTypeOK
  <2> QED
    BY <1>1, <2>1, <2>3, <2>4, <2>5, <2>6, <1>0, Zenon DEF HostTypeOK
<1>4. McpPlanFacts'
  <2>1. servers'[s].setting = McpWant(mcpOp, s)
    BY <1>0 DEF McpWant
  <2> QED
    BY <1>1, <2>1, <1>0, Zenon DEF McpPlanFacts, RunningServers
<1>5. McpLockFacts'
  <2>1. s \notin toStart
    BY <1>0, Zenon DEF HostTypeOK
  <2> QED
    BY <1>1, <2>1, <1>0, CommandFacts, Zenon DEF McpLockFacts
<1>6. OwnerFacts'
  <2> SUFFICES ASSUME NEW n \in Names
               PROVE  /\ registry'[n] \in Servers => n \in servers'[registry'[n]].tools
                      /\ registry'[n] \in Agents => registry'[n] = n /\ n \in agents
    BY <1>1, Zenon DEF OwnerFacts
  <2>1. CASE n \in tools
    BY <1>2, <2>1, ToolHostAssumption, <1>0
  <2>2. CASE n \notin tools
    <3>1. registry'[n] = registry[n] /\ registry[n] # s
      BY <1>2, <2>2, <1>0, HandleTyped DEF OwnerFacts
    <3> QED
      BY <3>1, <1>0, Zenon DEF OwnerFacts
  <2> QED
    BY <2>1, <2>2, Zenon
<1>7. OwnToolsKept'
  <2> SUFFICES ASSUME NEW t \in RunningServers', NEW n \in servers'[t].tools \ Contested(t)
               PROVE  registry'[n] = t
    BY Zenon DEF OwnToolsKept, Contested
  <2>1. CASE t = s
    <3>1. n \in tools /\ n \in Names
      BY <2>1, <1>0 DEF Names
    <3> QED
      BY <1>2, <2>1, <3>1, Zenon
  <2>2. CASE t # s
    <3>1. t \in RunningServers /\ t \in Servers /\ n \in servers[t].tools
      BY <2>2, <1>0, Zenon DEF RunningServers
    <3>2. registry[n] = t /\ n \notin tools
      BY <2>2, <3>1 DEF OwnToolsKept, Contested
    <3>3. n \in Names
      BY <3>1, HandleTyped, Zenon DEF Names
    <3> QED
      BY <1>2, <3>2, <3>3, Zenon
  <2> QED
    BY <2>1, <2>2, Zenon
<1> QED
    BY <1>3, <1>4, <1>5, <1>6, <1>7, Zenon

LEMMA HostStep == HostInv /\ [HostNext]_toolHostVars => HostInv'
<1> SUFFICES ASSUME HostInv, [HostNext]_toolHostVars PROVE HostInv'
    BY Zenon
<1>1. CASE UNCHANGED toolHostVars
    BY <1>1, HostStutter, Zenon
<1>2. ASSUME NEW s \in Servers, NEW v \in McpSettings, SyncMcp(s, v) \/ CreateServer(s, v) \/ UpdateServer(s, v)
      PROVE  HostInv'
    BY <1>2, SyncMcpOK, Zenon DEF CreateServer, UpdateServer
<1>3. ASSUME NEW s \in Servers, RestartMcpServer(s) \/ DeleteServer(s) \/ ApiSync(s)
      PROVE  HostInv'
  <2>1. McpAbsent \in McpSettings /\ mcpConfig[s] \in McpSettings
    BY Zenon DEF McpSettings, HostInv, HostTypeOK
  <2> QED
    BY <1>3, <2>1, SyncMcpOK, RestartMcpServerOK, Zenon DEF DeleteServer, ApiSync
<1>4. ASSUME NEW enabled \in SUBSET Builtins, SyncTools(enabled) PROVE HostInv'
    BY <1>4, SyncToolsOK, Zenon
<1>5. ASSUME NEW enabled \in SUBSET Agents, SyncAcp(enabled) PROVE HostInv'
    BY <1>5, SyncAcpOK, Zenon
<1>6. ASSUME NEW i \in DOMAIN toolTasks, ApplyTools(i) PROVE HostInv'
    BY <1>6, ApplyToolsOK, Zenon
<1>7. ASSUME McpStep PROVE HostInv'
    BY <1>7, BeginMcpOK, RefuseMcpOK, FinishMcpOK, StopServerOK, StartServerOK, ServerStoppedOK, ServerFailedOK, Zenon
    DEF McpStep, ShutdownTimesOut, StartTimesOut
<1>8. ASSUME ServerAnswers PROVE HostInv'
    BY <1>8, ServerStoppedOK, ServerFailedOK, ServerStartedOK, Zenon DEF ServerAnswers
<1> QED
    BY <1>1, <1>2, <1>3, <1>4, <1>5, <1>6, <1>7, <1>8, Zenon DEF HostNext

\* The inductive invariant of the tool host: the plan of the MCP operation under
\* way, and the owner of every name in the registry.
THEOREM HostInvariant == HostSpec => []HostInv
    BY HostStart, HostStep, PTL DEF HostSpec

\* The maps of McpManager stay typed and agree with each other and with the hub.
THEOREM HostTypeCorrect == HostSpec => []HostTypeOK
<1>1. HostInv => HostTypeOK
    BY Zenon DEF HostInv
<1> QED
    BY <1>1, HostInvariant, PTL

\* For any servers, catalogues and agents, a name in the registry leads to a
\* client in the hub or a registered agent at every point of a hot reload.
THEOREM ServedSafety == HostSpec => []RegisteredIsServed
<1>1. HostInv => RegisteredIsServed
  <2> SUFFICES ASSUME HostInv, NEW n \in Names
               PROVE  /\ registry[n] \in Servers => registry[n] \in hub
                      /\ registry[n] \in Agents => registry[n] \in agents
    BY Zenon DEF RegisteredIsServed
  <2>1. registry[n] \in Servers => registry[n] \in RunningServers
    BY HandleTyped, Zenon DEF HostInv, OwnerFacts
  <2> QED
    BY <2>1, Zenon DEF HostInv, OwnerFacts, HostTypeOK
<1> QED
    BY <1>1, HostInvariant, PTL

\* For any servers and catalogues, start_server, stop_server and the syncs of the
\* other tools leave a running server the names nobody else uses.
THEOREM OwnToolsSafety == HostSpec => []OwnToolsKept
<1>1. HostInv => OwnToolsKept
    BY Zenon DEF HostInv
<1> QED
    BY <1>1, HostInvariant, PTL

McpRun == [s \in Servers |-> servers[s].setting]

LEMMA McpGoalFacts ==
    ASSUME NEW c \in McpCommands
    PROVE  /\ McpGoalOf(c).scope = McpScope(c) /\ (McpGoalOf(c).force <=> c.kind = "restart")
           /\ \A s \in Servers : McpGoalOf(c).want[s] = McpWant(c, s)
           /\ McpGoalOf(c) \in McpReload!Goals
  <1>0. c # NoCmd /\ c.kind \in {"sync", "restart"} /\ McpScope(c) \subseteq Servers
    BY CommandFacts, Zenon
  <1> DEFINE w == [s \in Servers |-> IF s \in Wanted(c.snapshot) THEN c.snapshot[s] ELSE McpOff]
             f == (c.kind = "restart")
  <1>1. McpGoalOf(c) = [want |-> w, scope |-> McpScope(c), force |-> f]
    BY <1>0, Zenon DEF McpGoalOf, McpScope
  <1>2. w \in [Servers -> McpVersions \cup {McpOff}] /\ \A s \in Servers : w[s] = McpWant(c, s)
    BY Zenon DEF Wanted, McpWant
  <1>3. f \in BOOLEAN
    BY Zenon
  <1> HIDE DEF w
  <1>4. McpGoalOf(c).scope = McpScope(c) /\ McpGoalOf(c).want = w /\ McpGoalOf(c).force = f
    BY <1>1
  <1> HIDE DEF f
  <1>5. McpGoalOf(c) \in McpReload!Goals
    BY <1>0, <1>1, <1>2, <1>3 DEF McpReload!Goals, McpReload!States
  <1> QED
    BY <1>2, <1>4, <1>5, Zenon DEF f

\* Every step of the tool host is a step of the hot reload of servers, or none.
LEMMA McpReloadStep ==
    ASSUME HostInv, [HostNext]_toolHostVars
    PROVE  [McpReload!Next]_<<McpRun, McpGoal>>
  <1>0. HostTypeOK /\ McpPlanFacts /\ McpLockFacts /\ mcpOp \in McpCommands \cup {NoCmd}
    BY Zenon DEF HostInv, HostTypeOK
  <1>1. \A s \in Servers : /\ McpRun[s] = servers[s].setting
                           /\ s \in RunningServers <=> McpRun[s] # McpOff
    BY <1>0, HandleTyped, Zenon DEF McpRun
  <1>2. mcpOp = NoCmd => McpGoal = McpReload!NoGoal
    BY Zenon DEF McpGoal, McpGoalOf, McpReload!NoGoal
  <1>3. ASSUME mcpOp' = mcpOp PROVE McpGoal' = McpGoal
    BY <1>3, Zenon DEF McpGoal, McpGoalOf, Wanted
  <1>4. ASSUME UNCHANGED <<mcpOp, servers>> PROVE UNCHANGED <<McpRun, McpGoal>>
    BY <1>3, <1>4, Zenon DEF McpRun
  <1>5. ASSUME mcpOp \in McpCommands, toStop = {}, NEW s \in McpGoal.scope
        PROVE  McpRun[s] \in {McpOff, McpGoal.want[s]}
    <2>1. s \in McpScope(mcpOp) /\ s \in Servers /\ McpGoal.want[s] = McpWant(mcpOp, s)
      BY <1>5, McpGoalFacts, CommandFacts, Zenon DEF McpGoal
    <2>2. s \in RunningServers => servers[s].setting = McpWant(mcpOp, s)
      BY <1>0, <1>5, <2>1, CommandFacts, Zenon DEF McpPlanFacts
    <2> QED
      BY <1>1, <2>1, <2>2, Zenon
  <1>6. CASE UNCHANGED toolHostVars
    BY <1>4, <1>6, Zenon DEF toolHostVars, mcpVars
  <1>7. ASSUME NEW s \in Servers, NEW v, SyncMcp(s, v) PROVE UNCHANGED <<McpRun, McpGoal>>
    BY <1>4, <1>7, Zenon DEF SyncMcp, mcpRest
  <1>8. ASSUME NEW s \in Servers, RestartMcpServer(s) PROVE UNCHANGED <<McpRun, McpGoal>>
    BY <1>4, <1>8, Zenon DEF RestartMcpServer, mcpRest
  <1>9. ASSUME \/ \E enabled \in SUBSET Builtins : SyncTools(enabled)
               \/ \E enabled \in SUBSET Agents : SyncAcp(enabled)
               \/ \E i \in DOMAIN toolTasks : ApplyTools(i)
        PROVE  UNCHANGED <<McpRun, McpGoal>>
    BY <1>4, <1>9, Zenon DEF SyncTools, SyncAcp, ApplyTools, mcpVars
  <1>10. ASSUME BeginMcp PROVE McpReload!BeginOperation
    <2>1. mcpOp = NoCmd /\ mcpOp' \in McpCommands /\ UNCHANGED servers
      BY <1>10, BeginMcpFacts, Zenon DEF BeginMcp
    <2>2. McpGoal' \in McpReload!Goals
      BY <2>1, McpGoalFacts, Zenon DEF McpGoal, McpGoalOf, Wanted
    <2>3. McpRun' = McpRun
      BY <2>1, Zenon DEF McpRun
    <2> QED
      BY <1>2, <2>1, <2>2, <2>3, Zenon DEF McpReload!BeginOperation, McpRun
  <1>11. ASSUME RefuseMcp PROVE UNCHANGED <<McpRun, McpGoal>>
    BY <1>4, <1>11, Zenon DEF RefuseMcp, mcpRest
  <1>12. ASSUME FinishMcp PROVE McpReload!EndOperation
    <2>1. mcpOp \in McpCommands /\ toStop = {} /\ mcpOp' = NoCmd /\ UNCHANGED servers
      BY <1>0, <1>12, Zenon DEF FinishMcp
    <2>2. McpGoal' = McpReload!NoGoal /\ McpRun' = McpRun
      BY <2>1, Zenon DEF McpGoal, McpGoalOf, McpReload!NoGoal, McpRun
    <2> QED
      BY <1>5, <2>1, <2>2, Zenon DEF McpReload!EndOperation, McpReload!Settled, McpRun
  <1>13. ASSUME NEW s \in Servers, StopServer(s) PROVE McpReload!Stop(s)
    <2>1. s \in toStop /\ mcpOp' = mcpOp /\ servers' = [servers EXCEPT ![s] = NoHandle]
      BY <1>13, Zenon DEF StopServer
    <2>2. mcpOp \in McpCommands /\ s \in RunningServers
      BY <1>0, <2>1, Zenon DEF McpLockFacts, HostTypeOK
    <2>3. s \in McpGoal.scope /\ McpRun[s] # McpOff /\ (McpGoal.force \/ McpRun[s] # McpGoal.want[s])
      BY <1>0, <1>1, <2>1, <2>2, McpGoalFacts, CommandFacts DEF McpPlanFacts, McpGoal
    <2>4. McpRun' = [McpRun EXCEPT ![s] = McpOff]
      <3>1. McpRun'[s] = McpOff /\ \A t \in Servers \ {s} : McpRun'[t] = McpRun[t]
        BY <1>0, <2>1, Zenon DEF McpRun, HostTypeOK, NoHandle
      <3>2. McpRun' = [t \in Servers |-> McpRun'[t]] /\ McpRun = [t \in Servers |-> McpRun[t]]
        BY Zenon DEF McpRun
      <3> QED
        BY <3>1, <3>2, Zenon
    <2> QED
      BY <1>3, <2>1, <2>3, <2>4, Zenon DEF McpReload!Stop, McpRun
  <1>14. ASSUME NEW s \in Servers, StartServer(s) \/ ServerStopped(s) \/ ServerFailed(s)
         PROVE  UNCHANGED <<McpRun, McpGoal>>
    BY <1>4, <1>14, Zenon DEF StartServer, ServerStopped, ServerFailed
  <1>15. ASSUME NEW s \in Servers, NEW tools \in Catalog[s], ServerStarted(s, tools)
         PROVE  McpReload!Start(s)
    <2>1. /\ mcpOp \in McpCommands /\ s \notin RunningServers /\ toStop = {}
          /\ s \in Wanted(mcpOp.snapshot) /\ s \in McpScope(mcpOp)
          /\ servers'[s] = [setting |-> mcpOp.snapshot[s], tools |-> tools]
          /\ \A t \in Servers \ {s} : servers'[t] = servers[t]
      BY <1>15, StartedFacts, Zenon
    <2>2. s \in McpGoal.scope /\ McpGoal.want[s] = mcpOp.snapshot[s] /\ McpRun[s] = McpOff
      BY <1>1, <2>1, McpGoalFacts, Zenon DEF McpGoal, McpWant
    <2>3. McpRun' = [McpRun EXCEPT ![s] = McpGoal.want[s]]
      <3>1. McpRun'[s] = McpGoal.want[s] /\ \A t \in Servers \ {s} : McpRun'[t] = McpRun[t]
        BY <2>1, <2>2 DEF McpRun
      <3>2. McpRun' = [t \in Servers |-> McpRun'[t]] /\ McpRun = [t \in Servers |-> McpRun[t]]
        BY Zenon DEF McpRun
      <3> QED
        BY <3>1, <3>2, Zenon
    <2>4. McpGoal' = McpGoal
      BY <1>3, <1>15, Zenon DEF ServerStarted
    <2> QED
      BY <1>5, <2>1, <2>2, <2>3, <2>4, Zenon DEF McpReload!Start, McpReload!Settled, McpRun
  <1>16. ASSUME NEW s \in Servers, NEW v \in McpSettings, SyncMcp(s, v) \/ CreateServer(s, v) \/ UpdateServer(s, v)
         PROVE  UNCHANGED <<McpRun, McpGoal>>
    BY <1>7, <1>16, Zenon DEF CreateServer, UpdateServer
  <1>17. ASSUME NEW s \in Servers, RestartMcpServer(s) \/ DeleteServer(s) \/ ApiSync(s)
         PROVE  UNCHANGED <<McpRun, McpGoal>>
    BY <1>7, <1>8, <1>17, Zenon DEF DeleteServer, ApiSync
  <1>18. ASSUME McpStep PROVE [McpReload!Next]_<<McpRun, McpGoal>>
    BY <1>10, <1>11, <1>12, <1>13, <1>14, <1>18, Zenon DEF McpStep, ShutdownTimesOut, StartTimesOut, McpReload!Next
  <1>19. ASSUME ServerAnswers PROVE [McpReload!Next]_<<McpRun, McpGoal>>
    BY <1>14, <1>15, <1>19, Zenon DEF ServerAnswers, McpReload!Next
  <1> QED
    BY <1>6, <1>9, <1>16, <1>17, <1>18, <1>19, Zenon DEF HostNext

\* sync and restart_server of the MCP manager implement the hot reload for any
\* servers, configurations and catalogues, however many commands queue up.
THEOREM McpRefinement == HostSpec => McpReconciles
  <1>1. HostInit => McpReload!Init
    BY DEF HostInit, McpReload!Init, McpReload!NoGoal, McpGoal, McpGoalOf, NoHandle
  <1>2. HostInv /\ [HostNext]_toolHostVars => [McpReload!Next]_<<McpRun, McpGoal>>
    BY McpReloadStep, Zenon
  <1> QED
    BY <1>1, <1>2, HostInvariant, PTL DEF HostSpec, McpReconciles, McpReload!Spec, McpRun

LEMMA AppendFacts ==
    ASSUME NEW S, NEW q \in Seq(S), NEW c \in S
    PROVE  /\ Append(q, c) # <<>> /\ Len(Append(q, c)) = Len(q) + 1 /\ Len(q) \in Nat
           /\ Append(q, c)[Len(q) + 1] = c /\ \A i \in 1 .. Len(q) : Append(q, c)[i] = q[i]
           /\ q # <<>> <=> Len(q) > 0
  OBVIOUS

LEMMA TailFacts ==
    ASSUME NEW S, NEW q \in Seq(S), q # <<>>
    PROVE  /\ Tail(q) \in Seq(S) /\ Len(q) \in Nat /\ Len(q) > 0 /\ Len(Tail(q)) = Len(q) - 1
           /\ Head(q) = q[1] /\ \A i \in 1 .. Len(q) - 1 : Tail(q)[i] = q[i + 1]
           /\ Tail(q) # <<>> <=> Len(q) > 1
  <1>1. Tail(q) \in Seq(S) /\ Len(q) \in Nat /\ Len(q) > 0 /\ Len(Tail(q)) = Len(q) - 1
    OBVIOUS
  <1>2. Head(q) = q[1] /\ \A i \in 1 .. Len(q) - 1 : Tail(q)[i] = q[i + 1]
    OBVIOUS
  <1>3. Tail(q) # <<>> <=> Len(Tail(q)) > 0
    BY <1>1
  <1> QED
    BY <1>1, <1>2, <1>3

\* Saving and restarting queue the configuration as it then is.
LEMMA McpQueued ==
    ASSUME McpInv, HostInv', UNCHANGED mcpRest,
           NEW c \in McpCommands, mcpQueue' = Append(mcpQueue, c), c.snapshot = mcpConfig',
           c.kind = "restart" => mcpConfig' = mcpConfig
    PROVE  McpInv'
  <1> USE DEF McpInv
  <1>1. /\ mcpOp' = mcpOp /\ toStop' = toStop /\ toStart' = toStart /\ stopping' = stopping
        /\ starting' = starting /\ servers' = servers /\ mcpStatus' = mcpStatus
    BY Zenon DEF mcpRest
  <1>2. RunningServers' = RunningServers
    BY <1>1, Zenon DEF RunningServers
  <1>3. McpStatusFacts'
    BY <1>1, <1>2, Zenon DEF McpStatusFacts
  <1>4. mcpQueue \in Seq(McpCommands)
    BY Zenon DEF HostInv, HostTypeOK
  <1>5. /\ mcpQueue' # <<>> /\ Len(mcpQueue') = Len(mcpQueue) + 1 /\ Len(mcpQueue) \in Nat
        /\ mcpQueue'[Len(mcpQueue) + 1] = c /\ \A i \in 1 .. Len(mcpQueue) : mcpQueue'[i] = mcpQueue[i]
        /\ mcpQueue # <<>> <=> Len(mcpQueue) > 0
    BY <1>4, AppendFacts
  <1>7. mcpQueue'[Len(mcpQueue')].snapshot = mcpConfig'
    BY <1>5, Zenon
  <1>8. ASSUME NEW i \in 1 .. Len(mcpQueue') - 1, mcpQueue'[i + 1].kind = "restart"
        PROVE  mcpQueue'[i + 1].snapshot = mcpQueue'[i].snapshot
    <2>1. CASE i < Len(mcpQueue)
      BY <1>5, <1>8, <2>1 DEF McpQueueFacts
    <2>2. CASE i = Len(mcpQueue)
      BY <1>5, <1>8, <2>2 DEF McpQueueFacts
    <2> QED
      BY <1>5, <2>1, <2>2
  <1>9. ASSUME mcpQueue'[1].kind = "restart"
        PROVE  IF mcpOp' = NoCmd THEN SettledAt(mcpQueue[1].snapshot)' ELSE mcpOp'.snapshot = mcpQueue'[1].snapshot
    <2>1. CASE mcpQueue # <<>>
      <3>1. mcpQueue'[1] = mcpQueue[1]
        BY <1>5, <2>1
      <3> QED
        BY <1>1, <1>2, <1>9, <2>1, <3>1 DEF McpQueueFacts, SettledAt
    <2>2. CASE mcpQueue = <<>>
      <3>1. mcpQueue'[1] = c /\ mcpConfig' = mcpConfig
        BY <1>5, <1>9, <2>2
      <3>2. CASE mcpOp = NoCmd
        <4>1. SettledAt(mcpConfig)
          BY <2>2, <3>2, Zenon DEF McpQueueFacts, McpIdle
        <4> QED
          BY <1>1, <1>2, <3>1, <3>2, <4>1, Zenon DEF SettledAt
      <3>3. CASE mcpOp # NoCmd
        BY <1>1, <2>2, <3>1, <3>3, Zenon DEF McpQueueFacts
      <3> QED
        BY <3>2, <3>3, Zenon
    <2> QED
      BY <2>1, <2>2, ZenonT(30)
  <1> QED
    BY <1>3, <1>5, <1>7, <1>8, <1>9, Zenon DEF McpQueueFacts, McpIdle

\* The head of the queue leaves it.
LEMMA McpDequeued ==
    ASSUME McpInv, mcpOp = NoCmd, mcpQueue # <<>>, mcpQueue' = Tail(mcpQueue), UNCHANGED mcpConfig
    PROVE  /\ mcpQueue' # <<>> => mcpQueue'[Len(mcpQueue')].snapshot = mcpConfig'
           /\ mcpQueue' = <<>> => mcpQueue[1].snapshot = mcpConfig'
           /\ \A i \in 1 .. Len(mcpQueue') - 1 :
                 mcpQueue'[i + 1].kind = "restart" => mcpQueue'[i + 1].snapshot = mcpQueue'[i].snapshot
           /\ mcpQueue' # <<>> /\ mcpQueue'[1].kind = "restart" => mcpQueue'[1].snapshot = mcpQueue[1].snapshot
           /\ mcpQueue[1].kind = "restart" => SettledAt(mcpQueue[1].snapshot)
           /\ Head(mcpQueue) = mcpQueue[1]
  <1> USE DEF McpInv
  <1>1. mcpQueue \in Seq(McpCommands)
    BY Zenon DEF HostInv, HostTypeOK
  <1>2. /\ Len(mcpQueue) \in Nat /\ Len(mcpQueue) > 0 /\ Len(mcpQueue') = Len(mcpQueue) - 1
        /\ Head(mcpQueue) = mcpQueue[1] /\ \A i \in 1 .. Len(mcpQueue) - 1 : mcpQueue'[i] = mcpQueue[i + 1]
        /\ mcpQueue' # <<>> <=> Len(mcpQueue) > 1
    BY <1>1, TailFacts, Zenon
  <1>3. /\ mcpQueue[Len(mcpQueue)].snapshot = mcpConfig
        /\ \A i \in 1 .. Len(mcpQueue) - 1 :
              mcpQueue[i + 1].kind = "restart" => mcpQueue[i + 1].snapshot = mcpQueue[i].snapshot
        /\ mcpQueue[1].kind = "restart" => SettledAt(mcpQueue[1].snapshot)
    BY Zenon DEF McpQueueFacts
  <1>4. mcpQueue' # <<>> => mcpQueue'[Len(mcpQueue')].snapshot = mcpConfig'
    BY <1>2, <1>3
  <1>5. mcpQueue' = <<>> => mcpQueue[1].snapshot = mcpConfig'
    BY <1>2, <1>3
  <1>6. \A i \in 1 .. Len(mcpQueue') - 1 :
           mcpQueue'[i + 1].kind = "restart" => mcpQueue'[i + 1].snapshot = mcpQueue'[i].snapshot
    BY <1>2, <1>3
  <1>7. mcpQueue' # <<>> /\ mcpQueue'[1].kind = "restart" => mcpQueue'[1].snapshot = mcpQueue[1].snapshot
    BY <1>2, <1>3
  <1> QED
    BY <1>2, <1>3, <1>4, <1>5, <1>6, <1>7, Zenon

LEMMA McpRefused == ASSUME McpInv, HostInv', RefuseMcp PROVE McpInv'
  <1> USE DEF McpInv
  <1>1. /\ mcpOp' = mcpOp /\ toStop' = toStop /\ toStart' = toStart /\ stopping' = stopping
        /\ starting' = starting /\ servers' = servers /\ mcpStatus' = mcpStatus /\ mcpConfig' = mcpConfig
        /\ mcpOp = NoCmd /\ mcpQueue # <<>> /\ mcpQueue' = Tail(mcpQueue) /\ Head(mcpQueue).kind = "restart"
    BY Zenon DEF RefuseMcp, mcpRest, confVars
  <1>2. RunningServers' = RunningServers
    BY <1>1, Zenon DEF RunningServers
  <1>3. McpStatusFacts'
    BY <1>1, <1>2, Zenon DEF McpStatusFacts
  <1>4. SettledAt(mcpQueue[1].snapshot)
    BY <1>1, McpDequeued, Zenon
  <1>6. mcpQueue' = <<>> => SettledAt(mcpConfig)'
    <2>1. mcpQueue' = <<>> => mcpQueue[1].snapshot = mcpConfig'
      BY <1>1, McpDequeued, Zenon
    <2> QED
      BY <1>1, <1>2, <1>4, <2>1, Zenon DEF SettledAt
  <1>7. mcpQueue' # <<>> /\ mcpQueue'[1].kind = "restart" => SettledAt(mcpQueue[1].snapshot)'
    <2>1. mcpQueue' # <<>> /\ mcpQueue'[1].kind = "restart" => mcpQueue'[1].snapshot = mcpQueue[1].snapshot
      BY <1>1, McpDequeued, Zenon
    <2> QED
      BY <1>1, <1>2, <1>4, <2>1, Zenon DEF SettledAt
  <1> QED
    BY <1>1, <1>3, <1>6, <1>7, McpDequeued, Zenon DEF McpQueueFacts, McpIdle

\* While an operation is under way and stays so, the queue keeps its facts.
LEMMA McpMoved ==
    ASSUME McpInv, mcpOp # NoCmd, UNCHANGED <<mcpOp, mcpQueue, mcpConfig>>
    PROVE  McpQueueFacts'
  BY Zenon DEF McpInv, McpQueueFacts, McpIdle

LEMMA McpUntouched ==
    ASSUME McpInv, HostInv', UNCHANGED <<mcpVars, mcpConfig>>
    PROVE  McpInv'
  <1> USE DEF McpInv, mcpVars
  <1>1. RunningServers' = RunningServers
    BY Zenon DEF RunningServers
  <1>2. McpStatusFacts'
    BY <1>1, Zenon DEF McpStatusFacts
  <1>3. McpQueueFacts'
    BY <1>1, Zenon DEF McpQueueFacts, SettledAt, McpIdle
  <1> QED
    BY <1>2, <1>3, Zenon

LEMMA McpBegun == ASSUME McpInv, HostInv', BeginMcp PROVE McpInv'
  <1> USE DEF McpInv
  <1>1. /\ mcpOp = NoCmd /\ mcpQueue # <<>> /\ mcpQueue' = Tail(mcpQueue) /\ mcpConfig' = mcpConfig
        /\ UNCHANGED <<stopping, starting, servers, mcpStatus>> /\ mcpOp' = Head(mcpQueue)
    BY Zenon DEF BeginMcp, confVars
  <1>2. mcpOp' = mcpQueue[1] /\ mcpOp' \in McpCommands /\ mcpOp' # NoCmd /\ stopping = {} /\ starting = {}
    BY <1>1, McpDequeued, BeginMcpFacts, CommandFacts, Zenon
  <1>3. RunningServers' = RunningServers
    BY <1>1, Zenon DEF RunningServers
  <1>4. McpQueueFacts'
    BY <1>1, <1>2, McpDequeued, Zenon DEF McpQueueFacts, McpIdle
  <1>5. \A s \in Servers : /\ s \in RunningServers => mcpStatus[s] = "running"
                           /\ mcpStatus[s] = "running" => s \in RunningServers
    BY <1>2, Zenon DEF McpStatusFacts
  <1>6. ASSUME NEW s \in RunningServers
        PROVE  s \in toStop' \/ (s \in Wanted(mcpOp'.snapshot) /\ servers[s].setting = mcpOp'.snapshot[s])
    <2>1. s \in Servers /\ servers[s].setting \in McpVersions /\ servers[s].setting # McpOff
      BY HandleTyped, ToolHostAssumption, Zenon DEF RunningServers, HostInv
    <2>2. CASE s \in McpScope(mcpOp')
      <3>1. s \in toStop' \/ servers[s].setting = McpWant(mcpOp', s)
        BY <2>2, BeginMcpFacts, Zenon
      <3> QED
        BY <2>1, <3>1, Zenon DEF McpWant
    <2>3. CASE s \notin McpScope(mcpOp')
      <3>1. mcpOp'.kind = "restart"
        BY <1>2, <2>1, <2>3, CommandFacts, Zenon DEF McpScope
      <3>2. SettledAt(mcpOp'.snapshot)
        BY <1>1, <1>2, <3>1, McpDequeued, Zenon
      <3> QED
        BY <2>1, <3>2, Zenon DEF SettledAt, Wanted
    <2> QED
      BY <2>2, <2>3, Zenon
  <1>7. ASSUME NEW s \in Wanted(mcpOp'.snapshot) \ (RunningServers \cup toStart')
        PROVE  mcpStatus[s] = "failed"
    <2>1. s \notin McpScope(mcpOp') /\ s \in Servers /\ mcpOp'.snapshot[s] \in McpVersions
      BY BeginMcpFacts, Zenon DEF Wanted
    <2>2. mcpOp'.kind = "restart"
      BY <1>2, <2>1, CommandFacts DEF McpScope
    <2>3. SettledAt(mcpOp'.snapshot)
      BY <1>1, <1>2, <2>2, McpDequeued, Zenon
    <2> QED
      BY <1>5, <2>1, <2>3, Zenon DEF SettledAt
  <1>8. McpStatusFacts'
    BY <1>1, <1>2, <1>3, <1>5, <1>6, <1>7, BeginMcpFacts, Zenon DEF McpStatusFacts
  <1> QED
    BY <1>4, <1>8, Zenon

LEMMA McpStopping ==
    ASSUME McpInv, HostInv', NEW s \in Servers, StopServer(s)
    PROVE  McpInv'
  <1> USE DEF McpInv
  <1>1. /\ s \in toStop /\ stopping = {} /\ toStop' = toStop \ {s} /\ stopping' = {s}
        /\ UNCHANGED <<mcpQueue, mcpOp, toStart, starting, mcpStatus, mcpConfig>>
        /\ servers' = [servers EXCEPT ![s] = NoHandle]
    BY Zenon DEF StopServer, confVars
  <1>2. mcpOp # NoCmd /\ starting = {} /\ DOMAIN servers = Servers
    BY <1>1, Zenon DEF HostInv, McpLockFacts, HostTypeOK
  <1>3. RunningServers' = RunningServers \ {s} /\ \A t \in Servers \ {s} : servers'[t] = servers[t]
    BY <1>1, <1>2, Zenon DEF RunningServers
  <1>4. McpQueueFacts'
    BY <1>1, <1>2, McpMoved, Zenon
  <1>5. s \in Wanted(mcpOp.snapshot) => s \in toStart
    BY <1>1, <1>2, Zenon DEF McpStatusFacts
  <1>6. McpStatusFacts'
    BY <1>1, <1>2, <1>3, <1>5, Zenon DEF McpStatusFacts
  <1> QED
    BY <1>4, <1>6, Zenon

LEMMA McpStopped ==
    ASSUME McpInv, HostInv', NEW s \in Servers, ServerStopped(s)
    PROVE  McpInv'
  <1> USE DEF McpInv
  <1>1. /\ s \in stopping /\ stopping' = {} /\ UNCHANGED <<mcpQueue, mcpOp, toStop, toStart, starting, servers, mcpConfig>>
    BY Zenon DEF ServerStopped, confVars
  <1>2. mcpOp # NoCmd /\ starting = {} /\ s \notin RunningServers
    BY <1>1, Zenon DEF HostInv, McpLockFacts, HostTypeOK
  <1>3. mcpStatus'[s] = "stopped" /\ \A t \in Servers \ {s} : mcpStatus'[t] = mcpStatus[t]
    BY Zenon DEF ServerStopped, HostInv, HostTypeOK
  <1>4. RunningServers' = RunningServers
    BY <1>1, Zenon DEF RunningServers
  <1>5. stopping \subseteq {s}
    BY <1>1, Zenon DEF McpStatusFacts
  <1>6. McpQueueFacts'
    BY <1>1, <1>2, McpMoved, Zenon
  <1>7. McpStatusFacts'
    BY <1>1, <1>2, <1>3, <1>4, <1>5 DEF McpStatusFacts
  <1> QED
    BY <1>6, <1>7, Zenon

LEMMA McpStarting ==
    ASSUME McpInv, HostInv', NEW s \in Servers, StartServer(s)
    PROVE  McpInv'
  <1> USE DEF McpInv
  <1>1. /\ toStop = {} /\ stopping = {} /\ starting = {} /\ s \in toStart /\ toStart' = toStart \ {s}
        /\ starting' = {s} /\ UNCHANGED <<mcpQueue, mcpOp, toStop, stopping, servers, mcpConfig>>
    BY Zenon DEF StartServer, confVars
  <1>2. mcpOp # NoCmd /\ s \notin RunningServers
    BY <1>1, Zenon DEF HostInv, McpLockFacts
  <1>3. mcpStatus'[s] = "starting" /\ \A t \in Servers \ {s} : mcpStatus'[t] = mcpStatus[t]
    BY Zenon DEF StartServer, HostInv, HostTypeOK
  <1>4. RunningServers' = RunningServers
    BY <1>1, Zenon DEF RunningServers
  <1>5. McpQueueFacts'
    BY <1>1, <1>2, McpMoved, Zenon
  <1>6. McpStatusFacts'
    BY <1>1, <1>2, <1>3, <1>4, Zenon DEF McpStatusFacts
  <1> QED
    BY <1>5, <1>6, Zenon

LEMMA McpFailed ==
    ASSUME McpInv, HostInv', NEW s \in Servers, ServerFailed(s)
    PROVE  McpInv'
  <1> USE DEF McpInv
  <1>1. s \in starting /\ starting' = {} /\ UNCHANGED <<mcpQueue, mcpOp, toStop, toStart, stopping, servers, mcpConfig>>
    BY Zenon DEF ServerFailed, confVars
  <1>2. mcpOp # NoCmd /\ stopping = {} /\ toStop = {} /\ s \notin RunningServers
    BY <1>1, Zenon DEF HostInv, McpLockFacts, HostTypeOK
  <1>3. mcpStatus'[s] = "failed" /\ \A t \in Servers \ {s} : mcpStatus'[t] = mcpStatus[t]
    BY ZenonT(30) DEF ServerFailed, HostInv, HostTypeOK
  <1>4. RunningServers' = RunningServers /\ starting = {s}
    BY <1>1 DEF RunningServers, McpStatusFacts
  <1>5. McpQueueFacts'
    BY <1>1, <1>2, McpMoved, Zenon
  <1>6. McpStatusFacts'
    BY <1>1, <1>2, <1>3, <1>4, Zenon DEF McpStatusFacts
  <1> QED
    BY <1>5, <1>6, Zenon

LEMMA McpStarted ==
    ASSUME McpInv, HostInv', NEW s \in Servers, NEW tools \in Catalog[s], ServerStarted(s, tools)
    PROVE  McpInv'
  <1> USE DEF McpInv
  <1>1. s \in starting /\ starting' = {} /\ UNCHANGED <<mcpQueue, mcpOp, toStop, toStart, stopping, mcpConfig>>
    BY Zenon DEF ServerStarted, confVars
  <1>2. mcpOp # NoCmd /\ stopping = {} /\ toStop = {}
    BY <1>1, Zenon DEF HostInv, McpLockFacts
  <1>3. mcpStatus'[s] = "running" /\ \A t \in Servers \ {s} : mcpStatus'[t] = mcpStatus[t]
    BY ZenonT(30) DEF ServerStarted, HostInv, HostTypeOK
  <1>4. /\ s \in Wanted(mcpOp.snapshot) /\ servers'[s].setting = mcpOp.snapshot[s]
        /\ \A t \in Servers \ {s} : servers'[t] = servers[t]
        /\ RunningServers' = RunningServers \cup {s}
    <2>1. HostInv
      BY Zenon
    <2>2. /\ s \in Wanted(mcpOp.snapshot) \cap McpScope(mcpOp)
          /\ servers'[s] = [setting |-> mcpOp.snapshot[s], tools |-> tools]
          /\ \A t \in Servers \ {s} : servers'[t] = servers[t]
          /\ RunningServers' = RunningServers \cup {s}
      BY <2>1, StartedFacts, ZenonT(30)
    <2> QED
      BY <2>2
  <1>5. starting = {s}
    BY <1>1 DEF McpStatusFacts
  <1>6. McpQueueFacts'
    BY <1>1, <1>2, McpMoved, Zenon
  <1>7. McpStatusFacts'
    BY <1>1, <1>2, <1>3, <1>4, <1>5, Zenon DEF McpStatusFacts
  <1> QED
    BY <1>6, <1>7, Zenon

LEMMA McpFinished == ASSUME McpInv, HostInv', FinishMcp PROVE McpInv'
  <1> USE DEF McpInv
  <1>1. /\ mcpOp # NoCmd /\ toStop = {} /\ toStart = {} /\ stopping = {} /\ starting = {} /\ mcpOp' = NoCmd
        /\ UNCHANGED <<mcpQueue, toStop, toStart, stopping, starting, servers, mcpConfig>>
        /\ mcpOp \in McpCommands
    BY Zenon DEF FinishMcp, confVars, HostInv, HostTypeOK
  <1>2. RunningServers' = RunningServers /\ RunningServers \subseteq Servers
    BY <1>1, Zenon DEF RunningServers
  <1>3. \A s \in Servers : mcpStatus'[s] = IF mcpOp.snapshot[s] = McpAbsent THEN "absent"
                                           ELSE IF s \in Wanted(mcpOp.snapshot) /\ mcpStatus[s] # "absent" THEN mcpStatus[s]
                                           ELSE "stopped"
    BY Zenon DEF FinishMcp, McpShown
  <1>4. \A s \in Servers : s \in Wanted(mcpOp.snapshot) <=> mcpOp.snapshot[s] \in McpVersions
    BY Zenon DEF Wanted
  <1>5. McpAbsent \notin McpVersions
    BY ToolHostAssumption, Zenon
  <1>6. \A s \in Servers :
          /\ s \in RunningServers => /\ mcpStatus[s] = "running" /\ s \in Wanted(mcpOp.snapshot)
                                     /\ servers[s].setting = mcpOp.snapshot[s]
          /\ mcpStatus[s] = "running" => s \in RunningServers
          /\ s \in Wanted(mcpOp.snapshot) \ RunningServers => mcpStatus[s] = "failed"
    BY <1>1, Zenon DEF McpStatusFacts
  <1>7. \A s \in Servers :
          /\ s \in RunningServers => mcpStatus'[s] = "running"
          /\ mcpStatus'[s] = "running" => s \in RunningServers
    BY <1>3, <1>4, <1>5, <1>6
  <1>8. McpStatusFacts'
    BY <1>1, <1>2, <1>7, Zenon DEF McpStatusFacts
  <1>9. \A s \in Servers :
          /\ s \in RunningServers => servers[s].setting = mcpOp.snapshot[s]
          /\ mcpOp.snapshot[s] \in McpVersions => mcpStatus'[s] \in {"running", "failed"}
          /\ mcpOp.snapshot[s] = McpAbsent <=> mcpStatus'[s] = "absent"
    BY <1>3, <1>4, <1>5, <1>6, Zenon
  <1>10. /\ mcpQueue' # <<>> => mcpQueue'[Len(mcpQueue')].snapshot = mcpConfig'
         /\ mcpQueue' = <<>> => mcpOp.snapshot = mcpConfig'
         /\ \A i \in 1 .. Len(mcpQueue') - 1 :
               mcpQueue'[i + 1].kind = "restart" => mcpQueue'[i + 1].snapshot = mcpQueue'[i].snapshot
         /\ mcpQueue' # <<>> /\ mcpQueue'[1].kind = "restart" => mcpOp.snapshot = mcpQueue'[1].snapshot
    BY <1>1, Zenon DEF McpQueueFacts
  <1>11. McpIdle' => SettledAt(mcpConfig)'
    BY <1>1, <1>2, <1>9, <1>10, Zenon DEF SettledAt, McpIdle
  <1>12. mcpQueue' # <<>> /\ mcpQueue'[1].kind = "restart" => SettledAt(mcpQueue[1].snapshot)'
    BY <1>1, <1>2, <1>9, <1>10, Zenon DEF SettledAt
  <1>13. McpQueueFacts'
    BY <1>1, <1>10, <1>11, <1>12, Zenon DEF McpQueueFacts
  <1> QED
    BY <1>8, <1>13, Zenon

LEMMA McpBegins == HostInit => McpInv
  <1> SUFFICES ASSUME HostInit PROVE McpInv
    BY Zenon
  <1>1. /\ mcpQueue = <<[kind |-> "sync", server |-> "none", snapshot |-> mcpConfig]>> /\ mcpOp = NoCmd
        /\ toStop = {} /\ toStart = {} /\ stopping = {} /\ starting = {} /\ RunningServers = {}
        /\ mcpStatus = [s \in Servers |-> "absent"]
    BY Zenon DEF HostInit, RunningServers
  <1>2. McpQueueFacts
    BY <1>1 DEF McpQueueFacts, McpIdle
  <1>3. McpStatusFacts
    BY <1>1, Zenon DEF McpStatusFacts
  <1> QED
    BY <1>2, <1>3, HostStart, Zenon DEF McpInv

LEMMA McpNext == McpInv /\ [HostNext]_toolHostVars => McpInv'
  <1> SUFFICES ASSUME McpInv, [HostNext]_toolHostVars PROVE McpInv'
    BY Zenon
  <1>0. HostInv /\ HostInv' /\ mcpConfig \in [Servers -> McpSettings] /\ mcpConfig' \in [Servers -> McpSettings]
    BY HostStep, Zenon DEF McpInv, HostInv, HostTypeOK
  <1>1. CASE UNCHANGED toolHostVars
    BY <1>0, <1>1, McpUntouched, Zenon DEF toolHostVars, confVars
  <1>2. ASSUME NEW s \in Servers, NEW v, SyncMcp(s, v) PROVE McpInv'
    <2> DEFINE c == [kind |-> "sync", server |-> "none", snapshot |-> mcpConfig']
    <2>1. c \in McpCommands /\ mcpQueue' = Append(mcpQueue, c) /\ c.snapshot = mcpConfig' /\ c.kind # "restart"
      BY <1>0, <1>2, Zenon DEF SyncMcp, QueueMcp, McpCommands
    <2>2. UNCHANGED mcpRest
      BY <1>2, Zenon DEF SyncMcp
    <2> HIDE DEF c
    <2> QED
      BY <1>0, <2>1, <2>2, McpQueued, Zenon
  <1>3. ASSUME NEW s \in Servers, RestartMcpServer(s) PROVE McpInv'
    <2> DEFINE c == [kind |-> "restart", server |-> s, snapshot |-> mcpConfig]
    <2>1. c \in McpCommands /\ mcpQueue' = Append(mcpQueue, c) /\ c.snapshot = mcpConfig' /\ mcpConfig' = mcpConfig
      BY <1>0, <1>3, Zenon DEF RestartMcpServer, QueueMcp, McpCommands
    <2>2. UNCHANGED mcpRest
      BY <1>3, Zenon DEF RestartMcpServer
    <2> HIDE DEF c
    <2> QED
      BY <1>0, <2>1, <2>2, McpQueued, Zenon
  <1>4. ASSUME \/ \E enabled \in SUBSET Builtins : SyncTools(enabled)
               \/ \E enabled \in SUBSET Agents : SyncAcp(enabled)
               \/ \E i \in DOMAIN toolTasks : ApplyTools(i)
        PROVE  McpInv'
    <2>1. UNCHANGED <<mcpVars, mcpConfig>>
      BY <1>4, Zenon DEF SyncTools, SyncAcp, ApplyTools, confVars
    <2> QED
      BY <1>0, <2>1, McpUntouched
  <1>5. ASSUME McpStep PROVE McpInv'
    BY <1>0, <1>5, McpBegun, McpRefused, McpFinished, McpStopping, McpStarting, McpStopped, McpFailed, Zenon
    DEF McpStep, ShutdownTimesOut, StartTimesOut
  <1>6. ASSUME ServerAnswers PROVE McpInv'
    BY <1>0, <1>6, McpStopped, McpFailed, McpStarted DEF ServerAnswers
  <1>7. ASSUME NEW s \in Servers, NEW v \in McpSettings, SyncMcp(s, v) \/ CreateServer(s, v) \/ UpdateServer(s, v)
        PROVE  McpInv'
    BY <1>2, <1>7, Zenon DEF CreateServer, UpdateServer
  <1>8. ASSUME NEW s \in Servers, RestartMcpServer(s) \/ DeleteServer(s) \/ ApiSync(s) PROVE McpInv'
    BY <1>2, <1>3, <1>8, Zenon DEF DeleteServer, ApiSync
  <1> QED
    BY <1>1, <1>4, <1>5, <1>6, <1>7, <1>8, Zenon DEF HostNext

\* The inductive invariant of the MCP manager's queue and statuses: a restart reads
\* the snapshot of the command before it, so what it leaves alone is already settled.
THEOREM McpInvariant == HostSpec => []McpInv
    BY McpBegins, McpNext, PTL DEF HostSpec

\* For any servers and any number of queued commands, once the queue is done every
\* server of the file runs as the file says or is shown as failed, and no other runs.
THEOREM McpAppliedSafety == HostSpec => []McpApplied
  <1>1. McpInv => McpApplied
    <2> SUFFICES ASSUME McpInv, McpIdle PROVE McpApplied
      BY Zenon DEF McpApplied
    <2>1. SettledAt(mcpConfig) /\ stopping = {}
      BY Zenon DEF McpInv, McpQueueFacts, HostInv, McpLockFacts, McpIdle
    <2> QED
      BY <2>1, Zenon DEF McpInv, McpStatusFacts, SettledAt, McpApplied
  <1> QED
    BY <1>1, McpInvariant, PTL

-----------------------------------------------------------------------------
(* The gateway's lifecycle *)

\* What holds at every await of an operation: the handle is gone while it is
\* replaced, and what will be started has the mode of the file.
GatewayFacts ==
    /\ gwStep # "idle" => gwQueue # <<>>
    /\ gwStep \in {"idle", "start"} /\ gwHandle # "none" => gwHandle = gwDisk.mode
    /\ gwStep \in {"draining", "stopped", "expose"} => gwHandle = "none"
    /\ gwStep \in {"stop", "draining", "stopped"} => Kind \in {"restart", "disable", "mode"}
    /\ gwStep \in {"start", "expose"} => Kind \in {"start", "restart", "enable", "mode"}
    /\ gwStep # "idle" /\ Kind # "disable" => target.mode = gwDisk.mode
    /\ gwStep # "idle" /\ Kind = "mode" => gwDisk.mode = Head(gwQueue).mode
    /\ transitioning <=> gwStep \in {"draining", "expose"}
    /\ gwQueue = <<>> => gwCache = [running |-> gwHandle # "none", transitioning |-> FALSE]

GwInv == GwTypeOK /\ GatewayFacts

Confs == [enabled : BOOLEAN, mode : Modes]

LEMMA GwHead ==
    ASSUME GwTypeOK, gwQueue # <<>>
    PROVE  /\ Head(gwQueue) \in GwCommands /\ Tail(gwQueue) \in Seq(GwCommands) /\ Tail(gwQueue) # gwQueue
           /\ Kind \in {"start", "restart", "enable", "disable", "host", "mode"}
           /\ Head(gwQueue).mode \in Modes
           /\ \A c \in GwCommands : Head(Append(gwQueue, c)) = Head(gwQueue) /\ Append(gwQueue, c) # Tail(gwQueue)
  <1>1. gwQueue \in Seq(GwCommands)
    BY Zenon DEF GwTypeOK
  <1>2. Head(gwQueue) \in GwCommands /\ Tail(gwQueue) \in Seq(GwCommands)
    BY <1>1
  <1>3. Len(Tail(gwQueue)) = Len(gwQueue) - 1 /\ Len(gwQueue) \in Nat
    BY <1>1
  <1>4. \A c \in GwCommands : Len(Append(gwQueue, c)) = Len(gwQueue) + 1 /\ Head(Append(gwQueue, c)) = Head(gwQueue)
    BY <1>1
  <1>5. /\ Head(gwQueue).kind \in {"start", "restart", "enable", "disable", "host", "mode"}
        /\ Head(gwQueue).mode \in Modes
    BY <1>2, Zenon DEF GwCommands, Modes
  <1> DEFINE n == Len(gwQueue)
             m == Len(Tail(gwQueue))
  <1>6. n \in Nat /\ m = n - 1
    BY <1>3, Zenon
  <1>7. \A c \in GwCommands : Len(Append(gwQueue, c)) = n + 1
    BY <1>4, Zenon
  <1>8. n # m /\ n + 1 # m
    <2> HIDE DEF n, m
    <2> QED
      BY <1>6
  <1>9. Tail(gwQueue) # gwQueue
    BY <1>8, Zenon
  <1>10. \A c \in GwCommands : Append(gwQueue, c) # Tail(gwQueue)
    BY <1>7, <1>8, Zenon
  <1> QED
    BY <1>2, <1>4, <1>5, <1>9, <1>10, Zenon DEF Kind

\* An operation that is answered leaves the gateway down, or up with the saved mode.
LEMMA GwAnswered ==
    ASSUME GwInv, gwQueue # <<>>, gwQueue' = Tail(gwQueue), gwStep' = "idle", ~transitioning', transitioning' \in BOOLEAN,
           gwCache' = [running |-> gwHandle' # "none", transitioning |-> FALSE],
           NEW ok \in BOOLEAN, reply' = [command |-> Head(gwQueue), ok |-> ok],
           gwDisk' \in Confs, gwMeta' \in Confs, target' \in Confs, previous' \in Modes,
           gwHandle' \in Modes \cup {"none"}, gwHandle' # "none" => gwHandle' = gwDisk'.mode,
           draining' \in Modes, exposure' \in Modes, lateResets' \in Nat, ran' \in BOOLEAN
    PROVE  GwInv'
  <1>1. gwQueue' \in Seq(GwCommands) /\ Head(gwQueue) \in GwCommands
    BY GwHead, Zenon DEF GwInv
  <1>2. reply' \in [command : GwCommands \cup {NoCommand}, ok : BOOLEAN]
    BY <1>1, Zenon
  <1>3. gwCache' \in [running : BOOLEAN, transitioning : BOOLEAN]
    BY Zenon
  <1>4. GwTypeOK'
    BY <1>1, <1>2, <1>3, Zenon DEF GwTypeOK, Confs, Steps
  <1>5. GatewayFacts'
    BY Zenon DEF GatewayFacts
  <1> QED
    BY <1>4, <1>5, Zenon DEF GwInv

\* An operation that goes on.
LEMMA GwGoesOn ==
    ASSUME GwInv, gwQueue # <<>>, UNCHANGED <<gwQueue, gwCache, reply>>, gwStep' \in Steps \ {"idle"},
           gwDisk' \in Confs, gwMeta' \in Confs, target' \in Confs, previous' \in Modes,
           gwHandle' \in Modes \cup {"none"}, draining' \in Modes, exposure' \in Modes, lateResets' \in Nat,
           ran' \in BOOLEAN, transitioning' \in BOOLEAN,
           transitioning' <=> gwStep' \in {"draining", "expose"},
           gwStep' = "start" /\ gwHandle' # "none" => gwHandle' = gwDisk'.mode,
           gwStep' \in {"draining", "stopped", "expose"} => gwHandle' = "none",
           gwStep' \in {"stop", "draining", "stopped"} => Kind \in {"restart", "disable", "mode"},
           gwStep' \in {"start", "expose"} => Kind \in {"start", "restart", "enable", "mode"},
           Kind # "disable" => target'.mode = gwDisk'.mode,
           Kind = "mode" => gwDisk'.mode = Head(gwQueue).mode
    PROVE  GwInv'
  <1>1. GwTypeOK'
    BY Zenon DEF GwInv, GwTypeOK, Confs
  <1>2. Kind' = Kind
    BY Zenon DEF Kind
  <1>3. GatewayFacts'
    BY <1>2, Zenon DEF GatewayFacts
  <1> QED
    BY <1>1, <1>3, Zenon DEF GwInv

LEMMA GwStart == GwInit => GwInv
  <1> SUFFICES ASSUME GwInit PROVE GwInv
    BY Zenon
  <1> USE DEF GwInit
  <1>1. gwDisk \in Confs /\ gwDisk.mode \in Modes /\ gwDisk.enabled \in BOOLEAN
    BY Zenon DEF Confs
  <1>2. gwQueue \in Seq(GwCommands)
    <2> DEFINE c == [kind |-> "start", mode |-> "off"]
    <2>1. c \in GwCommands
      BY Zenon DEF GwCommands
    <2>2. gwQueue = <<c>> \/ gwQueue = <<>>
      BY Zenon
    <2> HIDE DEF c
    <2> QED
      BY <2>1, <2>2
  <1>3. gwCache \in [running : BOOLEAN, transitioning : BOOLEAN]
    BY <1>1, Zenon
  <1>4. reply \in [command : GwCommands \cup {NoCommand}, ok : BOOLEAN]
    BY Zenon
  <1>5. GwTypeOK
    BY <1>1, <1>2, <1>3, <1>4, Zenon DEF GwTypeOK, Confs, Modes, Steps
  <1>6. gwQueue = <<>> => gwCache = [running |-> FALSE, transitioning |-> FALSE]
    <2>1. gwDisk.enabled => gwQueue # <<>>
      BY Zenon
    <2>2. ~gwDisk.enabled => gwDisk.enabled = FALSE
      BY <1>1, Zenon
    <2> QED
      BY <2>1, <2>2, Zenon
  <1>7. GatewayFacts
    BY <1>6, Zenon DEF GatewayFacts
  <1> QED
    BY <1>5, <1>7, Zenon DEF GwInv

LEMMA SubmitGatewayOK ==
    ASSUME GwInv, NEW c \in GwCommands, SubmitGateway(c)
    PROVE  GwInv'
  <1> USE DEF GwInv
  <1>1. /\ gwQueue' = Append(gwQueue, c)
        /\ UNCHANGED <<gwDisk, gwMeta, target, previous, gwHandle, transitioning, gwStep, draining, exposure,
                       lateResets, reply, ran>>
    BY Zenon DEF SubmitGateway, gwConfVars, gwTailVars
  <1>2. gwQueue' \in Seq(GwCommands) /\ gwQueue' # <<>>
    BY <1>1 DEF GwTypeOK
  <1>3. gwCache' \in [running : BOOLEAN, transitioning : BOOLEAN]
    <2>1. gwCache \in [running : BOOLEAN, transitioning : BOOLEAN]
      BY Zenon DEF GwTypeOK
    <2>2. (gwCache.transitioning \/ c.kind # "host") \in BOOLEAN
      BY <2>1, Zenon
    <2>3. gwCache' = [gwCache EXCEPT !.transitioning = gwCache.transitioning \/ c.kind # "host"]
      BY Zenon DEF SubmitGateway
    <2> QED
      BY <2>1, <2>2, <2>3, Zenon
  <1>4. GwTypeOK'
    BY <1>1, <1>2, <1>3, Zenon DEF GwTypeOK
  <1>5. gwStep # "idle" => Kind' = Kind /\ Head(gwQueue)' = Head(gwQueue)
    BY <1>1, GwHead, Zenon DEF Kind, GatewayFacts
  <1>6. GatewayFacts'
    BY <1>1, <1>2, <1>5, Zenon DEF GatewayFacts
  <1> QED
    BY <1>4, <1>6, Zenon

LEMMA SaveEnabledOK == ASSUME GwInv, SaveEnabled PROVE GwInv'
  <1> USE DEF GwInv
  <1>1. UNCHANGED <<gwMeta, target, previous, gwHandle, transitioning, gwQueue, gwStep, draining, exposure,
                    lateResets, gwCache, reply, ran>>
    BY Zenon DEF SaveEnabled, gwTailVars
  <1>2. gwDisk' \in [enabled : BOOLEAN, mode : Modes] /\ gwDisk'.mode = gwDisk.mode
    <2>1. gwDisk \in [enabled : BOOLEAN, mode : Modes] /\ (~gwDisk.enabled) \in BOOLEAN
      BY Zenon DEF GwTypeOK
    <2>2. gwDisk' = [gwDisk EXCEPT !.enabled = ~gwDisk.enabled]
      BY Zenon DEF SaveEnabled
    <2> QED
      BY <2>1, <2>2, Zenon
  <1>3. GwTypeOK'
    BY <1>1, <1>2, Zenon DEF GwTypeOK
  <1>4. Kind' = Kind
    BY <1>1, Zenon DEF Kind
  <1>5. GatewayFacts'
    BY <1>1, <1>2, <1>4, Zenon DEF GatewayFacts
  <1> QED
    BY <1>3, <1>5, Zenon

LEMMA GetGatewayStatusOK == ASSUME GwInv, GetGatewayStatus PROVE GwInv'
  <1> USE DEF GwInv
  <1>1. /\ UNCHANGED <<gwDisk, target, previous, gwHandle, transitioning, gwQueue, gwStep, draining, exposure,
                       lateResets, reply, ran>>
        /\ gwQueue = <<>> /\ gwMeta' \in {gwMeta, gwDisk}
        /\ gwCache' = [running |-> gwHandle # "none", transitioning |-> transitioning]
    BY Zenon DEF GetGatewayStatus, gwTailVars
  <1>2. gwStep = "idle" /\ transitioning = FALSE
    BY <1>1, Zenon DEF GatewayFacts, GwTypeOK
  <1>3. GwTypeOK'
    BY <1>1, <1>2, Zenon DEF GwTypeOK
  <1>4. GatewayFacts'
    BY <1>1, <1>2, Zenon DEF GatewayFacts
  <1> QED
    BY <1>3, <1>4, Zenon

LEMMA RefusedOK ==
    ASSUME GwInv, gwStep = "idle", gwQueue # <<>>, NEW ok \in BOOLEAN,
           Answer(ok, gwHandle, transitioning), UNCHANGED <<gwHandle, transitioning, gwTailVars>>, ran' \in BOOLEAN,
           gwDisk' \in Confs, gwMeta' \in Confs, target' \in Confs, previous' \in Modes,
           gwHandle # "none" => gwDisk'.mode = gwDisk.mode
    PROVE  GwInv' /\ reply'.ok = ok
  <1> USE DEF GwInv
  <1>1. transitioning = FALSE /\ (gwHandle # "none" => gwHandle = gwDisk.mode)
    BY Zenon DEF GatewayFacts, GwTypeOK
  <1>2. /\ gwQueue' = Tail(gwQueue) /\ gwStep' = "idle" /\ gwHandle' = gwHandle /\ transitioning' = FALSE
        /\ gwCache' = [running |-> gwHandle' # "none", transitioning |-> FALSE]
        /\ reply' = [command |-> Head(gwQueue), ok |-> ok]
    BY <1>1, Zenon DEF Answer
  <1>3. draining' \in Modes /\ exposure' \in Modes /\ lateResets' \in Nat /\ gwHandle' \in Modes \cup {"none"}
    BY Zenon DEF gwTailVars, GwTypeOK
  <1> QED
    BY <1>1, <1>2, <1>3, GwAnswered, Zenon

LEMMA BeginOperationOK == ASSUME GwInv, BeginOperation PROVE GwInv' /\ HonestAnswer
  <1> USE DEF GwInv
  <1>0. /\ gwStep = "idle" /\ gwQueue # <<>> /\ UNCHANGED <<gwHandle, transitioning, gwTailVars>> /\ ran' = (gwHandle # "none")
        /\ transitioning = FALSE /\ (gwHandle # "none" => gwHandle = gwDisk.mode)
    BY Zenon DEF BeginOperation, GatewayFacts, GwTypeOK
  <1>1. /\ draining' \in Modes /\ exposure' \in Modes /\ lateResets' \in Nat /\ gwHandle' \in Modes \cup {"none"}
        /\ gwDisk \in Confs /\ gwMeta \in Confs /\ target \in Confs /\ previous \in Modes
    BY <1>0, Zenon DEF gwTailVars, GwTypeOK, Confs
  <1>2. ran' \in BOOLEAN
    BY <1>0, Zenon
  <1>3. /\ Kind \in {"start", "restart", "enable", "disable", "host", "mode"} /\ Head(gwQueue).mode \in Modes
        /\ Tail(gwQueue) # gwQueue
    BY <1>0, GwHead, Zenon
  <1>4. CASE RefreshHost \/ StoreFails
    <2>1. PICK ok \in BOOLEAN : Answer(ok, gwHandle, transitioning) /\ (ok => Kind = "host")
      BY <1>4, Zenon DEF RefreshHost, StoreFails
    <2>2. UNCHANGED <<gwDisk, gwMeta, target, previous>>
      BY <1>4, Zenon DEF RefreshHost, StoreFails, gwConfVars
    <2>3. GwInv' /\ reply'.ok = ok
      BY <1>0, <1>1, <1>2, <2>1, <2>2, RefusedOK, Zenon
    <2> QED
      BY <2>1, <2>3, Zenon DEF HonestAnswer
  <1>5. CASE StartFromStore
    <2>1. gwMeta' = gwDisk /\ target' = gwDisk /\ UNCHANGED <<gwDisk, previous>> /\ Kind = "start"
      BY <1>5, Zenon DEF StartFromStore
    <2>2. CASE gwDisk.enabled
      <3>1. gwStep' = "start" /\ UNCHANGED <<gwQueue, gwCache, reply>>
        BY <1>5, <2>2, Zenon DEF StartFromStore, GoOn
      <3>2. GwInv'
        BY <1>0, <1>1, <1>2, <2>1, <3>1, GwGoesOn, Zenon DEF Steps
      <3> QED
        BY <1>3, <3>1, <3>2, Zenon DEF HonestAnswer
    <2>3. CASE ~gwDisk.enabled
      <3>1. Answer(FALSE, gwHandle, transitioning)
        BY <1>5, <2>3, Zenon DEF StartFromStore
      <3>2. GwInv' /\ reply'.ok = FALSE
        BY <1>0, <1>1, <1>2, <2>1, <3>1, RefusedOK, Zenon
      <3> QED
        BY <3>2, Zenon DEF HonestAnswer
    <2> QED
      BY <2>2, <2>3, Zenon
  <1>6. CASE RestartFromStore
    <2>1. gwMeta' = gwDisk /\ target' = gwDisk /\ UNCHANGED <<gwDisk, previous>> /\ Kind = "restart"
      BY <1>6, Zenon DEF RestartFromStore
    <2>2. CASE gwDisk.enabled
      <3>1. gwStep' = "stop" /\ UNCHANGED <<gwQueue, gwCache, reply>>
        BY <1>6, <2>2, Zenon DEF RestartFromStore, GoOn
      <3>2. GwInv'
        BY <1>0, <1>1, <1>2, <2>1, <3>1, GwGoesOn, Zenon DEF Steps
      <3> QED
        BY <1>3, <3>1, <3>2, Zenon DEF HonestAnswer
    <2>3. CASE ~gwDisk.enabled
      <3>1. Answer(FALSE, gwHandle, transitioning)
        BY <1>6, <2>3, Zenon DEF RestartFromStore
      <3>2. GwInv' /\ reply'.ok = FALSE
        BY <1>0, <1>1, <1>2, <2>1, <3>1, RefusedOK, Zenon
      <3> QED
        BY <3>2, Zenon DEF HonestAnswer
    <2> QED
      BY <2>2, <2>3, Zenon
  <1>7. CASE SetEnabled
    <2>1. CASE Kind = "enable"
      <3>1. /\ gwDisk' = [gwDisk EXCEPT !.enabled = TRUE] /\ target' = gwDisk' /\ UNCHANGED <<gwMeta, previous>>
            /\ gwStep' = "start" /\ UNCHANGED <<gwQueue, gwCache, reply>>
        BY <1>7, <2>1, Zenon DEF SetEnabled, GoOn
      <3>2. gwDisk' \in Confs /\ gwDisk'.mode = gwDisk.mode
        BY <1>1, <3>1, Zenon DEF Confs
      <3>3. GwInv'
        BY <1>0, <1>1, <1>2, <2>1, <3>1, <3>2, GwGoesOn, Zenon DEF Steps
      <3> QED
        BY <1>3, <3>1, <3>3, Zenon DEF HonestAnswer
    <2>2. CASE Kind = "disable"
      <3>1. UNCHANGED <<gwDisk, gwMeta, target, previous>> /\ gwStep' = "stop" /\ UNCHANGED <<gwQueue, gwCache, reply>>
        BY <1>7, <2>2, Zenon DEF SetEnabled, GoOn, gwConfVars
      <3>2. GwInv'
        BY <1>0, <1>1, <1>2, <2>2, <3>1, GwGoesOn, Zenon DEF Steps
      <3> QED
        BY <1>3, <3>1, <3>2 DEF HonestAnswer
    <2> QED
      BY <1>7, <2>1, <2>2, Zenon DEF SetEnabled
  <1>8. CASE SetTailscaleMode
    <2>1. /\ Kind = "mode" /\ previous' = gwMeta.mode /\ target' = gwDisk'
          /\ gwDisk' = [gwDisk EXCEPT !.mode = Head(gwQueue).mode]
          /\ gwMeta' = [gwMeta EXCEPT !.mode = Head(gwQueue).mode]
      BY <1>8, Zenon DEF SetTailscaleMode
    <2>2. /\ gwDisk' \in Confs /\ gwMeta' \in Confs /\ previous' \in Modes
          /\ gwDisk'.mode = Head(gwQueue).mode
      BY <1>1, <1>3, <2>1, Zenon DEF Confs
    <2>3. CASE gwHandle = "none"
      <3>1. Answer(TRUE, gwHandle, transitioning)
        BY <1>8, <2>3, Zenon DEF SetTailscaleMode
      <3>2. GwInv' /\ reply'.ok = TRUE
        BY <1>0, <1>2, <2>1, <2>2, <2>3, <3>1, RefusedOK, Zenon
      <3>3. ran' = FALSE
        BY <1>0, <2>3, Zenon
      <3> QED
        BY <2>1, <2>2, <3>2, <3>3, Zenon DEF HonestAnswer
    <2>4. CASE gwHandle # "none"
      <3>1. gwStep' = "stop" /\ UNCHANGED <<gwQueue, gwCache, reply>>
        BY <1>8, <2>4, Zenon DEF SetTailscaleMode, GoOn
      <3>2. GwInv'
        BY <1>0, <1>1, <1>2, <2>1, <2>2, <3>1, GwGoesOn, Zenon DEF Steps
      <3> QED
        BY <1>3, <3>1, <3>2, Zenon DEF HonestAnswer
    <2> QED
      BY <2>3, <2>4, Zenon
  <1> QED
    BY <1>4, <1>5, <1>6, <1>7, <1>8, Zenon DEF BeginOperation

\* What the awaits of an operation know.
LEMMA GwUnderWay ==
    ASSUME GwInv, gwStep # "idle"
    PROVE  /\ gwQueue # <<>> /\ Tail(gwQueue) # gwQueue
           /\ gwDisk \in Confs /\ gwMeta \in Confs /\ target \in Confs /\ previous \in Modes
           /\ draining \in Modes /\ exposure \in Modes /\ lateResets \in Nat /\ ran \in BOOLEAN
           /\ gwHandle \in Modes \cup {"none"} /\ transitioning \in BOOLEAN
           /\ Kind # "disable" => target.mode = gwDisk.mode
           /\ Kind = "mode" => gwDisk.mode = Head(gwQueue).mode
  <1>1. gwQueue # <<>> /\ GwTypeOK
    BY Zenon DEF GwInv, GatewayFacts
  <1>2. Tail(gwQueue) # gwQueue
    BY <1>1, GwHead, Zenon
  <1> QED
    BY <1>1, <1>2, Zenon DEF GwInv, GatewayFacts, GwTypeOK, Confs

LEMMA ResetsTyped == \A mode : Resets(mode) \in Nat
    BY Zenon DEF Resets

LEMMA TakeHandleOK == ASSUME GwInv, TakeHandle PROVE GwInv' /\ HonestAnswer
  <1>1. /\ gwStep = "stop" /\ gwHandle' = "none" /\ UNCHANGED <<gwDisk, gwMeta, target, previous, exposure, lateResets, ran>>
        /\ UNCHANGED <<gwQueue, gwCache, reply>>
    BY Zenon DEF TakeHandle, GoOn, gwConfVars
  <1>2. ~transitioning /\ Kind \in {"restart", "disable", "mode"}
    BY <1>1, Zenon DEF GwInv, GatewayFacts
  <1>3. \/ gwStep' = "stopped" /\ UNCHANGED <<draining, transitioning>>
        \/ gwStep' = "draining" /\ draining' = gwHandle /\ transitioning' = TRUE /\ gwHandle # "none"
    BY Zenon DEF TakeHandle, GoOn
  <1>4. /\ draining' \in Modes /\ gwStep' \in {"stopped", "draining"} /\ transitioning' \in BOOLEAN
        /\ transitioning' <=> gwStep' = "draining"
    <2>1. draining \in Modes /\ transitioning = FALSE /\ gwHandle \in Modes \cup {"none"}
      BY <1>1, <1>2, GwUnderWay, Zenon
    <2> QED
      BY <1>3, <2>1, Zenon
  <1>5. GwInv'
    BY <1>1, <1>2, <1>4, GwUnderWay, GwGoesOn, Zenon DEF Steps
  <1> QED
    BY <1>1, <1>5, GwUnderWay, Zenon DEF HonestAnswer

LEMMA StopEndsOK == ASSUME GwInv, StopEnds PROVE GwInv' /\ HonestAnswer
  <1>1. /\ gwStep = "draining" /\ transitioning' = FALSE /\ gwStep' = "stopped" /\ UNCHANGED <<gwQueue, gwCache, reply>>
        /\ UNCHANGED <<gwDisk, gwMeta, target, previous, gwHandle, draining, lateResets, ran>>
        /\ exposure' \in {exposure} \cup {"off"}
    BY Zenon DEF StopEnds, GoOn, gwConfVars
  <1>2. gwHandle = "none" /\ Kind \in {"restart", "disable", "mode"}
    BY <1>1, Zenon DEF GwInv, GatewayFacts
  <1>3. exposure' \in Modes
    BY <1>1, GwUnderWay, Zenon DEF Modes
  <1>4. GwInv'
    BY <1>1, <1>2, <1>3, GwUnderWay, GwGoesOn, Zenon DEF Steps
  <1> QED
    BY <1>1, <1>4, GwUnderWay, Zenon DEF HonestAnswer

LEMMA StopFailsOK == ASSUME GwInv, StopFails PROVE GwInv' /\ HonestAnswer
  <1>1. /\ gwStep = "draining" /\ transitioning' = FALSE /\ lateResets' = lateResets + Resets(draining)
        /\ UNCHANGED <<gwDisk, gwMeta, target, previous, gwHandle, draining, exposure, ran>>
    BY Zenon DEF StopFails, gwConfVars
  <1>2. gwHandle = "none" /\ Kind \in {"restart", "disable", "mode"}
    BY <1>1, Zenon DEF GwInv, GatewayFacts
  <1>3. lateResets' \in Nat
    BY <1>1, GwUnderWay, ResetsTyped
  <1>4. CASE Kind = "disable"
    <2>1. /\ gwQueue' = Tail(gwQueue) /\ gwStep' = "idle" /\ reply' = [command |-> Head(gwQueue), ok |-> FALSE]
          /\ gwCache' = [running |-> gwHandle' # "none", transitioning |-> FALSE]
      BY <1>1, <1>4, Zenon DEF StopFails, Answer
    <2>2. GwInv'
      BY <1>1, <1>2, <1>3, <2>1, GwUnderWay, GwAnswered, Zenon
    <2> QED
      BY <2>1, <2>2, Zenon DEF HonestAnswer
  <1>5. CASE Kind # "disable"
    <2>1. gwStep' = "stopped" /\ UNCHANGED <<gwQueue, gwCache, reply>>
      BY <1>5, Zenon DEF StopFails, GoOn
    <2>2. GwInv'
      BY <1>1, <1>2, <1>3, <2>1, GwUnderWay, GwGoesOn, Zenon DEF Steps
    <2> QED
      BY <1>1, <2>1, <2>2, GwUnderWay, Zenon DEF HonestAnswer
  <1> QED
    BY <1>4, <1>5, Zenon

\* An answer with the gateway down.
LEMMA AnsweredDown ==
    ASSUME GwInv, gwStep # "idle", NEW ok \in BOOLEAN, Answer(ok, gwHandle, transitioning),
           gwHandle = "none", gwHandle' = gwHandle, ~transitioning, transitioning' = transitioning,
           gwDisk' \in Confs, gwMeta' \in Confs, UNCHANGED <<target, previous, gwTailVars, ran>>
    PROVE  GwInv' /\ reply'.ok = ok
  <1>1. transitioning = FALSE
    BY GwUnderWay, Zenon
  <1>2. /\ gwQueue' = Tail(gwQueue) /\ gwStep' = "idle" /\ reply' = [command |-> Head(gwQueue), ok |-> ok]
        /\ gwCache' = [running |-> gwHandle' # "none", transitioning |-> FALSE]
    BY <1>1, Zenon DEF Answer
  <1> QED
    BY <1>1, <1>2, GwUnderWay, GwAnswered, Zenon DEF gwTailVars

LEMMA AfterStopOK == ASSUME GwInv, AfterStop PROVE GwInv' /\ HonestAnswer
  <1>1. gwStep = "stopped" /\ UNCHANGED <<target, previous, gwHandle, transitioning, gwTailVars, ran>>
    BY Zenon DEF AfterStop
  <1>2. gwHandle = "none" /\ ~transitioning
    BY <1>1, Zenon DEF GwInv, GatewayFacts
  <1>3. CASE /\ Kind = "disable" /\ Answer(TRUE, gwHandle, transitioning)
             /\ gwDisk' = [gwDisk EXCEPT !.enabled = FALSE] /\ gwMeta' = [gwMeta EXCEPT !.enabled = FALSE]
    <2>1. gwDisk' \in Confs /\ gwMeta' \in Confs /\ gwDisk'.enabled = FALSE
      BY <1>1, <1>3, GwUnderWay, Zenon DEF Confs
    <2>2. GwInv' /\ reply'.ok = TRUE
      BY <1>1, <1>2, <1>3, <2>1, AnsweredDown, Zenon
    <2> QED
      BY <1>1, <1>2, <1>3, <2>1, <2>2, Zenon DEF HonestAnswer
  <1>4. CASE Kind = "disable" /\ Answer(FALSE, gwHandle, transitioning) /\ UNCHANGED <<gwDisk, gwMeta>>
    <2>1. GwInv' /\ reply'.ok = FALSE
      BY <1>1, <1>2, <1>4, GwUnderWay, AnsweredDown, Zenon
    <2> QED
      BY <2>1, Zenon DEF HonestAnswer
  <1>5. CASE Kind = "mode" /\ ~target.enabled /\ Answer(TRUE, gwHandle, transitioning) /\ UNCHANGED <<gwDisk, gwMeta>>
    <2>1. GwInv' /\ reply'.ok = TRUE
      BY <1>1, <1>2, <1>5, GwUnderWay, AnsweredDown, Zenon
    <2>2. gwDisk'.mode = Head(gwQueue).mode /\ target' = target
      BY <1>1, <1>5, GwUnderWay, Zenon
    <2> QED
      BY <1>5, <2>1, <2>2, Zenon DEF HonestAnswer
  <1>6. CASE Kind \in {"restart", "mode"} /\ GoOn("start") /\ UNCHANGED <<gwDisk, gwMeta>>
    <2>1. gwStep' = "start" /\ UNCHANGED <<gwQueue, gwCache, reply>>
      BY <1>6, Zenon DEF GoOn
    <2>2. GwInv'
      BY <1>1, <1>2, <1>6, <2>1, GwUnderWay, GwGoesOn, Zenon DEF Steps, gwTailVars
    <2> QED
      BY <1>1, <2>1, <2>2, GwUnderWay, Zenon DEF HonestAnswer
  <1> QED
    BY <1>3, <1>4, <1>5, <1>6, Zenon DEF AfterStop

LEMMA StartFromConfigOK == ASSUME GwInv, StartFromConfig PROVE GwInv' /\ HonestAnswer
  <1>1. gwStep = "start" /\ UNCHANGED <<target, previous, gwTailVars, ran>>
    BY Zenon DEF StartFromConfig
  <1>2. /\ transitioning = FALSE /\ (gwHandle # "none" => gwHandle = gwDisk.mode)
        /\ Kind \in {"start", "restart", "enable", "mode"} /\ target.mode = gwDisk.mode
    BY <1>1, GwUnderWay, Zenon DEF GwInv, GatewayFacts
  <1>3. CASE gwHandle = "none" /\ StartFails
    <2>1. /\ gwMeta' = [target EXCEPT !.mode = IF Kind = "mode" THEN previous ELSE @]
          /\ gwDisk' \in {gwDisk, [gwDisk EXCEPT !.mode = previous]}
          /\ Answer(FALSE, gwHandle, transitioning) /\ UNCHANGED <<gwHandle, transitioning>>
      BY <1>3, Zenon DEF StartFails
    <2>2. gwDisk' \in Confs
      BY <1>1, <2>1, GwUnderWay DEF Confs
    <2>3. gwMeta' \in Confs
      BY <1>1, <2>1, GwUnderWay, Zenon DEF Confs
    <2>4. GwInv' /\ reply'.ok = FALSE
      BY <1>1, <1>2, <1>3, <2>1, <2>2, <2>3, AnsweredDown, Zenon
    <2> QED
      BY <2>4, Zenon DEF HonestAnswer
  <1>4. CASE /\ gwHandle # "none" \/ target.mode = "off"
             /\ gwHandle' = IF gwHandle = "none" THEN "off" ELSE gwHandle
             /\ gwMeta' = target
             /\ Answer(TRUE, gwHandle', transitioning)
             /\ UNCHANGED <<gwDisk, transitioning>>
    <2>1. /\ gwQueue' = Tail(gwQueue) /\ gwStep' = "idle" /\ reply' = [command |-> Head(gwQueue), ok |-> TRUE]
          /\ gwCache' = [running |-> gwHandle' # "none", transitioning |-> FALSE] /\ transitioning' = FALSE
      BY <1>2, <1>4, Zenon DEF Answer
    <2>2. gwHandle' \in Modes /\ gwHandle' = gwDisk.mode /\ gwHandle' # "none"
      BY <1>1, <1>2, <1>4, GwUnderWay, ZenonT(30) DEF Confs, Modes
    <2>3. GwInv'
      BY <1>1, <1>4, <2>1, <2>2, GwUnderWay, GwAnswered, Zenon DEF gwTailVars
    <2>4. Kind = "mode" => gwDisk'.mode = Head(gwQueue).mode
      BY <1>1, <1>4, GwUnderWay, Zenon
    <2> QED
      BY <1>2, <2>2, <2>3, <2>4, Zenon DEF HonestAnswer
  <1>5. CASE /\ gwHandle = "none" /\ target.mode # "off" /\ gwMeta' = target /\ transitioning' = TRUE
             /\ GoOn("expose") /\ UNCHANGED <<gwDisk, gwHandle>>
    <2>1. gwStep' = "expose" /\ UNCHANGED <<gwQueue, gwCache, reply>>
      BY <1>5 DEF GoOn
    <2>2. GwInv'
      BY <1>1, <1>2, <1>5, <2>1, GwUnderWay, GwGoesOn, Zenon DEF Steps, gwTailVars
    <2> QED
      BY <1>1, <2>1, <2>2, GwUnderWay, Zenon DEF HonestAnswer
  <1> QED
    BY <1>3, <1>4, <1>5, Zenon DEF StartFromConfig

LEMMA ExposeEndsOK == ASSUME GwInv, ExposeEnds PROVE GwInv' /\ HonestAnswer
  <1>1. /\ gwStep = "expose" /\ gwHandle' = target.mode /\ transitioning' = FALSE /\ exposure' \in {exposure, target.mode}
        /\ UNCHANGED <<gwDisk, gwMeta, target, previous, draining, lateResets, ran>>
        /\ gwQueue' = Tail(gwQueue) /\ gwStep' = "idle" /\ reply' = [command |-> Head(gwQueue), ok |-> TRUE]
        /\ gwCache' = [running |-> gwHandle' # "none", transitioning |-> FALSE]
    BY Zenon DEF ExposeEnds, Answer, gwConfVars
  <1>2. Kind \in {"start", "restart", "enable", "mode"} /\ target.mode = gwDisk.mode
    BY <1>1, GwUnderWay, Zenon DEF GwInv, GatewayFacts
  <1>3. target.mode \in Modes /\ gwHandle' # "none" /\ exposure' \in Modes
    BY <1>1, GwUnderWay, Zenon DEF Confs, Modes
  <1>4. GwInv'
    BY <1>1, <1>2, <1>3, GwUnderWay, GwAnswered, Zenon
  <1>5. Kind = "mode" => gwDisk'.mode = Head(gwQueue).mode
    BY <1>1, GwUnderWay, Zenon
  <1> QED
    BY <1>2, <1>3, <1>4, <1>5, Zenon DEF HonestAnswer

LEMMA OperationTimesOutOK == ASSUME GwInv, OperationTimesOut PROVE GwInv' /\ HonestAnswer
  <1>1. /\ gwStep \in {"draining", "expose"} /\ transitioning' = FALSE
        /\ UNCHANGED <<gwDisk, gwMeta, target, previous, gwHandle, draining, ran>>
        /\ gwQueue' = Tail(gwQueue) /\ gwStep' = "idle" /\ reply' = [command |-> Head(gwQueue), ok |-> FALSE]
        /\ gwCache' = [running |-> gwHandle' # "none", transitioning |-> FALSE]
        /\ lateResets' \in {lateResets, lateResets + Resets(draining)} /\ exposure' \in {exposure, target.mode}
    BY Zenon DEF OperationTimesOut, Answer, gwConfVars
  <1>2. gwHandle = "none"
    BY <1>1, Zenon DEF GwInv, GatewayFacts
  <1>3. lateResets' \in Nat /\ exposure' \in Modes
    BY <1>1, GwUnderWay, ResetsTyped DEF Confs
  <1>4. GwInv'
    BY <1>1, <1>2, <1>3, GwUnderWay, GwAnswered, Zenon
  <1> QED
    BY <1>1, <1>4, Zenon DEF HonestAnswer

LEMMA LateResetOK == ASSUME GwInv, LateReset \/ UNCHANGED gwVars PROVE GwInv'
  <1> USE DEF GwInv
  <1>1. UNCHANGED <<gwDisk, gwMeta, target, previous, gwHandle, transitioning, gwQueue, gwStep, draining, gwCache, reply, ran>>
    BY Zenon DEF LateReset, gwVars, gwConfVars, gwTailVars
  <1>2. lateResets' \in Nat /\ exposure' \in Modes
    BY DEF LateReset, gwVars, gwTailVars, GwTypeOK, Modes
  <1>3. GwTypeOK'
    BY <1>1, <1>2 DEF GwTypeOK
  <1>4. Kind' = Kind
    BY <1>1, Zenon DEF Kind
  <1>5. GatewayFacts'
    BY <1>1, <1>4, Zenon DEF GatewayFacts
  <1> QED
    BY <1>3, <1>5, Zenon

LEMMA GwAction == GwInv /\ [GwNext]_gwVars => GwInv' /\ [HonestAnswer]_gwVars
  <1> SUFFICES ASSUME GwInv, [GwNext]_gwVars PROVE GwInv' /\ [HonestAnswer]_gwVars
    BY Zenon
  <1>1. CASE UNCHANGED gwVars
    BY <1>1, LateResetOK, Zenon
  <1>2. ASSUME NEW c \in GwCommands, SubmitGateway(c) PROVE GwInv' /\ HonestAnswer
    <2>1. gwQueue # <<>> => gwQueue' # Tail(gwQueue)
      BY <1>2, GwHead, Zenon DEF SubmitGateway, GwInv
    <2> QED
      BY <1>2, <2>1, SubmitGatewayOK, Zenon DEF HonestAnswer
  <1>3. CASE SaveEnabled \/ GetGatewayStatus \/ LateReset
    <2>1. gwQueue # <<>> => gwQueue' # Tail(gwQueue)
      BY <1>3, GwHead, Zenon DEF SaveEnabled, GetGatewayStatus, LateReset, GwInv
    <2> QED
      BY <1>3, <2>1, SaveEnabledOK, GetGatewayStatusOK, LateResetOK, Zenon DEF HonestAnswer
  <1>4. CASE GwStep \/ StopEnds \/ StopFails \/ ExposeEnds
    BY <1>4, BeginOperationOK, TakeHandleOK, AfterStopOK, StartFromConfigOK, OperationTimesOutOK, StopEndsOK,
       StopFailsOK, ExposeEndsOK, Zenon DEF GwStep
  <1> QED
    BY <1>1, <1>2, <1>3, <1>4, Zenon DEF GwNext

\* The inductive invariant of the gateway's lifecycle: at every await of an
\* operation the handle, the file and the operation's own copy of it agree.
THEOREM GwInvariant == GwSpec => []GwInv
  <1>1. GwInv /\ [GwNext]_gwVars => GwInv'
    BY GwAction, Zenon
  <1> QED
    BY <1>1, GwStart, PTL DEF GwSpec

\* GatewayManager's fields and the cached status stay within their types.
THEOREM GwTypeCorrect == GwSpec => []GwTypeOK
  <1>1. GwInv => GwTypeOK
    BY Zenon DEF GwInv
  <1> QED
    BY <1>1, GwInvariant, PTL

\* For any number of commands: however set_tailscale_mode fails, reverts or times
\* out, between two operations a running gateway runs with the mode of the file.
THEOREM SavedModeSafety == GwSpec => []RunsSavedMode
  <1>1. GwInv => RunsSavedMode
    BY Zenon DEF GwInv, GatewayFacts, RunsSavedMode
  <1> QED
    BY <1>1, GwInvariant, PTL

\* For any number of commands: mark_operation_timed_out leaves no manager
\* transitioning, and the status cache is right once every command is answered.
THEOREM StatusSafety == GwSpec => []StatusSettled
  <1>1. GwInv => StatusSettled
    BY Zenon DEF GwInv, GatewayFacts, StatusSettled
  <1> QED
    BY <1>1, GwInvariant, PTL

\* For any number of commands: a start, restart, enable, disable or mode switch
\* that run_gateway_operation_with_timeout reports as done has had its effect.
THEOREM AnswerSafety == GwSpec => AnswerTruthful
  <1>1. GwInv /\ [GwNext]_gwVars => [HonestAnswer]_gwVars
    BY GwAction, Zenon
  <1> QED
    BY <1>1, GwInvariant, PTL DEF GwSpec, AnswerTruthful

=============================================================================
