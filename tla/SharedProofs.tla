---------------------------- MODULE SharedProofs ----------------------------
(***************************************************************************)
(* Proofs about state that several parties read and write back, for any    *)
(* number of them: the summary of a session and the history a model is     *)
(* shown, the configuration file, and the manifest of installed skills.    *)
(***************************************************************************)
EXTENDS SessionTurn, ConfigStore, SkillStore, FiniteSetTheorems, TLAPS

----------------------------------------------------------------------------
(* The turns of a chat.                                                    *)

\* What a turn knows of a session whose compressions all gave a summary.  A
\* compression that is due starts from a summary of the first `from` records.
TurnFacts(t) ==
  runs[t].session \notin skipped =>
    /\ runs[t].pc = "compress" => /\ runs[t].summary.covers = 1 .. runs[t].from
                                 /\ runs[t].from <= runs[t].len
    /\ runs[t].pc \in {"append", "run"} =>
         1 .. runs[t].len \subseteq
           runs[t].summary.covers \union Window(runs[t].len, runs[t].summary.has)

TurnInv ==
  /\ TurnTypeOK
  /\ SummaryFaithful
  /\ \A t \in Turns : TurnFacts(t)

LEMMA TurnStart0 == TurnInit => TurnInv
  <1> SUFFICES ASSUME TurnInit PROVE TurnInv
    BY Zenon
  <1>1. NoSummary \in Summaries /\ NoSummary.covers = 1 .. 0
    BY DEF NoSummary, Summaries
  <1>2. /\ NoCompression \in [len : Nat, summary : Summaries]
        /\ NoCompression.len = 0 /\ NoCompression.summary = NoSummary
    BY <1>1, Zenon DEF NoCompression
  <1>3. /\ 1 \in Sessions
        /\ NoRun \in [pc : {"idle", "read", "refresh", "compress", "append", "run"},
                      session : Sessions, len : Nat, from : Nat, summary : Summaries]
        /\ NoRun.pc = "idle" /\ NoRun.session = 1 /\ NoRun.len = 0
    BY <1>1, TurnAssumption DEF NoRun, Sessions
  <1>4. TurnTypeOK
    BY <1>2, <1>3 DEF TurnInit, TurnTypeOK
  <1>5. SummaryFaithful
    BY <1>1, <1>2, Zenon DEF TurnInit, SummaryFaithful
  <1>6. ASSUME NEW t \in Turns PROVE TurnFacts(t)
    BY <1>3, Zenon DEF TurnInit, TurnFacts
  <1> QED
    BY <1>4, <1>5, <1>6, Zenon DEF TurnInv

\* What the window leaves out is at most what a summary of `last` records has,
\* when no compression is due.
LEMMA WindowReaches ==
  ASSUME NEW len \in Nat, NEW last \in Nat, NEW has \in BOOLEAN, limit \in Nat,
         ~Triggers(last, len)
  PROVE  /\ limit = 0 => Window(len, has) = 1 .. len
         /\ limit # 0 => 1 .. len \subseteq (1 .. last) \union Window(len, has)
  <1>1. CASE limit = 0
    BY <1>1 DEF Window, Newest
  <1>2. CASE limit # 0
    <2>1. len < last + Half(limit)
      BY <1>2 DEF Triggers, Half
    <2>2. Half(limit) \in Nat /\ Half(limit) <= limit /\ Half(limit) >= 1
      BY <1>2 DEF Half
    <2>3. \A n \in Nat : n # 0 /\ n + 1 >= Half(limit) =>
            1 .. len \subseteq (1 .. last) \union Newest(len, n)
      BY <2>1, <2>2 DEF Newest
    <2>4. PICK n \in Nat : n # 0 /\ n + 1 >= limit /\ Window(len, has) = Newest(len, n)
      BY <1>2 DEF Window
    <2> QED
      BY <1>2, <2>2, <2>3, <2>4
  <1> QED
    BY <1>1, <1>2, Zenon

\* A turn that a step leaves alone keeps its facts: skipped only grows.
LEMMA TurnFactsKept ==
  ASSUME NEW u \in Turns, TurnFacts(u), runs'[u] = runs[u], limit' = limit,
         skipped \subseteq skipped'
  PROVE  TurnFacts(u)'
  BY Zenon DEF TurnFacts, Window, Newest

RunStates == [pc : {"idle", "read", "refresh", "compress", "append", "run"},
              session : Sessions, len : Nat, from : Nat, summary : Summaries]

\* The same for a step that gives turn t the local state r.
LEMMA TurnMoves ==
  ASSUME TurnInv, NEW t \in Turns, NEW r \in RunStates, runs' = [runs EXCEPT ![t] = r],
         limit' = limit, skipped \subseteq skipped', TurnTypeOK', SummaryFaithful', TurnFacts(t)'
  PROVE  TurnInv'
  <1>1. ASSUME NEW u \in Turns, u # t PROVE TurnFacts(u)'
    BY <1>1, TurnFactsKept, Zenon DEF TurnInv, TurnTypeOK
  <1> QED
    BY <1>1, Zenon DEF TurnInv

LEMMA StartedOK ==
  ASSUME TurnInv, NEW t \in Turns, NEW s \in Sessions, StartTurn(t, s),
         s <= sessionCount', sessionCount' \in Sessions, sessionCount <= sessionCount',
         active' \in 1 .. sessionCount', UNCHANGED <<limit, records, compression, skipped>>
  PROVE  TurnInv'
  <1>0. TurnTypeOK /\ SummaryFaithful
    BY Zenon DEF TurnInv
  <1>1. MaxSessions \in Nat /\ sessionCount \in Sessions
    BY <1>0, TurnAssumption, Zenon DEF TurnTypeOK
  <1> DEFINE r == [NoRun EXCEPT !.pc = "read", !.session = s]
  <1>2. r \in RunStates /\ r.session = s /\ r.len = 0 /\ r.pc = "read"
    BY Zenon DEF NoRun, RunStates, NoSummary, Summaries
  <1>4. runs' = [runs EXCEPT ![t] = r]
    BY Zenon DEF StartTurn
  <1> HIDE DEF r
  <1>5. TurnTypeOK'
    <2>1. ASSUME NEW u \in Turns
          PROVE  runs'[u].session <= sessionCount' /\ runs'[u].len <= records'[runs'[u].session]
      <3>1. runs'[u] = IF u = t THEN r ELSE runs[u]
        BY <1>0, <1>4, Zenon DEF TurnTypeOK
      <3>2. CASE u = t
        <4>1. records[s] \in Nat
          BY <1>0, Zenon DEF TurnTypeOK
        <4> QED
          BY <1>2, <3>1, <3>2, <4>1
      <3>3. CASE u # t
        <4>1. /\ runs[u].session \in Sessions /\ runs[u].session <= sessionCount
              /\ runs[u].len <= records[runs[u].session]
          BY <1>0, Zenon DEF TurnTypeOK
        <4>2. runs[u].session <= sessionCount'
          BY <1>1, <4>1 DEF Sessions
        <4> QED
          BY <3>1, <3>3, <4>1, <4>2, Zenon
      <3> QED
        BY <3>2, <3>3, Zenon
    <2>2. runs' \in [Turns -> RunStates]
      BY <1>0, <1>2, <1>4, Zenon DEF TurnTypeOK, RunStates
    <2> QED
      BY <1>0, <2>1, <2>2, Zenon DEF TurnTypeOK, RunStates
  <1>6. SummaryFaithful'
    BY <1>0, Zenon DEF SummaryFaithful
  <1>7. TurnFacts(t)'
    BY <1>0, <1>2, <1>4, Zenon DEF TurnFacts, TurnTypeOK
  <1> QED
    BY <1>2, <1>4, <1>5, <1>6, <1>7, TurnMoves, Zenon

LEMMA RoutedOK ==
  ASSUME TurnInv, NEW t \in Turns, RouteTurn(t) \/ NewSession(t)
  PROVE  TurnInv'
  <1>1. sessionCount \in Sessions /\ active \in 1 .. sessionCount /\ MaxSessions \in Nat
    BY TurnAssumption, Zenon DEF TurnInv, TurnTypeOK
  <1>2. CASE RouteTurn(t)
    <2>1. active \in Sessions /\ active <= sessionCount /\ sessionCount <= sessionCount
      BY <1>1 DEF Sessions
    <2> QED
      BY <1>1, <1>2, <2>1, StartedOK, Zenon DEF RouteTurn
  <1>3. CASE NewSession(t)
    <2>1. /\ sessionCount + 1 \in Sessions /\ sessionCount <= sessionCount + 1
          /\ sessionCount + 1 \in 1 .. sessionCount + 1 /\ sessionCount + 1 <= sessionCount + 1
      BY <1>1, <1>3 DEF Sessions, NewSession
    <2> QED
      BY <1>3, <2>1, StartedOK, Zenon DEF NewSession
  <1> QED
    BY <1>2, <1>3, Zenon

LEMMA ReadOK ==
  ASSUME TurnInv, NEW t \in Turns, ReadHistory(t)
  PROVE  TurnInv'
  <1>0. TurnTypeOK /\ SummaryFaithful /\ runs[t] \in RunStates /\ runs \in [Turns -> RunStates]
    BY Zenon DEF TurnInv, TurnTypeOK, RunStates
  <1> DEFINE r == [runs[t] EXCEPT !.pc = "refresh", !.len = records[runs[t].session]]
  <1>1. /\ r \in RunStates /\ r.session = runs[t].session /\ r.pc = "refresh"
        /\ r.len = records[r.session]
    BY <1>0, Zenon DEF TurnTypeOK, RunStates
  <1>2. UNCHANGED <<limit, active, sessionCount, records, compression, skipped>>
    BY Zenon DEF ReadHistory
  <1>3. runs' = [runs EXCEPT ![t] = r]
    BY <1>0, Zenon DEF ReadHistory
  <1> HIDE DEF r
  <1>4. TurnTypeOK'
    BY <1>0, <1>1, <1>2, <1>3 DEF TurnTypeOK, RunStates
  <1>5. SummaryFaithful' /\ TurnFacts(t)'
    BY <1>0, <1>1, <1>2, <1>3, Zenon DEF SummaryFaithful, TurnFacts
  <1> QED
    BY <1>1, <1>2, <1>3, <1>4, <1>5, TurnMoves, Zenon

LEMMA ReadCompressionOK ==
  ASSUME TurnInv, NEW t \in Turns, NEW found \in BOOLEAN, ReadCompression(t, found)
  PROVE  TurnInv'
  <1>0. TurnTypeOK /\ SummaryFaithful /\ runs[t] \in RunStates /\ runs \in [Turns -> RunStates]
    BY Zenon DEF TurnInv, TurnTypeOK, RunStates
  <1>1. runs[t].session \in Sessions /\ runs[t].len \in Nat /\ limit \in Nat
    BY <1>0, TurnAssumption, Zenon DEF RunStates, TurnTypeOK
  <1> DEFINE c == IF found THEN compression[runs[t].session] ELSE NoCompression
             pc == IF runs[t].len > 0 /\ Triggers(c.len, runs[t].len) THEN "compress" ELSE "append"
             sum == IF limit = 0 \/ runs[t].len = 0 THEN NoSummary ELSE c.summary
             r == [runs[t] EXCEPT !.pc = pc, !.from = c.len, !.summary = sum]
  <1>2. NoSummary \in Summaries /\ NoSummary.covers = {}
    BY Zenon DEF NoSummary, Summaries
  <1>3. /\ c.len \in Nat /\ c.summary \in Summaries
        /\ runs[t].session \notin skipped => c.summary.covers = 1 .. c.len
    <2>1. CASE found
      BY <1>0, <1>1, <2>1, Zenon DEF TurnTypeOK, SummaryFaithful
    <2>2. CASE ~found
      BY <1>2, <2>2 DEF NoCompression
    <2> QED
      BY <2>1, <2>2, Zenon
  <1>4. UNCHANGED <<limit, active, sessionCount, records, compression, skipped>>
    BY Zenon DEF ReadCompression
  <1>5. runs' = [runs EXCEPT ![t] = r]
    BY <1>0, Zenon DEF ReadCompression
  <1> HIDE DEF c
  <1>6. /\ pc \in {"compress", "append"} /\ sum \in Summaries
        /\ pc = "compress" => runs[t].len > 0 /\ Triggers(c.len, runs[t].len)
        /\ pc = "append" => runs[t].len = 0 \/ ~Triggers(c.len, runs[t].len)
    BY <1>1, <1>2, <1>3
  <1> HIDE DEF pc
  <1>7. /\ r \in RunStates /\ r.session = runs[t].session /\ r.pc = pc /\ r.len = runs[t].len
        /\ r.from = c.len /\ r.summary = sum
    <2> HIDE DEF sum
    <2> QED
      BY <1>0, <1>3, <1>6, Zenon DEF RunStates
  <1>8. ASSUME runs[t].session \notin skipped
        PROVE  /\ pc = "compress" => sum.covers = 1 .. c.len /\ c.len <= runs[t].len
               /\ pc = "append" => 1 .. runs[t].len \subseteq sum.covers \union Window(runs[t].len, sum.has)
    <2>1. CASE pc = "compress"
      <3>1. limit # 0 /\ c.len + Half(limit) <= runs[t].len /\ Half(limit) \in Nat /\ runs[t].len # 0
        BY <1>1, <1>3, <1>6, <2>1 DEF Triggers, Half
      <3> QED
        BY <1>1, <1>3, <1>8, <2>1, <3>1
    <2>2. CASE pc = "append" /\ runs[t].len = 0
      BY <2>2
    <2>3. CASE pc = "append" /\ runs[t].len # 0
      <3>1. ~Triggers(c.len, runs[t].len) /\ sum.has \in BOOLEAN
        BY <1>6, <2>3, Zenon DEF Summaries
      <3>2. CASE limit = 0
        BY <1>1, <1>3, <2>3, <3>1, <3>2, WindowReaches, Zenon
      <3>3. CASE limit # 0
        <4>1. sum.covers = 1 .. c.len
          BY <1>3, <1>8, <2>3, <3>3, Zenon
        <4> QED
          BY <1>1, <1>3, <2>3, <3>1, <3>3, <4>1, WindowReaches, Zenon
      <3> QED
        BY <3>2, <3>3, Zenon
    <2> QED
      BY <1>6, <2>1, <2>2, <2>3, Zenon
  <1> HIDE DEF r, sum
  <1>9. TurnTypeOK'
    BY <1>0, <1>4, <1>5, <1>7, Zenon DEF TurnTypeOK, RunStates
  <1>10. SummaryFaithful'
    BY <1>0, <1>4, Zenon DEF SummaryFaithful
  <1>11. runs'[t] = r
    BY <1>0, <1>5, Zenon
  <1>12. TurnFacts(t)'
    BY <1>4, <1>6, <1>7, <1>8, <1>11, Zenon DEF TurnFacts, Window, Newest
  <1> QED
    BY <1>4, <1>5, <1>7, <1>9, <1>10, <1>12, TurnMoves, Zenon

LEMMA IntervalsJoin ==
  ASSUME NEW m \in Nat, NEW n \in Nat, m <= n
  PROVE  (1 .. m) \union (m + 1 .. n) = 1 .. n
  OBVIOUS

LEMMA CompressOK ==
  ASSUME TurnInv, NEW t \in Turns, NEW answer \in {"summary", "unparsed", "failed"},
         NEW stored \in BOOLEAN, Compress(t, answer, stored)
  PROVE  TurnInv'
  <1>0. TurnTypeOK /\ SummaryFaithful /\ TurnFacts(t) /\ runs \in [Turns -> RunStates]
    BY Zenon DEF TurnInv, TurnTypeOK, RunStates
  <1> DEFINE s == runs[t].session
             next == Merged(runs[t].summary, runs[t].from, runs[t].len, answer)
             r == [runs[t] EXCEPT !.pc = "append", !.summary = next]
  <1>1. /\ s \in Sessions /\ runs[t].len \in Nat /\ runs[t].from \in Nat
        /\ runs[t].summary \in Summaries
    BY <1>0, Zenon DEF RunStates
  <1>2. /\ next \in Summaries
        /\ answer = "summary" => next.covers = runs[t].summary.covers \union (runs[t].from + 1 .. runs[t].len)
    <2> DEFINE old == runs[t].summary
               from == runs[t].from
               len == runs[t].len
    <2>1. old \in Summaries /\ from \in Nat /\ len \in Nat
      BY <1>1, Zenon
    <2> HIDE DEF old, from, len
    <2>2. /\ Merged(old, from, len, answer) \in Summaries
          /\ answer = "summary" =>
               Merged(old, from, len, answer).covers = old.covers \union (from + 1 .. len)
      <3>1. CASE answer = "summary"
        BY <2>1, <3>1 DEF Merged, Summaries
      <3>2. CASE answer = "unparsed"
        BY <2>1, <3>2, Zenon DEF Merged, Summaries
      <3>3. CASE answer = "failed"
        BY <2>1, <3>3, Zenon DEF Merged, Summaries
      <3> QED
        BY <3>1, <3>2, <3>3, Zenon
    <2> QED
      BY <2>2, Zenon DEF old, from, len
  <1>3. /\ runs' = [runs EXCEPT ![t] = r] /\ runs[t].pc = "compress"
        /\ compression' = IF stored
              THEN [compression EXCEPT ![s] = [len |-> runs[t].len, summary |-> next]]
              ELSE compression
        /\ skipped' = IF answer = "summary" THEN skipped ELSE skipped \union {s}
        /\ UNCHANGED <<limit, active, sessionCount, records>>
    BY <1>0, Zenon DEF Compress
  <1> HIDE DEF next
  <1>4. r \in RunStates /\ r.session = s /\ r.len = runs[t].len /\ r.pc = "append" /\ r.summary = next
    BY <1>0, <1>2, Zenon DEF RunStates
  <1>5. ASSUME s \notin skipped' PROVE next.covers = 1 .. runs[t].len
    <2>1. answer = "summary" /\ s \notin skipped
      BY <1>3, <1>5, Zenon
    <2>2. runs[t].summary.covers = 1 .. runs[t].from /\ runs[t].from <= runs[t].len
      BY <1>0, <1>3, <2>1, Zenon DEF TurnFacts
    <2> QED
      BY <1>1, <1>2, <2>1, <2>2, IntervalsJoin, Zenon
  <1> HIDE DEF s, r
  <1>6. runs'[t] = r
    BY <1>0, <1>3, Zenon
  <1>7. TurnTypeOK'
    <2>1. /\ runs[t].len <= records[s]
          /\ [len |-> runs[t].len, summary |-> next] \in [len : Nat, summary : Summaries]
      BY <1>0, <1>1, <1>2, Zenon DEF TurnTypeOK, s
    <2>2. /\ compression' \in [Sessions -> [len : Nat, summary : Summaries]]
          /\ \A q \in Sessions : compression'[q].len <= records[q]
      BY <1>0, <1>1, <1>3, <2>1, Zenon DEF TurnTypeOK
    <2>3. /\ runs' \in [Turns -> RunStates]
          /\ \A u \in Turns : runs'[u].session = runs[u].session /\ runs'[u].len = runs[u].len
      BY <1>0, <1>3, <1>4, Zenon DEF s
    <2>4. skipped' \subseteq Sessions
      BY <1>0, <1>1, <1>3, Zenon DEF TurnTypeOK
    <2> QED
      BY <1>0, <1>3, <2>2, <2>3, <2>4, Zenon DEF TurnTypeOK, RunStates
  <1>8. SummaryFaithful'
    <2> SUFFICES ASSUME NEW q \in Sessions, q \notin skipped'
                 PROVE  compression'[q].summary.covers = 1 .. compression'[q].len
      BY Zenon DEF SummaryFaithful
    <2>1. q \notin skipped
      BY <1>3, Zenon
    <2>2. CASE stored /\ q = s
      <3>1. compression'[q] = [len |-> runs[t].len, summary |-> next]
        BY <1>0, <1>1, <1>3, <2>2, Zenon DEF TurnTypeOK
      <3> QED
        BY <1>5, <2>2, <3>1
    <2>3. CASE ~(stored /\ q = s)
      <3>1. compression'[q] = compression[q]
        BY <1>0, <1>3, <2>3, Zenon DEF TurnTypeOK
      <3> QED
        BY <1>0, <2>1, <3>1, Zenon DEF SummaryFaithful
    <2> QED
      BY <2>2, <2>3, Zenon
  <1>9. TurnFacts(t)'
    BY <1>4, <1>5, <1>6, Zenon DEF TurnFacts
  <1> QED
    BY <1>3, <1>4, <1>7, <1>8, <1>9, TurnMoves, Zenon

\* The steps that append to a session's file or end a turn.
LEMMA RecordsOK ==
  ASSUME TurnInv, NEW t \in Turns, NEW r \in RunStates, NEW s \in Sessions,
         runs' = [runs EXCEPT ![t] = r], r.session <= sessionCount, r.len <= records[r.session],
         r.pc \in {"idle", "read"} \/ (r.pc = "run" /\ r = [runs[t] EXCEPT !.pc = "run"] /\ runs[t].pc = "append"),
         records' = [records EXCEPT ![s] = @ + 1] \/ records' = records,
         UNCHANGED <<limit, active, sessionCount, compression, skipped>>
  PROVE  TurnInv'
  <1>0. TurnTypeOK /\ SummaryFaithful /\ TurnFacts(t) /\ runs \in [Turns -> RunStates]
    BY Zenon DEF TurnInv, TurnTypeOK, RunStates
  <1>1. /\ records' \in [Sessions -> Nat]
        /\ \A q \in Sessions : records[q] \in Nat /\ records[q] <= records'[q]
    BY <1>0 DEF TurnTypeOK
  <1>2. runs' \in [Turns -> RunStates] /\ runs'[t] = r
    BY <1>0, Zenon
  <1>3. ASSUME NEW q \in Sessions PROVE compression'[q].len <= records'[q]
    <2>1. compression[q].len \in Nat /\ compression[q].len <= records[q]
      BY <1>0, Zenon DEF TurnTypeOK
    <2> QED
      BY <1>1, <2>1
  <1>4. ASSUME NEW u \in Turns
        PROVE  runs'[u].session <= sessionCount' /\ runs'[u].len <= records'[runs'[u].session]
    <2>1. PICK x \in RunStates : x = runs'[u] /\ x.session <= sessionCount /\ x.len <= records[x.session]
      BY <1>0, <1>2, Zenon DEF TurnTypeOK
    <2>2. x.len \in Nat /\ x.session \in Sessions
      BY Zenon DEF RunStates
    <2> QED
      BY <1>1, <2>1, <2>2
  <1>5. TurnTypeOK'
    BY <1>0, <1>1, <1>2, <1>3, <1>4, Zenon DEF TurnTypeOK, RunStates
  <1>6. SummaryFaithful'
    BY <1>0, Zenon DEF SummaryFaithful
  <1>7. TurnFacts(t)'
    <2>1. CASE r.pc \in {"idle", "read"}
      BY <1>2, <2>1, Zenon DEF TurnFacts
    <2>2. CASE r.pc = "run"
      <3>1. /\ r.session = runs[t].session /\ r.len = runs[t].len /\ r.summary = runs[t].summary
            /\ runs[t].pc = "append"
        BY <1>0, <2>2, Zenon DEF RunStates
      <3> QED
        BY <1>0, <1>2, <2>2, <3>1, Zenon DEF TurnFacts, Window, Newest
    <2> QED
      BY <2>1, <2>2, Zenon
  <1> QED
    BY <1>5, <1>6, <1>7, TurnMoves, Zenon

LEMMA TurnEndsOK ==
  ASSUME TurnInv, NEW t \in Turns,
         AppendUser(t) \/ AbandonTurn(t) \/ \E stored \in BOOLEAN : TurnAnswers(t, stored)
  PROVE  TurnInv'
  <1>0. TurnTypeOK /\ runs \in [Turns -> RunStates] /\ runs[t] \in RunStates
    BY Zenon DEF TurnInv, TurnTypeOK, RunStates
  <1>1. /\ NoRun \in RunStates /\ NoRun.pc = "idle" /\ NoRun.session = 1 /\ NoRun.len = 0
        /\ 1 \in Sessions /\ 0 <= records[1]
    <2>1. 1 \in Sessions
      BY TurnAssumption DEF Sessions
    <2>2. records[1] \in Nat
      BY <1>0, <2>1, Zenon DEF TurnTypeOK
    <2> QED
      BY <2>1, <2>2 DEF NoRun, RunStates, NoSummary, Summaries
  <1>2. /\ runs[t].session \in Sessions /\ runs[t].session <= sessionCount
        /\ runs[t].len <= records[runs[t].session] /\ records \in [Sessions -> Nat]
        /\ 1 <= sessionCount
    BY <1>0, TurnAssumption DEF TurnTypeOK, RunStates, Sessions
  <1>3. CASE AppendUser(t)
    <2> DEFINE r == [runs[t] EXCEPT !.pc = "run"]
    <2>1. r \in RunStates /\ r.pc = "run" /\ r.session = runs[t].session /\ r.len = runs[t].len
      BY <1>0, Zenon DEF RunStates
    <2>2. runs' = [runs EXCEPT ![t] = r]
      BY <1>3, Zenon DEF AppendUser
    <2> QED
      BY <1>2, <1>3, <2>1, <2>2, RecordsOK, Zenon DEF AppendUser
  <1>4. CASE AbandonTurn(t)
    BY <1>1, <1>2, <1>4, RecordsOK, Zenon DEF AbandonTurn
  <1>5. ASSUME NEW stored \in BOOLEAN, TurnAnswers(t, stored) PROVE TurnInv'
    <2>1. records' = [records EXCEPT ![runs[t].session] = @ + 1] \/ records' = records
      BY <1>2, <1>5, Zenon DEF TurnAnswers
    <2> QED
      BY <1>1, <1>2, <1>5, <2>1, RecordsOK, Zenon DEF TurnAnswers
  <1> QED
    BY <1>3, <1>4, <1>5, Zenon

LEMMA ReplyOK ==
  ASSUME TurnInv, NEW s \in Sessions, BackgroundReply(s)
  PROVE  TurnInv'
  <1>0. TurnTypeOK /\ SummaryFaithful
    BY Zenon DEF TurnInv
  <1>1. /\ records' \in [Sessions -> Nat]
        /\ \A q \in Sessions : records[q] \in Nat /\ records[q] <= records'[q]
        /\ UNCHANGED <<limit, active, sessionCount, compression, skipped, runs>>
    BY <1>0 DEF TurnTypeOK, BackgroundReply
  <1>2. ASSUME NEW q \in Sessions PROVE compression[q].len <= records'[q]
    <2>1. compression[q].len \in Nat /\ compression[q].len <= records[q]
      BY <1>0, Zenon DEF TurnTypeOK
    <2> QED
      BY <1>1, <2>1
  <1>3. ASSUME NEW u \in Turns PROVE runs[u].len <= records'[runs[u].session]
    <2>1. /\ runs[u].len \in Nat /\ runs[u].session \in Sessions
          /\ runs[u].len <= records[runs[u].session]
      BY <1>0, Zenon DEF TurnTypeOK
    <2> QED
      BY <1>1, <2>1
  <1>4. TurnTypeOK'
    BY <1>0, <1>1, <1>2, <1>3, Zenon DEF TurnTypeOK
  <1>5. SummaryFaithful' /\ \A u \in Turns : TurnFacts(u)'
    BY <1>0, <1>1, TurnFactsKept, Zenon DEF TurnInv, SummaryFaithful
  <1> QED
    BY <1>4, <1>5, Zenon DEF TurnInv

\* The invariant of the session's history, its compression and the turns that read
\* them holds for any overlapping turns and any history limits.
THEOREM TurnInvariant == TurnSpec => []TurnInv
  <1>1. TurnInv /\ UNCHANGED turnVars => TurnInv'
    BY DEF TurnInv, turnVars, TurnTypeOK, SummaryFaithful, TurnFacts, Window, Newest
  <1>2. TurnInv /\ TurnNext => TurnInv'
    BY RoutedOK, ReadOK, ReadCompressionOK, CompressOK, TurnEndsOK, ReplyOK, Zenon DEF TurnNext
  <1> QED
    BY <1>1, <1>2, TurnStart0, PTL DEF TurnSpec

\* Turns, compression states and files keep their types, and no turn or state
\* counts records that a file does not have.
THEOREM TurnTypeCorrect == TurnSpec => []TurnTypeOK
  <1>1. TurnInv => TurnTypeOK
    BY Zenon DEF TurnInv
  <1> QED
    BY <1>1, TurnInvariant, PTL

\* maybe_refresh_summary, for any number of turns, sessions and records: turns
\* that overwrite each other's state still store a summary of exactly the
\* records that last_compressed_len counts.
THEOREM SummarySafety == TurnSpec => []SummaryFaithful
  <1>1. TurnInv => SummaryFaithful
    BY Zenon DEF TurnInv
  <1> QED
    BY <1>1, TurnInvariant, PTL

\* build_history_for_model, for every limit and every length: the summary and
\* the window together leave nothing out.
THEOREM ContextSafety == TurnSpec => []ContextComplete
  <1>1. TurnInv => ContextComplete
    BY Zenon DEF TurnInv, ContextComplete, TurnFacts
  <1> QED
    BY <1>1, TurnInvariant, PTL

LEMMA NewestBounded ==
  ASSUME NEW len \in Nat, NEW n \in Nat \ {0}
  PROVE  Cardinality(Newest(len, n)) \in Nat /\ Cardinality(Newest(len, n)) <= n
  <1>1. CASE len <= n
    <2>1. Newest(len, n) = 1 .. len
      BY <1>1, Zenon DEF Newest
    <2>2. Cardinality(1 .. len) = IF 1 > len THEN 0 ELSE len - 1 + 1
      BY FS_Interval
    <2> QED
      BY <1>1, <2>1, <2>2
  <1>2. CASE len > n
    <2>1. Newest(len, n) = len - n + 1 .. len
      BY <1>2 DEF Newest
    <2>2. Cardinality(len - n + 1 .. len) = IF len - n + 1 > len THEN 0 ELSE len - (len - n + 1) + 1
      BY FS_Interval
    <2> QED
      BY <1>2, <2>1, <2>2
  <1> QED
    BY <1>1, <1>2

\* build_history_for_model, for every limit above one and every length: what the
\* model is shown stays within the limit.
THEOREM ContextFits == TurnSpec => []ContextBounded
  <1>1. TurnInv => ContextBounded
    <2> SUFFICES ASSUME TurnInv, NEW t \in Turns, limit > 1
                 PROVE  Cardinality(Window(runs[t].len, runs[t].summary.has))
                          + (IF runs[t].summary.has THEN 1 ELSE 0) <= limit
      BY Zenon DEF ContextBounded
    <2> DEFINE len == runs[t].len
               has == runs[t].summary.has
    <2>1. len \in Nat /\ has \in BOOLEAN /\ limit \in Nat
      BY TurnAssumption, Zenon DEF TurnInv, TurnTypeOK, Summaries
    <2> HIDE DEF len, has
    <2>2. /\ Cardinality(Newest(len, limit)) \in Nat /\ Cardinality(Newest(len, limit)) <= limit
          /\ Cardinality(Newest(len, limit - 1)) \in Nat /\ Cardinality(Newest(len, limit - 1)) <= limit - 1
      BY <2>1, NewestBounded
    <2>3. CASE has /\ Cardinality(Newest(len, limit)) >= limit
      <3>1. Window(len, has) = Newest(len, limit - 1)
        <4>1. (IF limit > 1 THEN limit - 1 ELSE limit) = limit - 1 /\ limit > 0
          BY <2>1
        <4> QED
          BY <2>3, <4>1, Zenon DEF Window
      <3>2. Cardinality(Window(len, has)) + (IF has THEN 1 ELSE 0) <= limit
        <4>1. (IF has THEN 1 ELSE 0) = 1
          BY <2>3, Zenon
        <4>2. Cardinality(Window(len, has)) \in Nat /\ Cardinality(Window(len, has)) <= limit - 1
          BY <2>2, <3>1, Zenon
        <4> QED
          BY <2>1, <4>1, <4>2
      <3> QED
        BY <3>2, Zenon DEF len, has
    <2>4. CASE ~(has /\ Cardinality(Newest(len, limit)) >= limit)
      <3>1. Window(len, has) = Newest(len, limit)
        <4>1. CASE ~has
          BY <4>1, Zenon DEF Window
        <4>2. CASE ~(Cardinality(Newest(len, limit)) >= limit)
          BY <4>2, Zenon DEF Window
        <4> QED
          BY <2>4, <4>1, <4>2, Zenon
      <3>2. Cardinality(Window(len, has)) + (IF has THEN 1 ELSE 0) <= limit
        BY <2>1, <2>2, <2>4, <3>1
      <3> QED
        BY <3>2, Zenon DEF len, has
    <2> QED
      BY <2>3, <2>4, Zenon
  <1> QED
    BY <1>1, TurnInvariant, PTL

----------------------------------------------------------------------------
(* The configuration file.                                                 *)

SaveStates == [kind : {"update", "raw", "reset", "migrate"}, store : Stores,
               text : [Settings -> Values], parts : SUBSET Settings,
               phase : {"ready", "filling", "written"}, clean : BOOLEAN]

\* An update whose text nobody wrote past is the file with its own part changed,
\* and a process that does not run saves nothing.
ConfInv ==
  /\ ConfTypeOK
  /\ saving \in [Savers -> SaveStates \cup {NoSave}]
  /\ ~opened => \A t \in Savers : saving[t] = NoSave
  /\ \A t \in Savers :
       saving[t] # NoSave /\ saving[t].kind = "update" /\ saving[t].clean =>
         \A f \in Settings \ saving[t].parts : saving[t].text[f] = file[f]

LEMMA SaveIsSave == ASSUME NEW r \in SaveStates PROVE r # NoSave
  <1>1. r.kind # "none" /\ NoSave.kind = "none"
    BY Zenon DEF SaveStates, NoSave
  <1> QED
    BY <1>1, Zenon

UpdateFacts(t) ==
  saving[t] # NoSave /\ saving[t].kind = "update" /\ saving[t].clean =>
    \A f \in Settings \ saving[t].parts : saving[t].text[f] = file[f]

LEMMA ConfStart == ConfInit => ConfInv
  BY ConfAssumption DEF ConfInit, ConfInv, ConfTypeOK, Defaults

LEMMA CompletedTyped ==
  ASSUME ConfTypeOK
  PROVE  Completed \in [Settings -> Values] /\ Defaults \in [Settings -> Values]
  BY ConfAssumption, Zenon DEF ConfTypeOK, Completed, Defaults

LEMMA SavesOK ==
  ASSUME ConfInv, NEW t \in Savers, NEW s \in Stores, NEW kind \in {"update", "raw", "reset", "migrate"},
         NEW text \in [Settings -> Values], NEW parts \in SUBSET Settings,
         Saves(t, kind, s, text, parts),
         kind = "update" => \A f \in Settings \ parts : text[f] = file[f]
  PROVE  ConfInv'
  <1> DEFINE r == [kind |-> kind, store |-> s, text |-> text, parts |-> parts,
                   phase |-> "ready", clean |-> TRUE]
  <1>1. /\ r \in SaveStates /\ r.kind = kind /\ r.text = text /\ r.parts = parts
        /\ saving' = [saving EXCEPT ![t] = r] /\ saving[t] = NoSave
        /\ opened /\ UNCHANGED <<file, form, opened, snapshot, chosen>>
    BY Zenon DEF SaveStates, Saves
  <1> HIDE DEF r
  <1>2. saving' \in [Savers -> SaveStates \cup {NoSave}]
    BY <1>1, Zenon DEF ConfInv
  <1>3. ASSUME NEW u \in Savers, In(u, "filling") PROVE In(u, "filling")'
    BY <1>1, <1>3, Zenon DEF ConfInv, In
  <1>4. ConfTypeOK'
    BY <1>1, <1>3, Zenon DEF ConfInv, ConfTypeOK
  <1>5. ASSUME NEW u \in Savers PROVE UpdateFacts(u)'
    <2>1. CASE u = t
      BY <1>1, <2>1, Zenon DEF ConfInv, UpdateFacts
    <2>2. CASE u # t
      BY <1>1, <2>2, Zenon DEF ConfInv, UpdateFacts
    <2> QED
      BY <2>1, <2>2, Zenon
  <1> QED
    BY <1>1, <1>2, <1>4, <1>5, Zenon DEF ConfInv, UpdateFacts

LEMMA BeginSaveOK ==
  ASSUME ConfInv, NEW t \in Savers, NEW s \in Stores,
         \/ \E f \in Settings, v \in Values : UpdateConfig(t, s, f, v) \/ SaveRaw(t, s, f, v)
         \/ ResetToDefaults(t, s) \/ Migrate(t, s)
  PROVE  ConfInv'
  <1>0. /\ file \in [Settings -> Values] /\ snapshot[s] \in [Settings -> Values]
        /\ Completed \in [Settings -> Values] /\ Defaults \in [Settings -> Values]
    BY CompletedTyped, Zenon DEF ConfInv, ConfTypeOK
  <1>1. ASSUME NEW f \in Settings, NEW v \in Values, UpdateConfig(t, s, f, v) PROVE ConfInv'
    <2> DEFINE text == [file EXCEPT ![f] = v]
    <2>1. text \in [Settings -> Values] /\ \A g \in Settings \ {f} : text[g] = file[g]
      BY <1>0, Zenon
    <2>2. Saves(t, "update", s, text, {f}) /\ {f} \in SUBSET Settings
      BY <1>1, Zenon DEF UpdateConfig
    <2> HIDE DEF text
    <2> QED
      BY <2>1, <2>2, SavesOK, Zenon
  <1>2. ASSUME NEW f \in Settings, NEW v \in Values, SaveRaw(t, s, f, v) PROVE ConfInv'
    <2> DEFINE text == [snapshot[s] EXCEPT ![f] = v]
    <2>1. text \in [Settings -> Values]
      BY <1>0, Zenon
    <2>2. Saves(t, "raw", s, text, {f}) /\ {f} \in SUBSET Settings
      BY <1>2, Zenon DEF SaveRaw
    <2> HIDE DEF text
    <2> QED
      BY <2>1, <2>2, SavesOK, Zenon
  <1>3. CASE ResetToDefaults(t, s)
    BY <1>0, <1>3, SavesOK, Zenon DEF ResetToDefaults
  <1>4. CASE Migrate(t, s)
    BY <1>0, <1>4, SavesOK DEF Migrate
  <1> QED
    BY <1>1, <1>2, <1>3, <1>4, Zenon

\* What Wrote leaves of the other savers.
LEMMA WroteOthers ==
  ASSUME ConfInv, NEW t \in Savers, NEW next \in SaveStates \cup {NoSave}, Wrote(t, next)
  PROVE  /\ saving' \in [Savers -> SaveStates \cup {NoSave}] /\ saving'[t] = next
         /\ \A u \in Savers \ {t} :
              /\ saving[u] = NoSave <=> saving'[u] = NoSave
              /\ saving[u] # NoSave => ~saving'[u].clean /\ saving'[u].phase = saving[u].phase
  <1>1. saving'[t] = next
    BY Zenon DEF Wrote
  <1>2. ASSUME NEW u \in Savers, u # t
        PROVE  /\ saving'[u] \in SaveStates \cup {NoSave}
               /\ saving[u] = NoSave <=> saving'[u] = NoSave
               /\ saving[u] # NoSave => ~saving'[u].clean /\ saving'[u].phase = saving[u].phase
    <2>1. CASE saving[u] = NoSave
      BY <1>2, <2>1, Zenon DEF Wrote
    <2>2. CASE saving[u] # NoSave
      <3>1. saving[u] \in SaveStates
        BY <2>2, Zenon DEF ConfInv
      <3>2. saving'[u] = [saving[u] EXCEPT !.clean = FALSE]
        BY <1>2, <2>2, Zenon DEF Wrote
      <3>3. saving'[u] \in SaveStates /\ saving'[u].clean = FALSE /\ saving'[u].phase = saving[u].phase
        BY <3>1, <3>2, Zenon DEF SaveStates
      <3> QED
        BY <2>2, <3>3, SaveIsSave, Zenon
    <2> QED
      BY <2>1, <2>2, Zenon
  <1>3. saving' \in [Savers -> SaveStates \cup {NoSave}]
    <2>1. saving' = [u \in Savers |-> saving'[u]]
      BY Zenon DEF Wrote
    <2> QED
      BY <1>1, <1>2, <2>1, Zenon
  <1> QED
    BY <1>1, <1>2, <1>3, Zenon

LEMMA WriteOK ==
  ASSUME ConfInv, NEW t \in Savers, Truncate(t) \/ Fill(t)
  PROVE  ConfInv'
  <1>0. saving[t] \in SaveStates /\ saving[t] # NoSave /\ ConfTypeOK /\ opened
    BY Zenon DEF ConfInv, Truncate, Fill, In
  <1>1. CASE Truncate(t)
    <2> DEFINE next == [saving[t] EXCEPT !.phase = "filling"]
    <2>1. /\ next \in SaveStates /\ next.phase = "filling" /\ next.kind = saving[t].kind
          /\ next.clean = saving[t].clean /\ next.text = saving[t].text /\ next.parts = saving[t].parts
      BY <1>0, Zenon DEF SaveStates
    <2>2. Wrote(t, next) /\ form' = "empty" /\ UNCHANGED <<file, opened, snapshot, chosen>>
      BY <1>1, Zenon DEF Truncate
    <2> HIDE DEF next
    <2>3. next # NoSave
      BY <2>1, SaveIsSave, Zenon
    <2>4. ConfTypeOK'
      <3>1. In(t, "filling")'
        BY <2>1, <2>2, <2>3, WroteOthers DEF In
      <3> QED
        BY <1>0, <2>2, <3>1, Zenon DEF ConfTypeOK
    <2>5. ASSUME NEW u \in Savers PROVE UpdateFacts(u)'
      <3>1. CASE u = t
        BY <1>0, <2>1, <2>2, <3>1, WroteOthers DEF UpdateFacts, ConfInv
      <3>2. CASE u # t
        BY <2>1, <2>2, <3>2, WroteOthers, Zenon DEF UpdateFacts
      <3> QED
        BY <3>1, <3>2, Zenon
    <2> QED
      BY <1>0, <2>1, <2>2, <2>4, <2>5, WroteOthers, Zenon DEF ConfInv, UpdateFacts
  <1>2. CASE Fill(t)
    <2>1. PICK next \in SaveStates \cup {NoSave} :
             Wrote(t, next) /\ (next # NoSave => next.kind # "update")
      <3>1. CASE saving[t].kind = "update"
        BY <1>2, <3>1, Zenon DEF Fill
      <3>2. CASE saving[t].kind # "update"
        <4> DEFINE next == [saving[t] EXCEPT !.phase = "written"]
        <4>1. next \in SaveStates /\ next.kind = saving[t].kind
          BY <1>0, Zenon DEF SaveStates
        <4>2. Wrote(t, next)
          BY <1>2, <3>2, Zenon DEF Fill
        <4> HIDE DEF next
        <4> QED
          BY <3>2, <4>1, <4>2, Zenon
      <3> QED
        BY <3>1, <3>2, Zenon
    <2>2. saving[t].text \in [Settings -> Values] /\ saving[t].store \in Stores
      BY <1>0, Zenon DEF SaveStates
    <2>3. /\ file' \in [Settings -> Values] /\ chosen' \in [Settings -> Values]
          /\ form' \in {"whole", "garbled"} /\ opened' = opened
          /\ snapshot' \in [Stores -> [Settings -> Values]]
      BY <1>0, <1>2, <2>2, Zenon DEF Fill, ConfTypeOK
    <2>4. ConfTypeOK'
      BY <1>0, <2>3, Zenon DEF ConfTypeOK
    <2>5. ASSUME NEW u \in Savers PROVE UpdateFacts(u)'
      BY <2>1, WroteOthers, Zenon DEF UpdateFacts
    <2> QED
      BY <1>0, <2>1, <2>3, <2>4, <2>5, WroteOthers, Zenon DEF ConfInv, UpdateFacts
  <1> QED
    BY <1>1, <1>2, Zenon

LEMMA ConfRestOK ==
  ASSUME ConfInv,
         \/ \E s \in Stores : Reload(s)
         \/ \E t \in Savers : Adopt(t)
         \/ Crash \/ Open \/ Repair
  PROVE  ConfInv'
  <1>0. ConfTypeOK
    BY Zenon DEF ConfInv
  <1>1. ASSUME NEW s \in Stores, Reload(s) PROVE ConfInv'
    BY <1>1, Zenon DEF ConfInv, ConfTypeOK, Reload, In
  <1>2. ASSUME NEW t \in Savers, Adopt(t) PROVE ConfInv'
    <2>1. saving[t] \in SaveStates /\ saving[t].phase = "written" /\ saving[t] # NoSave
      BY <1>2, Zenon DEF ConfInv, Adopt, In
    <2>2. saving[t].text \in [Settings -> Values] /\ saving[t].store \in Stores
      BY <2>1, Zenon DEF SaveStates
    <2>3. snapshot' \in [Stores -> [Settings -> Values]]
      BY <1>0, <1>2, <2>2, Zenon DEF Adopt, ConfTypeOK
    <2>4. /\ saving' = [saving EXCEPT ![t] = NoSave] /\ UNCHANGED <<file, form, opened, chosen>>
      BY <1>2, Zenon DEF Adopt
    <2>5. ASSUME NEW u \in Savers, In(u, "filling") PROVE In(u, "filling")'
      BY <2>1, <2>4, <2>5, Zenon DEF ConfInv, In
    <2>6. ConfTypeOK'
      BY <1>0, <2>3, <2>4, <2>5, Zenon DEF ConfTypeOK
    <2> QED
      BY <2>4, <2>6, Zenon DEF ConfInv
  <1>3. CASE Crash
    BY <1>3, Zenon DEF ConfInv, ConfTypeOK, Crash
  <1>4. CASE Open
    BY <1>4, Zenon DEF ConfInv, ConfTypeOK, Open
  <1>5. CASE Repair
    BY <1>0, <1>5, CompletedTyped, Zenon DEF ConfInv, ConfTypeOK, Repair
  <1> QED
    BY <1>1, <1>2, <1>3, <1>4, <1>5, Zenon

\* The invariant of the configuration file and of the saves between their read and
\* their write holds for any threads, stores, settings and values.
THEOREM ConfInvariant == ConfSpec => []ConfInv
  <1>1. ConfInv /\ UNCHANGED confVars => ConfInv'
    BY DEF ConfInv, ConfTypeOK, confVars, In
  <1>2. ConfInv /\ ConfNext => ConfInv'
    BY BeginSaveOK, WriteOK, ConfRestOK, Zenon DEF ConfNext
  <1> QED
    BY <1>1, <1>2, ConfStart, PTL DEF ConfSpec

\* Every store holds a complete configuration, and while the program runs the
\* file is empty only within a save.
THEOREM ConfTypeCorrect == ConfSpec => []ConfTypeOK
  <1>1. ConfInv => ConfTypeOK
    BY Zenon DEF ConfInv
  <1> QED
    BY <1>1, ConfInvariant, PTL

\* update_config, for any number of stores, savers, settings and crashes: a save
\* nobody wrote past changes its own part of the file only.
THEOREM UpdateSafety == ConfSpec => UpdateIsLocal
  <1>1. ConfInv /\ [ConfNext]_confVars => [\A t \in Savers : SavesOwnPart(t)]_confVars
    <2> SUFFICES ASSUME ConfInv, ConfNext, NEW t \in Savers,
                        In(t, "filling"), saving[t].kind = "update", saving[t].clean,
                        saving'[t] = NoSave, opened'
                 PROVE  \A f \in Settings \ saving[t].parts : file'[f] = file[f]
      BY Zenon DEF SavesOwnPart
    <2>0. saving[t] # NoSave /\ opened
      BY Zenon DEF In, ConfInv
    <2>1. CASE file' = file
      BY <2>1, Zenon
    <2>2. ASSUME NEW u \in Savers, Fill(u) PROVE u = t /\ file' = saving[t].text
      <3>1. PICK next : Wrote(u, next)
        BY <2>2, Zenon DEF Fill
      <3>2. u = t
        <4> SUFFICES ASSUME u # t PROVE FALSE
          BY Zenon
        <4>1. saving[t] \in SaveStates /\ saving'[t] = [saving[t] EXCEPT !.clean = FALSE]
          BY <2>0, <3>1, Zenon DEF ConfInv, Wrote
        <4>2. saving'[t] \in SaveStates
          BY <4>1, Zenon DEF SaveStates
        <4> QED
          BY <4>2, SaveIsSave, Zenon
      <3> QED
        BY <2>2, <3>2, Zenon DEF Fill
    <2>3. file' = file \/ \E u \in Savers : Fill(u)
      BY <2>0, ZenonT(30) DEF ConfNext, UpdateConfig, SaveRaw, ResetToDefaults, Migrate, Saves, Reload,
         Truncate, Adopt, Crash, Open, Repair
    <2> QED
      BY <2>0, <2>1, <2>2, <2>3, Zenon DEF ConfInv
  <1> QED
    BY <1>1, ConfInvariant, PTL DEF ConfSpec, UpdateIsLocal

----------------------------------------------------------------------------
(* Installed skills.                                                       *)

\* Nothing that is under way with operation j can bring the pair p back.
Harmless(j, p) ==
    /\ j.phase \in {"loaded", "syncing"} => p \notin j.snap.managed
    /\ p \notin j.want
    /\ j.op = "install" => p \notin j.regs \X {j.name}
    /\ j.op \in {"add", "delete"} => p[2] \notin j.before[2][p[1]]

GoneFacts(p) ==
    /\ p \notin manifest.managed
    /\ p[2] \notin wanted[p[1]]
    /\ \A a \in SkillActors : job[a] # NoJob => Harmless(job[a], p)

\* An operation that runs alone has seen the manifest as it is, and one that
\* uninstalls in the GUI has taken its skill from the configuration.
AloneFacts(a) ==
    job[a] # NoJob /\ job[a].alone =>
      /\ Alone(a)
      /\ job[a].phase \in {"loaded", "syncing"} => job[a].snap = manifest
      /\ a = "gui" /\ job[a].op \in {"uninstall", "uninstallFrom"} =>
           \E r \in Registries : job[a].regs = {r} /\ job[a].name \notin wanted[r]

SkillInv ==
    /\ SkillTypeOK
    /\ \A p \in gone : GoneFacts(p)
    /\ \A a \in SkillActors : AloneFacts(a)

LEMMA JobIsJob == ASSUME NEW j \in Jobs PROVE j # NoJob
  <1>1. j.op # "none" /\ NoJob.op = "none"
    BY Zenon DEF Jobs, Ops, NoJob
  <1> QED
    BY <1>1, Zenon

LEMMA SkillStart == SkillInit => SkillInv
  BY DEF SkillInit, SkillInv, SkillTypeOK, AloneFacts, Manifests

\* What Begins makes of the operations, with j the new one.
NewJob(j, a, op, regs, name, want, phase) ==
    /\ j.op = op /\ j.regs = regs /\ j.name = name /\ j.want = want /\ j.phase = phase
    /\ op \in {"add", "delete"} => j.before = <<configured, wanted>>
    /\ j.alone = Alone(a)
    /\ job' \in [SkillActors -> Jobs \cup {NoJob}]
    /\ job'[a] = j /\ job[a] = NoJob
    /\ \A b \in SkillActors \ {a} :
         \/ job[b] = NoJob /\ job'[b] = NoJob
         \/ job[b] # NoJob /\ job'[b] \in Jobs /\ job'[b] = [job[b] EXCEPT !.alone = FALSE]

LEMMA BeginsShape ==
    ASSUME SkillTypeOK, NEW a \in SkillActors, NEW op \in Ops, NEW regs \in SUBSET Registries,
           NEW name \in SkillNames \cup {""}, NEW want \in SUBSET Pairs,
           NEW phase \in {"begun", "repository"}, Begins(a, op, regs, name, want, phase)
    PROVE  \E j \in Jobs : NewJob(j, a, op, regs, name, want, phase)
  <1> DEFINE before == IF op \in {"add", "delete"} THEN <<configured, wanted>> ELSE <<>>
             j == [op |-> op, regs |-> regs, name |-> name, want |-> want, phase |-> phase,
                   snap |-> {}, synced |-> {}, before |-> before, clean |-> TRUE, alone |-> Alone(a)]
  <1>1. before \in ((SUBSET Registries) \X [Registries -> SUBSET SkillNames]) \cup {<<>>}
    BY Zenon DEF SkillTypeOK
  <1>2. Alone(a) \in BOOLEAN
    BY Zenon DEF Alone
  <1>3. job' = [b \in SkillActors |->
                  IF b = a THEN j
                  ELSE IF job[b] = NoJob THEN NoJob ELSE [job[b] EXCEPT !.alone = FALSE]]
    BY Zenon DEF Begins
  <1> HIDE DEF before
  <1>4. /\ j \in Jobs /\ j.op = op /\ j.regs = regs /\ j.name = name /\ j.want = want
        /\ j.phase = phase /\ j.before = before /\ j.alone = Alone(a)
    BY <1>1, <1>2, Zenon DEF Jobs
  <1> HIDE DEF j
  <1>5. ASSUME NEW b \in SkillActors, b # a
        PROVE  \/ job[b] = NoJob /\ job'[b] = NoJob
               \/ /\ job[b] # NoJob /\ job'[b] \in Jobs /\ job'[b] = [job[b] EXCEPT !.alone = FALSE]
    <2>1. CASE job[b] = NoJob
      BY <1>3, <1>5, <2>1, Zenon
    <2>2. CASE job[b] # NoJob
      <3>1. job[b] \in Jobs
        BY <2>2, Zenon DEF SkillTypeOK
      <3>2. [job[b] EXCEPT !.alone = FALSE] \in Jobs
        BY <3>1, Zenon DEF Jobs
      <3> QED
        BY <1>3, <1>5, <2>2, <3>2, Zenon
    <2> QED
      BY <2>1, <2>2, Zenon
  <1>6. job'[a] = j /\ job[a] = NoJob
    BY <1>3, Zenon DEF Begins
  <1>7. job' \in [SkillActors -> Jobs \cup {NoJob}]
    <2>1. \A b \in SkillActors : job'[b] \in Jobs \cup {NoJob}
      BY <1>4, <1>5, <1>6, Zenon
    <2> QED
      BY <1>3, <2>1, Zenon
  <1>8. op \in {"add", "delete"} => j.before = <<configured, wanted>>
    BY <1>4, Zenon DEF before
  <1> QED
    BY <1>4, <1>5, <1>6, <1>7, <1>8, Zenon DEF NewJob

\* A step that begins an operation, and what it may change beside.
BeginStep(a, op, regs, name, want, phase) ==
    /\ a \in SkillActors /\ op \in Ops /\ regs \in SUBSET Registries /\ regs # {}
    /\ name \in SkillNames \cup {""} /\ want \in SUBSET Pairs /\ phase \in {"begun", "repository"}
    /\ Begins(a, op, regs, name, want, phase)
    /\ op \in {"install", "uninstall", "uninstallFrom"} => name \in SkillNames
    /\ configured' \subseteq Registries /\ wanted' \in [Registries -> SUBSET SkillNames]
    /\ manifest' = manifest /\ gone' \subseteq gone
    /\ \A p \in gone' : p[2] \notin wanted'[p[1]] /\ p \notin want
    /\ op = "install" => \A p \in gone' : p \notin regs \X {name}
    /\ a = "gui" /\ op \in {"uninstall", "uninstallFrom"} =>
         \E r \in Registries : regs = {r} /\ name \notin wanted'[r]

LEMMA BeginOK ==
    ASSUME SkillInv, NEW a, NEW op, NEW regs, NEW name, NEW want, NEW phase,
           BeginStep(a, op, regs, name, want, phase)
    PROVE  SkillInv'
  <1>0. SkillTypeOK
    BY Zenon DEF SkillInv
  <1>b. /\ a \in SkillActors /\ op \in Ops /\ regs \in SUBSET Registries
        /\ name \in SkillNames \cup {""} /\ want \in SUBSET Pairs /\ phase \in {"begun", "repository"}
        /\ Begins(a, op, regs, name, want, phase)
    BY Zenon DEF BeginStep
  <1>1. PICK j \in Jobs : NewJob(j, a, op, regs, name, want, phase)
    BY <1>0, <1>b, BeginsShape, Zenon
  <1> USE DEF BeginStep, NewJob
  <1>2. ASSUME NEW b \in SkillActors, b # a, job'[b] # NoJob
        PROVE  /\ job[b] # NoJob /\ job'[b].alone = FALSE /\ job'[b].op = job[b].op
               /\ job'[b].regs = job[b].regs /\ job'[b].name = job[b].name
               /\ job'[b].want = job[b].want /\ job'[b].phase = job[b].phase
               /\ job'[b].snap = job[b].snap /\ job'[b].before = job[b].before
    <2>1. job[b] # NoJob /\ job[b] \in Jobs /\ job'[b] = [job[b] EXCEPT !.alone = FALSE]
      BY <1>0, <1>1, <1>2, Zenon DEF SkillTypeOK
    <2> QED
      BY <2>1, Zenon DEF Jobs
  <1>3. SkillTypeOK'
    <2>1. ASSUME NEW b \in SkillActors, job'[b] # NoJob
          PROVE  /\ job'[b].regs # {}
                 /\ job'[b].op \in {"install", "uninstall", "uninstallFrom"} => job'[b].name \in SkillNames
                 /\ job'[b].op \in {"add", "delete"} => job'[b].before # <<>>
                 /\ job'[b].phase \in {"loaded", "syncing"} => job'[b].snap \in Manifests
      <3>1. CASE b = a
        <4>1. <<configured, wanted>> # <<>>
          BY Zenon
        <4> QED
          BY <1>1, <3>1, <4>1, Zenon
      <3>2. CASE b # a
        BY <1>0, <1>2, <2>1, <3>2, ZenonT(30) DEF SkillTypeOK
      <3> QED
        BY <3>1, <3>2, Zenon
    <2>2. gone' \subseteq Pairs /\ manifest' \in Manifests
      BY <1>0, Zenon DEF SkillTypeOK
    <2> QED
      BY <1>1, <2>1, <2>2, Zenon DEF SkillTypeOK
  <1>4. ASSUME NEW p \in gone' PROVE GoneFacts(p)'
    <2>0. GoneFacts(p) /\ p \in gone
      BY Zenon DEF SkillInv
    <2>1. ASSUME NEW b \in SkillActors, job'[b] # NoJob PROVE Harmless(job'[b], p)
      <3>1. CASE b = a
        <4>1. op \in {"add", "delete"} => j.before[2] = wanted
          <5>1. <<configured, wanted>>[2] = wanted
            BY Zenon
          <5>2. op \in {"add", "delete"} => j.before = <<configured, wanted>>
            BY <1>1, Zenon
          <5> QED
            BY <5>1, <5>2, Zenon
        <4>2. p[2] \notin wanted[p[1]]
          BY <2>0, Zenon DEF GoneFacts
        <4>3. j.want = want /\ j.phase = phase /\ j.op = op /\ j.regs = regs /\ j.name = name
          BY <1>1, Zenon
        <4>4. p \notin want /\ phase \notin {"loaded", "syncing"} /\ (op = "install" => p \notin regs \X {name})
          BY <1>b, Zenon
        <4>5. Harmless(j, p)
          BY <4>1, <4>2, <4>3, <4>4, Zenon DEF Harmless
        <4> QED
          BY <1>1, <3>1, <4>5, Zenon
      <3>2. CASE b # a
        <4>1. Harmless(job[b], p)
          BY <1>2, <2>0, <2>1, <3>2, Zenon DEF GoneFacts
        <4> QED
          BY <1>2, <2>1, <3>2, <4>1, Zenon DEF Harmless
      <3> QED
        BY <3>1, <3>2, Zenon
    <2> QED
      BY <2>0, <2>1, Zenon DEF GoneFacts
  <1>5. ASSUME NEW b \in SkillActors PROVE AloneFacts(b)'
    <2>1. CASE b = a
      <3>1. j.alone => Alone(a)'
        BY <1>1, Zenon DEF Alone
      <3> QED
        BY <1>1, <2>1, <3>1, Zenon DEF AloneFacts
    <2>2. CASE b # a
      BY <1>2, <2>2, Zenon DEF AloneFacts
    <2> QED
      BY <2>1, <2>2, Zenon
  <1> QED
    BY <1>3, <1>4, <1>5, Zenon DEF SkillInv

LEMMA SkillBegins ==
    ASSUME SkillInv,
           \/ \E r \in Registries, n \in SkillNames :
                GuiInstall(r, n) \/ GuiUninstallFrom(r, n) \/ GuiUninstall(r, n) \/ ToolInstall(r, n)
           \/ \E n \in SkillNames : ToolUninstall(n)
           \/ \E r \in Registries : GuiDeleteRegistry(r) \/ ToolSync(r) \/ ToolAdd(r) \/ ToolDelete(r)
           \/ \E regs \in SUBSET Registries : SyncTargets(regs)
    PROVE  SkillInv'
  <1>0. /\ SkillTypeOK /\ configured \subseteq Registries /\ wanted \in [Registries -> SUBSET SkillNames]
        /\ gone \subseteq Pairs /\ {} \in SUBSET Pairs
        /\ \A p \in gone : p[2] \notin wanted[p[1]] /\ p[1] \in Registries /\ p = <<p[1], p[2]>>
    BY DEF SkillInv, SkillTypeOK, GoneFacts, Pairs
  <1> USE DEF SkillActors, Ops
  <1>1. ASSUME NEW r \in Registries, NEW n \in SkillNames, GuiInstall(r, n) PROVE SkillInv'
    <2>1. /\ Begins("gui", "install", {r}, n, {}, "begun") /\ gone' = gone \ {<<r, n>>}
          /\ UNCHANGED <<configured, manifest>> /\ wanted' = [wanted EXCEPT ![r] = @ \cup {n}]
      BY <1>1, Zenon DEF GuiInstall
    <2>2. wanted' \in [Registries -> SUBSET SkillNames]
      BY <1>0, <2>1, Zenon
    <2>3. \A p \in gone' : p[2] \notin wanted'[p[1]] /\ p \notin {r} \X {n}
      BY <1>0, <2>1, Zenon
    <2> QED
      <3>1. BeginStep("gui", "install", {r}, n, {}, "begun")
        BY <1>0, <2>1, <2>2, <2>3, Zenon DEF BeginStep
      <3> QED
        BY <3>1, BeginOK, Zenon
  <1>2. ASSUME NEW r \in Registries, NEW n \in SkillNames, GuiUninstallFrom(r, n) \/ GuiUninstall(r, n)
        PROVE  SkillInv'
    <2>1. PICK op \in {"uninstall", "uninstallFrom"} : Begins("gui", op, {r}, n, {}, "begun")
      BY <1>2, Zenon DEF GuiUninstallFrom, GuiUninstall
    <2>2. /\ UNCHANGED <<configured, manifest, gone>> /\ wanted' = [wanted EXCEPT ![r] = @ \ {n}]
      BY <1>2, Zenon DEF GuiUninstallFrom, GuiUninstall
    <2>3. wanted' \in [Registries -> SUBSET SkillNames] /\ n \notin wanted'[r]
      BY <1>0, <2>2, Zenon
    <2>4. \A p \in gone' : p[2] \notin wanted'[p[1]]
      BY <1>0, <2>2, Zenon
    <2> QED
      <3>1. BeginStep("gui", op, {r}, n, {}, "begun")
        BY <1>0, <2>1, <2>2, <2>3, <2>4, Zenon DEF BeginStep
      <3> QED
        BY <3>1, BeginOK, Zenon
  <1>3. ASSUME NEW r \in Registries, NEW n \in SkillNames, ToolInstall(r, n) PROVE SkillInv'
    <2>1. /\ Begins("tool", "install", {r}, n, {}, "begun") /\ gone' = gone \ {<<r, n>>}
          /\ UNCHANGED <<configured, manifest, wanted>>
      BY <1>3, Zenon DEF ToolInstall
    <2>2. \A p \in gone' : p[2] \notin wanted'[p[1]] /\ p \notin {r} \X {n}
      BY <1>0, <2>1, Zenon
    <2> QED
      <3>1. BeginStep("tool", "install", {r}, n, {}, "begun")
        BY <1>0, <2>1, <2>2, Zenon DEF BeginStep
      <3> QED
        BY <3>1, BeginOK, Zenon
  <1>4. ASSUME NEW n \in SkillNames, ToolUninstall(n) PROVE SkillInv'
    <2>1. BeginStep("tool", "uninstall", Registries, n, {}, "begun")
      BY <1>0, <1>4, SkillAssumption, Zenon DEF ToolUninstall, BeginStep
    <2> QED
      BY <2>1, BeginOK, Zenon
  <1>5. ASSUME NEW r \in Registries, GuiDeleteRegistry(r) \/ ToolDelete(r) \/ ToolAdd(r) PROVE SkillInv'
    <2>1. PICK a \in {"gui", "tool"}, op \in {"cleanup", "add", "delete"}, phase \in {"begun", "repository"} :
            Begins(a, op, {r}, "", {}, phase)
      BY <1>5, Zenon DEF GuiDeleteRegistry, ToolDelete, ToolAdd
    <2>2. /\ configured' \subseteq Registries /\ wanted' = [wanted EXCEPT ![r] = {}]
          /\ UNCHANGED <<manifest, gone>>
      BY <1>0, <1>5, Zenon DEF GuiDeleteRegistry, ToolDelete, ToolAdd
    <2>3. wanted' \in [Registries -> SUBSET SkillNames] /\ \A p \in gone' : p[2] \notin wanted'[p[1]]
      BY <1>0, <2>2, Zenon
    <2> QED
      <3>1. BeginStep(a, op, {r}, "", {}, phase)
        BY <1>0, <2>1, <2>2, <2>3, Zenon DEF BeginStep
      <3> QED
        BY <3>1, BeginOK, Zenon
  <1>6. ASSUME NEW r \in Registries, ToolSync(r) PROVE SkillInv'
    <2>1. BeginStep("tool", "syncSource", {r}, "", {}, "repository")
      BY <1>0, <1>6, Zenon DEF ToolSync, BeginStep
    <2> QED
      BY <2>1, BeginOK, Zenon
  <1>7. ASSUME NEW regs \in SUBSET Registries, SyncTargets(regs) PROVE SkillInv'
    <2> DEFINE want == {p \in Pairs : p[1] \in regs /\ p[2] \in wanted[p[1]]}
    <2>1. want \in SUBSET Pairs /\ \A p \in gone : p \notin want
      BY <1>0, Zenon
    <2>2. Begins("sync", "syncAll", regs, "", want, "begun")
      BY <1>7, Zenon DEF SyncTargets
    <2> HIDE DEF want
    <2> QED
      <3>1. BeginStep("sync", "syncAll", regs, "", want, "begun")
        BY <1>0, <1>7, <2>1, <2>2, Zenon DEF SyncTargets, BeginStep
      <3> QED
        BY <3>1, BeginOK, Zenon
  <1> QED
    BY <1>1, <1>2, <1>3, <1>4, <1>5, <1>6, <1>7, ZenonT(30)

\* Operation a goes on as j: what it is about stays, and the manifest it holds
\* is the one it held or the one on disk.
LEMMA JobMoves ==
    ASSUME SkillInv, NEW a \in SkillActors, job[a] # NoJob, NEW j \in Jobs,
           job' = [job EXCEPT ![a] = j],
           j.op = job[a].op, j.regs = job[a].regs, j.name = job[a].name, j.want = job[a].want,
           j.before = job[a].before, j.alone = job[a].alone,
           j.phase \in {"loaded", "syncing"} =>
             j.snap = manifest \/ (job[a].phase \in {"loaded", "syncing"} /\ j.snap = job[a].snap),
           UNCHANGED <<configured, wanted, manifest, gone>>
    PROVE  SkillInv'
  <1>0. SkillTypeOK
    BY Zenon DEF SkillInv
  <1>1. job'[a] = j /\ \A b \in SkillActors \ {a} : job'[b] = job[b]
    BY <1>0, Zenon DEF SkillTypeOK
  <1>2. SkillTypeOK'
    <2>1. job' \in [SkillActors -> Jobs \cup {NoJob}]
      BY <1>0, Zenon DEF SkillTypeOK
    <2>2. ASSUME NEW b \in SkillActors, job'[b] # NoJob
          PROVE  /\ job'[b].regs # {}
                 /\ job'[b].op \in {"install", "uninstall", "uninstallFrom"} => job'[b].name \in SkillNames
                 /\ job'[b].op \in {"add", "delete"} => job'[b].before # <<>>
                 /\ job'[b].phase \in {"loaded", "syncing"} => job'[b].snap \in Manifests
      <3>1. CASE b = a
        BY <1>0, <1>1, <3>1, Zenon DEF SkillTypeOK
      <3>2. CASE b # a
        BY <1>0, <1>1, <2>2, <3>2, Zenon DEF SkillTypeOK
      <3> QED
        BY <3>1, <3>2, Zenon
    <2> QED
      BY <1>0, <2>1, <2>2, Zenon DEF SkillTypeOK
  <1>3. ASSUME NEW p \in gone' PROVE GoneFacts(p)'
    <2>0. GoneFacts(p)
      BY Zenon DEF SkillInv
    <2>1. Harmless(j, p)
      BY <2>0, Zenon DEF GoneFacts, Harmless
    <2>2. ASSUME NEW b \in SkillActors, job'[b] # NoJob PROVE Harmless(job'[b], p)
      <3>1. CASE b = a
        BY <1>1, <2>1, <3>1, Zenon
      <3>2. CASE b # a
        BY <1>1, <2>0, <2>2, <3>2, Zenon DEF GoneFacts
      <3> QED
        BY <3>1, <3>2, Zenon
    <2> QED
      BY <2>0, <2>2, Zenon DEF GoneFacts
  <1>4. ASSUME NEW b \in SkillActors PROVE AloneFacts(b)'
    <2>0. AloneFacts(b)
      BY Zenon DEF SkillInv
    <2>1. ASSUME NEW c \in SkillActors PROVE job[c] = NoJob <=> job'[c] = NoJob
      BY <1>1, JobIsJob, Zenon
    <2>2. Alone(b) => Alone(b)'
      BY <2>1, Zenon DEF Alone
    <2>3. CASE b = a
      BY <1>1, <2>0, <2>2, <2>3 DEF AloneFacts
    <2>4. CASE b # a
      BY <1>1, <2>0, <2>2, <2>4, Zenon DEF AloneFacts
    <2> QED
      BY <2>3, <2>4, Zenon
  <1> QED
    BY <1>2, <1>3, <1>4, Zenon DEF SkillInv

LEMMA SkillGoesOn ==
    ASSUME SkillInv, NEW a \in SkillActors, Repository(a) \/ Load(a) \/ SyncMirrors(a)
    PROVE  SkillInv'
  <1>0. SkillTypeOK /\ manifest \in Manifests
    BY Zenon DEF SkillInv, SkillTypeOK
  <1>1. job[a] # NoJob /\ job[a] \in Jobs /\ UNCHANGED <<configured, wanted, manifest, gone>>
    BY <1>0, Zenon DEF SkillTypeOK, Repository, Load, SyncMirrors
  <1>2. CASE Repository(a)
    <2> DEFINE j == [job[a] EXCEPT !.phase = "begun"]
    <2>1. /\ j \in Jobs /\ j.op = job[a].op /\ j.regs = job[a].regs /\ j.name = job[a].name
          /\ j.want = job[a].want /\ j.before = job[a].before /\ j.alone = job[a].alone
          /\ j.phase = "begun"
      BY <1>1, Zenon DEF Jobs
    <2>2. job' = [job EXCEPT ![a] = j]
      BY <1>2, Zenon DEF Repository, GoesTo
    <2> HIDE DEF j
    <2> QED
      BY <1>1, <2>1, <2>2, JobMoves, Zenon
  <1>3. CASE Load(a)
    <2> DEFINE ph == IF job[a].op = "syncAll" THEN "syncing" ELSE "loaded"
               j == [job[a] EXCEPT !.snap = manifest, !.clean = TRUE, !.phase = ph]
    <2>0. ph \in {"begun", "repository", "loaded", "syncing"}
      BY Zenon
    <2>2. job' = [job EXCEPT ![a] = j]
      BY <1>3, Zenon DEF Load
    <2> HIDE DEF ph
    <2>1. /\ j \in Jobs /\ j.op = job[a].op /\ j.regs = job[a].regs /\ j.name = job[a].name
          /\ j.want = job[a].want /\ j.before = job[a].before /\ j.alone = job[a].alone
          /\ j.snap = manifest
      BY <1>0, <1>1, <2>0, Zenon DEF Jobs
    <2> HIDE DEF j
    <2> QED
      BY <1>1, <2>1, <2>2, JobMoves, Zenon
  <1>4. CASE SyncMirrors(a)
    <2>0. PICK ok \in SUBSET job[a].regs : job' = [job EXCEPT ![a].synced = ok, ![a].phase = "loaded"]
      BY <1>4, Zenon DEF SyncMirrors
    <2> DEFINE j == [job[a] EXCEPT !.synced = ok, !.phase = "loaded"]
    <2>1. /\ j \in Jobs /\ j.op = job[a].op /\ j.regs = job[a].regs /\ j.name = job[a].name
          /\ j.want = job[a].want /\ j.before = job[a].before /\ j.alone = job[a].alone
          /\ j.snap = job[a].snap /\ job[a].phase = "syncing"
      BY <1>1, <1>4, Zenon DEF Jobs, SyncMirrors
    <2>2. job' = [job EXCEPT ![a] = j]
      BY <2>0, Zenon
    <2> HIDE DEF j
    <2> QED
      BY <1>1, <2>1, <2>2, JobMoves, Zenon
  <1> QED
    BY <1>2, <1>3, <1>4, Zenon

\* What an operation writes has only pairs of the manifest it loaded, the pairs
\* a sync wants, and the pair an install is about.
LEMMA WrittenShape ==
    ASSUME NEW j \in Jobs, j.snap \in Manifests, j.regs # {},
           j.op = "install" => j.name \in SkillNames
    PROVE  /\ Written(j) \in Manifests
           /\ \A p \in Written(j).managed :
                p \in j.snap.managed \/ p \in j.want \/ (j.op = "install" /\ p \in j.regs \X {j.name})
  <1>0. Registry(j) \in j.regs /\ j.regs \subseteq Registries /\ j.want \subseteq Pairs
    BY Zenon DEF Registry, Jobs
  <1> USE DEF Manifests
  <1>1. CASE j.op = "install"
    <2>1. Written(j) = Installed(j.snap, Registry(j), j.name)
      BY <1>1, Zenon DEF Written
    <2> QED
      BY <1>0, <1>1, <2>1 DEF Installed, Pairs
  <1>2. CASE j.op = "uninstallFrom"
    <2>1. Written(j) = UninstalledFrom(j.snap, Registry(j), j.name)
      BY <1>2, Zenon DEF Written
    <2> QED
      BY <2>1, Zenon DEF UninstalledFrom
  <1>3. CASE j.op = "uninstall"
    <2>1. Written(j) = Uninstalled(j.snap, j.name)
      BY <1>3, Zenon DEF Written
    <2> QED
      BY <2>1, Zenon DEF Uninstalled, Named
  <1>4. CASE j.op \in {"cleanup", "delete"}
    <2>1. Written(j) = CleanedUp(j.snap, Registry(j))
      BY <1>4, Zenon DEF Written, SourceDeleted
    <2> QED
      BY <2>1 DEF CleanedUp, Of
  <1>5. CASE j.op \in {"syncSource", "add"}
    <2>1. Written(j) = SourceSynced(j.snap, Registry(j))
      BY <1>5, Zenon DEF Written
    <2> QED
      BY <1>0, <2>1, Zenon DEF SourceSynced
  <1>6. CASE j.op = "syncAll"
    <2>1. Written(j) = IF Resolves(j) THEN Synced(j) ELSE j.snap
      BY <1>6, Zenon DEF Written
    <2>2. /\ Synced(j) \in Manifests
          /\ \A p \in Synced(j).managed : p \in j.snap.managed \/ p \in j.want
      BY <1>0, Zenon DEF Synced, Of
    <2> QED
      BY <2>1, <2>2, Zenon
  <1> QED
    BY <1>1, <1>2, <1>3, <1>4, <1>5, <1>6, Zenon DEF Jobs, Ops

LEMMA RollbackOK ==
    ASSUME SkillInv, NEW a \in SkillActors, RepositoryFails(a)
    PROVE  SkillInv'
  <1>0. SkillTypeOK /\ job[a] # NoJob /\ job[a] \in Jobs
    BY Zenon DEF SkillInv, SkillTypeOK, RepositoryFails
  <1>1. /\ job' = [job EXCEPT ![a] = NoJob] /\ UNCHANGED <<manifest, gone>>
        /\ job' \in [SkillActors -> Jobs \cup {NoJob}]
        /\ job'[a] = NoJob /\ \A b \in SkillActors \ {a} : job'[b] = job[b]
    BY <1>0, Zenon DEF RepositoryFails, Ends, SkillTypeOK
  <1>2. /\ configured' \subseteq Registries /\ wanted' \in [Registries -> SUBSET SkillNames]
        /\ \A p \in gone : p[2] \notin wanted'[p[1]]
    <2>1. CASE job[a].op \in {"add", "delete"}
      <3>1. job[a].before \in (SUBSET Registries) \X [Registries -> SUBSET SkillNames]
        BY <1>0, <2>1, Zenon DEF SkillTypeOK, Jobs
      <3>2. configured' = job[a].before[1] /\ wanted' = job[a].before[2]
        BY <2>1, Zenon DEF RepositoryFails
      <3>3. \A p \in gone : p[2] \notin job[a].before[2][p[1]]
        BY <1>0, <2>1, Zenon DEF SkillInv, GoneFacts, Harmless
      <3> QED
        BY <3>1, <3>2, <3>3, Zenon
    <2>2. CASE job[a].op \notin {"add", "delete"}
      BY <1>0, <2>2, Zenon DEF RepositoryFails, SkillTypeOK, SkillInv, GoneFacts
    <2> QED
      BY <2>1, <2>2, Zenon
  <1>3. SkillTypeOK'
    BY <1>0, <1>1, <1>2, Zenon DEF SkillTypeOK
  <1>4. ASSUME NEW p \in gone' PROVE GoneFacts(p)'
    <2>1. GoneFacts(p) /\ p \in gone
      BY <1>1, Zenon DEF SkillInv
    <2>2. ASSUME NEW b \in SkillActors, job'[b] # NoJob PROVE Harmless(job'[b], p)
      BY <1>1, <2>1, <2>2, Zenon DEF GoneFacts
    <2> QED
      BY <1>1, <1>2, <2>1, <2>2, Zenon DEF GoneFacts
  <1>5. ASSUME NEW b \in SkillActors PROVE AloneFacts(b)'
    <2>1. CASE b = a
      BY <1>1, <2>1 DEF AloneFacts
    <2>2. CASE b # a
      <3>1. ~(job[b] # NoJob /\ job[b].alone)
        BY <1>0, <2>2, Zenon DEF SkillInv, AloneFacts, Alone
      <3> QED
        BY <1>1, <2>2, <3>1, Zenon DEF AloneFacts
    <2> QED
      BY <2>1, <2>2, Zenon
  <1> QED
    BY <1>3, <1>4, <1>5, Zenon DEF SkillInv

LEMMA SkillWriteOK ==
    ASSUME SkillInv, NEW a \in SkillActors, Write(a)
    PROVE  SkillInv'
  <1>0. /\ SkillTypeOK /\ AloneFacts(a) /\ job[a] # NoJob /\ job[a] \in Jobs
        /\ job[a].phase = "loaded" /\ job[a].snap \in Manifests /\ job[a].regs # {}
        /\ job[a].op \in {"install", "uninstall", "uninstallFrom"} => job[a].name \in SkillNames
    BY Zenon DEF SkillInv, SkillTypeOK, Write
  <1>1. /\ Written(job[a]) \in Manifests
        /\ \A p \in Written(job[a]).managed :
             \/ p \in job[a].snap.managed \/ p \in job[a].want
             \/ job[a].op = "install" /\ p \in job[a].regs \X {job[a].name}
    BY <1>0, WrittenShape, Zenon
  <1>2. /\ manifest' = (IF Writes(job[a]) THEN Written(job[a]) ELSE manifest)
        /\ UNCHANGED <<configured, wanted>>
        /\ manifest' \in Manifests
    BY <1>0, <1>1, Zenon DEF Write, SkillTypeOK
  <1>3. /\ job'[a] = NoJob /\ job' \in [SkillActors -> Jobs \cup {NoJob}]
        /\ \A b \in SkillActors \ {a} :
             \/ job'[b] = job[b]
             \/ job[b] # NoJob /\ job'[b] = [job[b] EXCEPT !.clean = FALSE]
    <2>1. job' = [b \in SkillActors |->
                    IF b = a THEN NoJob
                    ELSE IF job[b] = NoJob \/ ~Writes(job[a]) THEN job[b]
                         ELSE [job[b] EXCEPT !.clean = FALSE]]
      BY Zenon DEF Write
    <2>2. ASSUME NEW b \in SkillActors, b # a
          PROVE  /\ job'[b] \in Jobs \cup {NoJob}
                 /\ \/ job'[b] = job[b]
                    \/ job[b] # NoJob /\ job'[b] = [job[b] EXCEPT !.clean = FALSE]
      <3>1. CASE job[b] = NoJob \/ ~Writes(job[a])
        BY <1>0, <2>1, <2>2, <3>1 DEF SkillTypeOK
      <3>2. CASE ~(job[b] = NoJob \/ ~Writes(job[a]))
        <4>1. job[b] \in Jobs
          BY <1>0, <3>2, Zenon DEF SkillTypeOK
        <4>2. [job[b] EXCEPT !.clean = FALSE] \in Jobs
          BY <4>1, Zenon DEF Jobs
        <4> QED
          BY <2>1, <2>2, <3>2, <4>2, Zenon
      <3> QED
        BY <3>1, <3>2, Zenon
    <2> QED
      BY <2>1, <2>2, Zenon
  <1>4. ASSUME NEW b \in SkillActors, b # a, job'[b] # NoJob
        PROVE  /\ job[b] # NoJob /\ job'[b].alone = job[b].alone /\ job'[b].op = job[b].op
               /\ job'[b].regs = job[b].regs /\ job'[b].name = job[b].name
               /\ job'[b].want = job[b].want /\ job'[b].phase = job[b].phase
               /\ job'[b].snap = job[b].snap /\ job'[b].before = job[b].before
    <2>1. CASE job'[b] = job[b]
      BY <1>4, <2>1, Zenon
    <2>2. CASE job[b] # NoJob /\ job'[b] = [job[b] EXCEPT !.clean = FALSE]
      <3>1. job[b] \in Jobs
        BY <1>0, <2>2, Zenon DEF SkillTypeOK
      <3> QED
        BY <2>2, <3>1, Zenon DEF Jobs
    <2> QED
      BY <1>3, <1>4, <2>1, <2>2, Zenon
  <1> DEFINE added == IF a = "gui" /\ job[a].op \in {"uninstall", "uninstallFrom"} /\ job[a].alone
                      THEN job[a].regs \X {job[a].name} ELSE {}
  <1>5. gone' = gone \cup added
    BY Zenon DEF Write
  <1>6. ASSUME NEW p \in added
        PROVE  /\ a = "gui" /\ job[a].op \in {"uninstall", "uninstallFrom"} /\ job[a].alone
               /\ Alone(a) /\ job[a].snap = manifest
               /\ \E r \in Registries : job[a].regs = {r} /\ job[a].name \notin wanted[r] /\ p = <<r, job[a].name>>
               /\ p \in Pairs
    BY <1>0, <1>6 DEF AloneFacts, Pairs
  <1> HIDE DEF added
  <1>7. SkillTypeOK'
    <2>1. gone' \subseteq Pairs
      BY <1>0, <1>5, <1>6, Zenon DEF SkillTypeOK
    <2>2. ASSUME NEW b \in SkillActors, job'[b] # NoJob
          PROVE  /\ job'[b].regs # {}
                 /\ job'[b].op \in {"install", "uninstall", "uninstallFrom"} => job'[b].name \in SkillNames
                 /\ job'[b].op \in {"add", "delete"} => job'[b].before # <<>>
                 /\ job'[b].phase \in {"loaded", "syncing"} => job'[b].snap \in Manifests
      <3>1. b # a
        BY <1>3, <2>2, Zenon
      <3> QED
        BY <1>0, <1>4, <2>2, <3>1, Zenon DEF SkillTypeOK
    <2> QED
      BY <1>0, <1>2, <1>3, <2>1, <2>2, Zenon DEF SkillTypeOK
  <1>8. ASSUME NEW p \in gone' PROVE GoneFacts(p)'
    <2>1. CASE p \in added
      <3>1. p \notin manifest'.managed
        <4>1. p \notin Written(job[a]).managed
          <5>1. PICK r \in Registries : job[a].regs = {r} /\ p = <<r, job[a].name>>
            BY <1>6, <2>1, Zenon
          <5>2. CASE job[a].op = "uninstall"
            <6>1. Written(job[a]) = Uninstalled(job[a].snap, job[a].name)
              BY <5>2, Zenon DEF Written
            <6> QED
              BY <1>0, <5>1, <6>1 DEF Uninstalled, Named, Manifests
          <5>3. CASE job[a].op = "uninstallFrom"
            <6>1. Written(job[a]) = UninstalledFrom(job[a].snap, Registry(job[a]), job[a].name)
              BY <5>3, Zenon DEF Written
            <6>2. Registry(job[a]) = r
              BY <5>1, Zenon DEF Registry
            <6> QED
              BY <1>0, <5>1, <6>1, <6>2, Zenon DEF UninstalledFrom, Manifests
          <5> QED
            BY <1>6, <2>1, <5>2, <5>3, Zenon
        <4>2. CASE Writes(job[a])
          BY <1>2, <4>1, <4>2, Zenon
        <4>3. CASE ~Writes(job[a])
          <5>1. Written(job[a]) = job[a].snap /\ job[a].snap = manifest /\ manifest' = manifest
            BY <1>2, <1>6, <2>1, <4>3 DEF Writes
          <5> QED
            BY <4>1, <5>1, Zenon
        <4> QED
          BY <4>2, <4>3, Zenon
      <3>2. p[2] \notin wanted'[p[1]]
        BY <1>2, <1>6, <2>1
      <3>3. \A b \in SkillActors : job'[b] = NoJob
        BY <1>3, <1>6, <2>1, Zenon DEF Alone
      <3> QED
        BY <3>1, <3>2, <3>3, Zenon DEF GoneFacts
    <2>2. CASE p \in gone
      <3>0. GoneFacts(p) /\ Harmless(job[a], p)
        BY <1>0, <2>2, Zenon DEF SkillInv, GoneFacts
      <3>1. p \notin manifest'.managed
        BY <1>0, <1>1, <1>2, <3>0, Zenon DEF GoneFacts, Harmless
      <3>2. ASSUME NEW b \in SkillActors, job'[b] # NoJob PROVE Harmless(job'[b], p)
        <4>1. b # a
          BY <1>3, <3>2
        <4>2. Harmless(job[b], p)
          BY <1>4, <3>0, <3>2, <4>1, Zenon DEF GoneFacts
        <4> QED
          BY <1>4, <3>2, <4>1, <4>2, Zenon DEF Harmless
      <3> QED
        BY <1>2, <3>0, <3>1, <3>2, Zenon DEF GoneFacts
    <2> QED
      BY <1>5, <2>1, <2>2, Zenon
  <1>9. ASSUME NEW b \in SkillActors PROVE AloneFacts(b)'
    <2>1. CASE b = a
      BY <1>3, <2>1, Zenon DEF AloneFacts
    <2>2. CASE b # a
      <3>1. job[b] # NoJob => ~job[b].alone
        BY <1>0, <2>2, Zenon DEF SkillInv, AloneFacts, Alone
      <3> QED
        BY <1>4, <2>2, <3>1, Zenon DEF AloneFacts
    <2> QED
      BY <2>1, <2>2, Zenon
  <1> QED
    BY <1>7, <1>8, <1>9, Zenon DEF SkillInv

\* The invariant of the registry's manifest, the installed files and the jobs of the
\* two skill managers holds for any registries, skills and offers.
THEOREM SkillInvariant == SkillSpec => []SkillInv
  <1>1. SkillInv /\ UNCHANGED skillVars => SkillInv'
    BY Zenon DEF SkillInv, skillVars, SkillTypeOK, GoneFacts, AloneFacts, Alone
  <1>2. SkillInv /\ SkillNext => SkillInv'
    BY SkillBegins, SkillGoesOn, RollbackOK, SkillWriteOK, Zenon DEF SkillNext
  <1> QED
    BY <1>1, <1>2, SkillStart, PTL DEF SkillSpec

\* The manifest, the `installed` lists and the operations keep their types.
THEOREM SkillTypeCorrect == SkillSpec => []SkillTypeOK
  <1>1. SkillInv => SkillTypeOK
    BY Zenon DEF SkillInv
  <1> QED
    BY <1>1, SkillInvariant, PTL

\* For any registries, skills and operations that overlap afterwards: a skill
\* uninstalled in the GUI while nothing else ran is not in the manifest again
\* before somebody installs it.
THEOREM UninstallSafety == SkillSpec => []UninstalledStaysGone
  <1>1. SkillInv => UninstalledStaysGone
    BY Zenon DEF SkillInv, GoneFacts, UninstalledStaysGone
  <1> QED
    BY <1>1, SkillInvariant, PTL
=============================================================================
