---------------------------- MODULE SessionTurn ----------------------------
(***************************************************************************)
(* The turns of one chat: how the runtime routes a message to a session,   *)
(* refreshes the session's summary, builds the history the model is shown  *)
(* and records the turn (submit_and_get_turn_outcome and its streaming     *)
(* twins, maybe_refresh_summary, build_history_for_model,                  *)
(* resolve_session_route and the /new command of klaw-runtime).            *)
(*                                                                         *)
(* Nothing serialises the turns of a session, so every await is a point    *)
(* where another turn may step in.  A record of the history is only its    *)
(* position in the session's file: a summary is the set of positions it    *)
(* was made from, and the model is shown a summary and a window of         *)
(* positions.  No path of the runtime stores a record that                 *)
(* should_exclude_chat_record_from_context would hide (silent heartbeat    *)
(* answers are never recorded), so that filter removes nothing here.       *)
(***************************************************************************)
EXTENDS Naturals, FiniteSets

CONSTANTS Turns,          \* turns that may run at the same time
          HistoryLimits,  \* the values of conversation_history_limit
          MaxSessions,    \* bound: sessions of the chat
          MaxTurns,       \* bound: turns begun
          MaxReplies      \* bound: records other parties append

ASSUME TurnAssumption == HistoryLimits \subseteq Nat /\ MaxSessions \in Nat \ {0}

VARIABLES limit,        \* conversation_history_limit
          active,       \* active_session_key of the chat's base session
          sessionCount, \* sessions 1..sessionCount exist
          records,      \* number of records in each session's file
          compression,  \* SessionCompressionState of each session
          skipped,      \* history: sessions where a compression call failed
          runs,         \* the running turns
          begun,        \* turns begun so far
          replies       \* records appended by other parties so far

turnVars == <<limit, active, sessionCount, records, compression, skipped, runs,
              begun, replies>>

Sessions == 1 .. MaxSessions
Summaries == [has : BOOLEAN, covers : SUBSET Nat]
NoSummary == [has |-> FALSE, covers |-> {}]
NoCompression == [len |-> 0, summary |-> NoSummary]
NoRun == [pc |-> "idle", session |-> 1, len |-> 0, from |-> 0,
         summary |-> NoSummary]

TurnInit ==
  /\ limit \in HistoryLimits
  /\ active = 1 /\ sessionCount = 1
  /\ records = [s \in Sessions |-> 0]
  /\ compression = [s \in Sessions |-> NoCompression]
  /\ skipped = {}
  /\ runs = [t \in Turns |-> NoRun]
  /\ begun = 0 /\ replies = 0

-----------------------------------------------------------------------------
(* Routing *)

StartTurn(t, s) == runs' = [runs EXCEPT ![t] = [NoRun EXCEPT !.pc = "read",
                                                        !.session = s]]

\* submit_channel_request: the route is the base session's active session at
\* this moment; a later /new does not move a turn that is already routed.
RouteTurn(t) ==
  /\ runs[t].pc = "idle" /\ begun < MaxTurns
  /\ StartTurn(t, active)
  /\ begun' = begun + 1
  /\ UNCHANGED <<limit, active, sessionCount, records, compression, skipped,
                 replies>>

\* /new and /start: a fresh session becomes the active one and its bootstrap
\* turn runs on it.
NewSession(t) ==
  /\ runs[t].pc = "idle" /\ begun < MaxTurns /\ sessionCount < MaxSessions
  /\ sessionCount' = sessionCount + 1
  /\ active' = sessionCount + 1
  /\ StartTurn(t, sessionCount + 1)
  /\ begun' = begun + 1
  /\ UNCHANGED <<limit, records, compression, skipped, replies>>

-----------------------------------------------------------------------------
(* The history shown to the model *)

Half(n) == IF n \div 2 > 1 THEN n \div 2 ELSE 1

\* Mutant: compression waits until the limit is passed.
TriggersPastLimit(last, len) == limit # 0 /\ last + limit < len

\* should_trigger_compression; saturating_sub is the guard on the difference.
Triggers(last, len) == limit # 0 /\ last + Half(limit) <= len

\* The trim of the newest records: 0 keeps everything.
Newest(len, n) == IF n = 0 \/ len <= n THEN 1 .. len ELSE len - n + 1 .. len

\* build_history_for_model: the summary takes the place of one record, except
\* that a limit of one leaves the record and adds the summary.
Window(len, has) ==
  LET kept == Newest(len, limit) IN
  IF has /\ limit > 0 /\ Cardinality(kept) >= limit
    THEN Newest(len, IF limit > 1 THEN limit - 1 ELSE limit)
    ELSE kept

ReadHistory(t) ==
  /\ runs[t].pc = "read"
  /\ runs' = [runs EXCEPT ![t].pc = "refresh",
                          ![t].len = records[runs[t].session]]
  /\ UNCHANGED <<limit, active, sessionCount, records, compression, skipped, begun,
                 replies>>

\* The first half of maybe_refresh_summary.  A state that cannot be read counts
\* as none; the turn goes on with the summary it finds unless a compression is
\* due, which then awaits the model.
ReadCompression(t, found) ==
  LET c == IF found THEN compression[runs[t].session] ELSE NoCompression
      n == runs[t].len
  IN
  /\ runs[t].pc = "refresh"
  /\ runs' = [runs EXCEPT
       ![t].pc = IF n > 0 /\ Triggers(c.len, n) THEN "compress" ELSE "append",
       ![t].from = c.len,
       ![t].summary = IF limit = 0 \/ n = 0 THEN NoSummary ELSE c.summary]
  /\ UNCHANGED <<limit, active, sessionCount, records, compression, skipped, begun,
                 replies>>

\* merge_or_reset_summary on what the compression call gave.
Merged(old, from, len, answer) ==
  CASE answer = "summary"  -> [has |-> TRUE, covers |-> old.covers \union (from + 1 .. len)]
    [] answer = "unparsed" -> [old EXCEPT !.has = TRUE]
    [] answer = "failed"   -> old

\* Mutant: the length is read again when the state is stored.
CompressAhead(t, answer, stored) ==
  LET s == runs[t].session
      next == Merged(runs[t].summary, runs[t].from, runs[t].len, answer)
  IN
  /\ runs[t].pc = "compress"
  /\ runs' = [runs EXCEPT ![t].pc = "append", ![t].summary = next]
  /\ compression' = IF stored
       THEN [compression EXCEPT ![s] = [len |-> records[s], summary |-> next]]
       ELSE compression
  /\ skipped' = IF answer = "summary" THEN skipped ELSE skipped \union {s}
  /\ UNCHANGED <<limit, active, sessionCount, records, begun, replies>>

\* The second half of maybe_refresh_summary: the call answers and the state is
\* stored, or fails to be; the length moves to the whole history whatever the
\* call gave.
Compress(t, answer, stored) ==
  LET s == runs[t].session
      next == Merged(runs[t].summary, runs[t].from, runs[t].len, answer)
  IN
  /\ runs[t].pc = "compress"
  /\ runs' = [runs EXCEPT ![t].pc = "append", ![t].summary = next]
  /\ compression' = IF stored
       THEN [compression EXCEPT ![s] = [len |-> runs[t].len, summary |-> next]]
       ELSE compression
  /\ skipped' = IF answer = "summary" THEN skipped ELSE skipped \union {s}
  /\ UNCHANGED <<limit, active, sessionCount, records, begun, replies>>

-----------------------------------------------------------------------------
(* The turn itself *)

\* The user's record is stored and the agent runs.
AppendUser(t) ==
  /\ runs[t].pc = "append"
  /\ records' = [records EXCEPT ![runs[t].session] = @ + 1]
  /\ runs' = [runs EXCEPT ![t].pc = "run"]
  /\ UNCHANGED <<limit, active, sessionCount, compression, skipped, begun, replies>>

\* persist_assistant_response_state: the answer is returned whether or not its
\* record could be stored.  A turn without an outbound answer, or whose stream was
\* aborted, ends the same way and stores nothing.
TurnAnswers(t, stored) ==
  /\ runs[t].pc = "run"
  /\ records' = [records EXCEPT ![runs[t].session] = IF stored THEN @ + 1 ELSE @]
  /\ runs' = [runs EXCEPT ![t] = NoRun]
  /\ UNCHANGED <<limit, active, sessionCount, compression, skipped, begun, replies>>

\* A storage error before the agent runs ends the turn.
AbandonTurn(t) ==
  /\ runs[t].pc \in {"read", "append"}
  /\ runs' = [runs EXCEPT ![t] = NoRun]
  /\ UNCHANGED <<limit, active, sessionCount, records, compression, skipped, begun,
                 replies>>

\* A record from elsewhere: an answer of the background queue
\* (drain_runtime_queue) or a message mirrored by the outbound dispatcher.
BackgroundReply(s) ==
  /\ s <= sessionCount /\ replies < MaxReplies
  /\ records' = [records EXCEPT ![s] = @ + 1]
  /\ replies' = replies + 1
  /\ UNCHANGED <<limit, active, sessionCount, compression, skipped, runs, begun>>

TurnNext ==
  \/ \E t \in Turns :
       \/ RouteTurn(t) \/ NewSession(t) \/ ReadHistory(t)
       \/ \E found \in BOOLEAN : ReadCompression(t, found)
       \/ \E answer \in {"summary", "unparsed", "failed"}, stored \in BOOLEAN :
            Compress(t, answer, stored)
       \/ AppendUser(t) \/ AbandonTurn(t)
       \/ \E stored \in BOOLEAN : TurnAnswers(t, stored)
  \/ \E s \in Sessions : BackgroundReply(s)

TurnSpec == TurnInit /\ [][TurnNext]_turnVars

-----------------------------------------------------------------------------
(* Properties *)

\* Lengths never pass the file: a turn and a compression state only know
\* records that exist.
TurnTypeOK ==
  /\ limit \in HistoryLimits /\ sessionCount \in Sessions
  /\ active \in 1 .. sessionCount /\ skipped \subseteq Sessions
  /\ records \in [Sessions -> Nat]
  /\ compression \in [Sessions -> [len : Nat, summary : Summaries]]
  /\ runs \in [Turns -> [pc : {"idle", "read", "refresh", "compress", "append", "run"},
                         session : Sessions, len : Nat, from : Nat, summary : Summaries]]
  /\ \A s \in Sessions : compression[s].len <= records[s]
  /\ \A t \in Turns : runs[t].session <= sessionCount /\ runs[t].len <= records[runs[t].session]

\* As long as every compression call of a session gave a summary, the stored
\* summary is made of exactly the records that last_compressed_len counts, in
\* every interleaving of turns that compress the same session and overwrite
\* each other's state (maybe_refresh_summary reads the state, awaits the model
\* and stores it without a check).
SummaryFaithful ==
  \A s \in Sessions \ skipped :
    compression[s].summary.covers = 1 .. compression[s].len

\* As long as every compression call of a session gave a summary, the history a
\* turn sends to the model leaves no record out that was there when the turn
\* read it: each is in the window or in the summary (build_history_for_model),
\* for every limit, one and zero included.
ContextComplete ==
  \A t \in Turns :
    runs[t].pc \in {"append", "run"} /\ runs[t].session \notin skipped
      => 1 .. runs[t].len \subseteq
           runs[t].summary.covers \union Window(runs[t].len, runs[t].summary.has)

\* The history stays within conversation_history_limit, the summary counted as
\* one entry (build_history_for_model), except that a limit of one admits both
\* the newest record and the summary.
ContextBounded ==
  \A t \in Turns :
    runs[t].pc = "append" /\ limit > 1
      => Cardinality(Window(runs[t].len, runs[t].summary.has))
           + (IF runs[t].summary.has THEN 1 ELSE 0) <= limit

\* What docs/src/storage/session.md says of compression: the summary stands for
\* the part of the history that was compressed, so the records that are counted
\* as compressed are in it, whatever the compression calls gave.
\* It does not hold and no run checks it (README.md).
CompressedIsSummarised ==
  \A s \in Sessions : compression[s].summary.covers = 1 .. compression[s].len
=============================================================================
