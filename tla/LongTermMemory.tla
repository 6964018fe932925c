--------------------------- MODULE LongTermMemory ---------------------------
(***************************************************************************)
(* The long_term rows of the memory database, the memory tool that adds    *)
(* to them under govern_long_term_write, the archiver that rolls stale     *)
(* rows up into summaries (archive_stale_long_term_memories) and the       *)
(* deletion of the memory panel.                                           *)
(*                                                                         *)
(* Both writers read all rows, decide, and store row by row with an upsert *)
(* that replaces the whole row; nothing makes the read and the writes one  *)
(* transaction.  All rows are of one kind and of low priority and have a   *)
(* topic; a row is told apart by its topic, content, status and pin.       *)
(***************************************************************************)
EXTENDS Naturals, FiniteSets

CONSTANTS Topics,     \* topics of the memories
          Texts,   \* contents after normalize_content
          Writers,    \* calls of the memory tool that may overlap
          Archivers,  \* archive runs that may overlap (a tick, run now)
          MaxRows,    \* bound: ids handed out
          MaxWrites   \* bound: calls of the memory tool

ASSUME MemoryAssumption == MaxRows \in Nat /\ MaxWrites \in Nat

VARIABLES memories,      \* the table, by id; absent rows have status "none"
          issued,    \* ids 1..issued were handed out
          writer,    \* the calls of the memory tool under way
          archiver,  \* the archive runs under way
          writes,    \* calls of the memory tool so far
          faults     \* history: what happened that the properties except

memoryVars == <<memories, issued, writer, archiver, writes, faults>>

RowIds == 1 .. MaxRows
NoRow == [status |-> "none", topic |-> "none", content |-> "none", summary |-> FALSE,
          pinned |-> FALSE, old |-> FALSE, by |-> 0, sources |-> {}]
NewMemory(topic, content, pinned) ==
  [status |-> "active", topic |-> topic, content |-> content, summary |-> FALSE,
   pinned |-> pinned, old |-> FALSE, by |-> 0, sources |-> {}]
NewSummary(topic, sources) ==
  [status |-> "active", topic |-> topic, content |-> "none", summary |-> TRUE,
   pinned |-> FALSE, old |-> FALSE, by |-> 0, sources |-> sources]
NoWriter == [pc |-> "idle", id |-> 0, row |-> NoRow, conflicts |-> {}, seen |-> <<>>]
NoArchiver == [pc |-> "idle", topic |-> "none", left |-> {}, sources |-> {},
               seen |-> <<>>, summary |-> 0]

Rows == [status : {"none", "active", "superseded", "archived"}, topic : Topics \union {"none"},
         content : Texts \union {"none"}, summary : BOOLEAN, pinned : BOOLEAN, old : BOOLEAN,
         by : 0 .. MaxRows, sources : SUBSET RowIds]
Calls == [pc : {"primary", "supersede"}, id : RowIds, row : Rows, conflicts : SUBSET RowIds,
          seen : [RowIds -> Rows]]
ArchiveRuns == [pc : {"summary", "rows"}, topic : Topics, left : SUBSET RowIds,
                sources : SUBSET RowIds, seen : [RowIds -> Rows], summary : RowIds]

MemoryInit ==
  /\ memories = [i \in RowIds |-> NoRow]
  /\ issued = 0 /\ writes = 0
  /\ writer = [w \in Writers |-> NoWriter]
  /\ archiver = [a \in Archivers |-> NoArchiver]
  /\ faults = {}

Active(r) == r.status = "active" /\ ~r.summary
Busy(f) == {x \in DOMAIN f : f[x].pc # "idle"}
CopyOf(ids) == [i \in RowIds |-> IF i \in ids THEN memories[i] ELSE NoRow]
Noting(fault, if) == IF if THEN faults \union {fault} ELSE faults

-----------------------------------------------------------------------------
(* memory add: add_long_term_memory with govern_long_term_write *)

\* The read and the plan: an active row with this content is reused and stays
\* pinned, the other active rows of the topic are to be superseded.
PlanWrite(w, topic, content, pinned) ==
  LET active == {i \in 1 .. issued : Active(memories[i])}
      duplicates == {i \in active : memories[i].content = content}
  IN
  /\ writer[w].pc = "idle" /\ writes < MaxWrites
  /\ \E id \in (IF duplicates = {} THEN {issued + 1} ELSE duplicates) \intersect RowIds :
       LET conflicts == {i \in active \ {id} : memories[i].topic = topic} IN
       /\ issued' = IF id > issued THEN id ELSE issued
       /\ writer' = [writer EXCEPT ![w] =
            [pc |-> "primary", id |-> id,
             row |-> NewMemory(topic, content, pinned \/ (id \in active /\ memories[id].pinned)),
             conflicts |-> conflicts, seen |-> CopyOf(conflicts)]]
  /\ writes' = writes + 1
  /\ faults' = Noting("overlap", Busy(writer) # {})
  /\ UNCHANGED <<memories, archiver>>

\* The primary row is stored first.
WritePrimary(w) ==
  /\ writer[w].pc = "primary"
  /\ memories' = [memories EXCEPT ![writer[w].id] = writer[w].row]
  /\ writer' = IF writer[w].conflicts = {}
                 THEN [writer EXCEPT ![w] = NoWriter]
                 ELSE [writer EXCEPT ![w].pc = "supersede"]
  /\ UNCHANGED <<issued, archiver, writes, faults>>

\* Mutant: the old rows may be marked before the new one is stored.
SupersedeFirst(w) ==
  /\ writer[w].pc \in {"primary", "supersede"}
  /\ \E i \in writer[w].conflicts :
       /\ memories' = [memories EXCEPT ![i] = [writer[w].seen[i] EXCEPT
                     !.status = "superseded", !.by = writer[w].id, !.old = FALSE]]
       /\ writer' = IF writer[w].conflicts = {i} /\ writer[w].pc = "supersede"
                      THEN [writer EXCEPT ![w] = NoWriter]
                      ELSE [writer EXCEPT ![w].conflicts = @ \ {i}]
  /\ UNCHANGED <<issued, archiver, writes, faults>>

\* Each conflicting row is stored as it was read, marked superseded.
Supersede(w) ==
  /\ writer[w].pc = "supersede"
  /\ \E i \in writer[w].conflicts :
       /\ memories' = [memories EXCEPT ![i] = [writer[w].seen[i] EXCEPT
                     !.status = "superseded", !.by = writer[w].id, !.old = FALSE]]
       /\ writer' = IF writer[w].conflicts = {i}
                      THEN [writer EXCEPT ![w] = NoWriter]
                      ELSE [writer EXCEPT ![w].conflicts = @ \ {i}]
  /\ UNCHANGED <<issued, archiver, writes, faults>>

\* A storage error, or the process ends, between two upserts.
WriteFails(w) ==
  /\ writer[w].pc # "idle"
  /\ writer' = [writer EXCEPT ![w] = NoWriter]
  /\ faults' = faults \union {"failed"}
  /\ UNCHANGED <<memories, issued, archiver, writes>>

-----------------------------------------------------------------------------
(* archive_stale_long_term_memories *)

\* Thirty days pass for a row.
GrowsOld(i) ==
  /\ memories[i].status # "none" /\ ~memories[i].old
  /\ memories' = [memories EXCEPT ![i].old = TRUE]
  /\ UNCHANGED <<issued, writer, archiver, writes, faults>>

Stale(topic) == {i \in RowIds : Active(memories[i]) /\ ~memories[i].pinned /\ memories[i].old
                                /\ memories[i].topic = topic}
ActiveSummaries(topic) == {i \in RowIds : memories[i].summary /\ memories[i].status = "active"
                                          /\ memories[i].topic = topic}

\* The read and the summaries' texts.  The groups of a run share nothing and are
\* stored one after the other, so a run is followed for one group, however late
\* its writes are.  The summary is the active one of the group, or a new row.
PlanArchive(a, topic) ==
  /\ archiver[a].pc = "idle" /\ Stale(topic) # {}
  /\ \E id \in (IF ActiveSummaries(topic) = {} THEN {issued + 1} ELSE ActiveSummaries(topic))
                \intersect RowIds :
       /\ issued' = IF id > issued THEN id ELSE issued
       /\ archiver' = [archiver EXCEPT ![a] =
            [pc |-> "summary", topic |-> topic, left |-> Stale(topic),
             sources |-> memories[id].sources \union Stale(topic),
             seen |-> CopyOf(Stale(topic)), summary |-> id]]
  /\ faults' = Noting("twice", Busy(archiver) # {})
  /\ UNCHANGED <<memories, writer, writes>>

\* Mutant: the earlier sources are not merged.
WriteSummaryAnew(a) ==
  /\ archiver[a].pc = "summary"
  /\ memories' = [memories EXCEPT ![archiver[a].summary] =
                     NewSummary(archiver[a].topic, archiver[a].left)]
  /\ archiver' = [archiver EXCEPT ![a].pc = "rows"]
  /\ UNCHANGED <<issued, writer, writes, faults>>

\* The summary is stored first, made of its earlier sources and the candidates.
WriteSummary(a) ==
  /\ archiver[a].pc = "summary"
  /\ memories' = [memories EXCEPT ![archiver[a].summary] =
                     NewSummary(archiver[a].topic, archiver[a].sources)]
  /\ archiver' = [archiver EXCEPT ![a].pc = "rows"]
  /\ UNCHANGED <<issued, writer, writes, faults>>

\* Each candidate is stored as it was read, marked archived, whatever happened
\* to the row meanwhile.
ArchiveRow(a) ==
  /\ archiver[a].pc = "rows"
  /\ \E i \in archiver[a].left :
       /\ memories' = [memories EXCEPT ![i] = [archiver[a].seen[i] EXCEPT
                     !.status = "archived", !.by = archiver[a].summary, !.old = FALSE]]
       /\ archiver' = IF archiver[a].left = {i}
                        THEN [archiver EXCEPT ![a] = NoArchiver]
                        ELSE [archiver EXCEPT ![a].left = @ \ {i}]
  /\ UNCHANGED <<issued, writer, writes, faults>>

ArchiveFails(a) ==
  /\ archiver[a].pc # "idle"
  /\ archiver' = [archiver EXCEPT ![a] = NoArchiver]
  /\ UNCHANGED <<memories, issued, writer, writes, faults>>

\* The memory panel deletes a row.
DeleteRow(i) ==
  /\ memories[i].status # "none"
  /\ memories' = [memories EXCEPT ![i] = NoRow]
  /\ faults' = faults \union {"deleted"}
  /\ UNCHANGED <<issued, writer, archiver, writes>>

MemoryNext ==
  \/ \E w \in Writers :
       \/ \E topic \in Topics, content \in Texts, pinned \in BOOLEAN :
            PlanWrite(w, topic, content, pinned)
       \/ WritePrimary(w) \/ Supersede(w) \/ WriteFails(w)
  \/ \E a \in Archivers :
       \/ \E topic \in Topics : PlanArchive(a, topic)
       \/ WriteSummary(a) \/ ArchiveRow(a) \/ ArchiveFails(a)
  \/ \E i \in RowIds : GrowsOld(i) \/ DeleteRow(i)

MemorySpec == MemoryInit /\ [][MemoryNext]_memoryVars

-----------------------------------------------------------------------------
(* Properties *)

\* Rows and plans keep their types, ids that were not handed out have no row, and
\* a row that is not active says which row replaced it.
MemoryTypeOK ==
  /\ memories \in [RowIds -> Rows] /\ issued \in 0 .. MaxRows /\ writes \in 0 .. MaxWrites
  /\ writer \in [Writers -> Calls \union {NoWriter}]
  /\ archiver \in [Archivers -> ArchiveRuns \union {NoArchiver}]
  /\ faults \subseteq {"overlap", "failed", "twice", "deleted"}
  /\ \A i \in RowIds :
       /\ i > issued => memories[i] = NoRow
       /\ memories[i].status \in {"superseded", "archived"} => memories[i].by \in RowIds

\* A superseded memory has the row that replaced it: however a call fails
\* between its upserts, the newer memory was stored before the older one was
\* marked (add_long_term_memory stores the primary row first), unless a user
\* deleted it.
SupersededHasHeir ==
  "deleted" \notin faults =>
    \A i \in RowIds : memories[i].status = "superseded" => memories[memories[i].by].status # "none"

\* An archived memory lives on in a summary: the active summary row named by it
\* lists it as a source, however a run fails between its upserts and whatever
\* calls of the memory tool run beside it, unless a user deleted rows or two
\* archive runs overlapped (archive_stale_long_term_memories stores the summary
\* first and merges the sources of the one that exists).
ArchivedIsSummarised ==
  {"deleted", "twice"} \intersect faults = {} =>
    \A i \in RowIds : memories[i].status = "archived" =>
      LET s == memories[memories[i].by] IN s.summary /\ s.status = "active" /\ i \in s.sources

\* As long as calls of the memory tool neither overlap nor fail, a topic has at
\* most one active memory between calls (govern_long_term_write supersedes the
\* rows of the topic), whatever the archiver does.
TopicSettled ==
  {"overlap", "failed"} \intersect faults = {} /\ Busy(writer) = {} =>
    \A i, j \in RowIds :
      Active(memories[i]) /\ Active(memories[j]) /\ memories[i].topic = memories[j].topic => i = j

\* The result docs/src/storage/memory.md promises of a conflicting write, "旧记录变为
\* `superseded`，新记录为 `active`，prompt 中只出现新记录": when no call is under way and
\* none failed, a topic has one active memory.
\* It does not hold and no run checks it (README.md).
TopicReplaced ==
  "failed" \notin faults /\ Busy(writer) = {} =>
    \A t \in Topics : Cardinality({i \in RowIds : Active(memories[i]) /\ memories[i].topic = t}) <= 1
=============================================================================
