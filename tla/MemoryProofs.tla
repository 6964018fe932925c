---------------------------- MODULE MemoryProofs ----------------------------
(***************************************************************************)
(* Proofs about the long-term memories, for any number of rows, calls and  *)
(* archive runs.  A row of the tool and a summary never share an id, so    *)
(* the writers and the archiver only meet on the rows to be archived.      *)
(***************************************************************************)
EXTENDS LongTermMemory, TLAPS

Calling(w) == writer[w] # NoWriter
Archiving(a) == archiver[a] # NoArchiver

\* What a call of the memory tool has in hand: ids of rows of the tool, and
\* active copies.
CallFacts(w) == Calling(w) =>
  LET c == writer[w] IN
  /\ c.id <= issued /\ ~memories[c.id].summary /\ c.id \notin c.conflicts
  /\ Active(c.row) /\ c.row.by = 0
  /\ c.pc = "supersede" => "deleted" \in faults \/ memories[c.id].status # "none"
  /\ \A i \in c.conflicts : i <= issued /\ ~memories[i].summary /\ Active(c.seen[i])

\* What an archive run has in hand: the id of a summary, which no call of the
\* tool uses, and copies of rows of the tool.
ArchiveFacts(a) == Archiving(a) =>
  LET r == archiver[a] IN
  /\ r.summary <= issued /\ r.left \subseteq r.sources
  /\ memories[r.summary].summary \/ memories[r.summary] = NoRow
  /\ \A w \in Writers : Calling(w) => r.summary # writer[w].id /\ r.summary \notin writer[w].conflicts
  /\ \A b \in Archivers : Archiving(b) => r.summary \notin archiver[b].left
  /\ \A i \in r.left : i <= issued /\ ~memories[i].summary /\ Active(r.seen[i])

\* While no run met another and nothing was deleted, the summary under way
\* keeps every source it has.
SummaryFacts(a) == Archiving(a) /\ {"deleted", "twice"} \intersect faults = {} =>
  LET r == archiver[a] IN
  /\ r.pc = "summary" => memories[r.summary].sources \subseteq r.sources
  /\ r.pc = "rows" => /\ memories[r.summary].summary /\ memories[r.summary].status = "active"
                      /\ memories[r.summary].sources = r.sources
  /\ \A b \in Archivers : Archiving(b) => b = a

MemoryInv ==
  /\ MemoryTypeOK
  /\ \A w \in Writers : CallFacts(w)
  /\ \A a \in Archivers : ArchiveFacts(a) /\ SummaryFacts(a)
  /\ \A i \in RowIds : memories[i].summary => memories[i].status \in {"none", "active"}
  /\ SupersededHasHeir
  /\ ArchivedIsSummarised

\* The call under way, when calls do not overlap, is going to supersede every
\* other active row of its topic.
TopicInv ==
  {"overlap", "failed"} \intersect faults = {} =>
    /\ \A v, w \in Writers : Calling(v) /\ Calling(w) => v = w
    /\ \A i, j \in RowIds :
         /\ Active(memories[i]) /\ Active(memories[j]) /\ memories[i].topic = memories[j].topic
         => \/ i = j
            \/ \E w \in Writers :
                 /\ Calling(w) /\ writer[w].pc = "supersede"
                 /\ i \in writer[w].conflicts \/ j \in writer[w].conflicts
    /\ \A w \in Writers : Calling(w) =>
         \A i \in RowIds : Active(memories[i]) /\ memories[i].topic = writer[w].row.topic =>
            i \in writer[w].conflicts \union {writer[w].id}

LEMMA MemoryStart == MemoryInit => MemoryInv
  <1> SUFFICES ASSUME MemoryInit PROVE MemoryInv
    BY Zenon
  <1>1. NoRow \in Rows /\ 0 \in 0 .. MaxRows /\ 0 \in 0 .. MaxWrites
    BY MemoryAssumption DEF NoRow, Rows
  <1>2. \A i \in RowIds : memories[i].status = "none" /\ ~memories[i].summary
    BY Zenon DEF MemoryInit, NoRow
  <1>3. MemoryTypeOK
    BY <1>1, <1>2, Zenon DEF MemoryInit, MemoryTypeOK
  <1> QED
    BY <1>2, <1>3, Zenon DEF MemoryInit, MemoryInv, CallFacts, ArchiveFacts, SummaryFacts, Calling, Archiving,
                      SupersededHasHeir, ArchivedIsSummarised

LEMMA PlanWriteOK ==
    ASSUME MemoryInv, NEW w \in Writers, NEW topic \in Topics, NEW content \in Texts,
           NEW pinned \in BOOLEAN, PlanWrite(w, topic, content, pinned)
    PROVE  MemoryInv'
  <1> DEFINE active == {i \in 1 .. issued : Active(memories[i])}
  <1>0. MemoryTypeOK /\ issued \in Nat /\ issued \in 0 .. MaxRows
    BY MemoryAssumption DEF MemoryInv, MemoryTypeOK
  <1> DEFINE duplicates == {i \in active : memories[i].content = content}
  <1>1. PICK id \in RowIds :
          /\ id = issued + 1 \/ id \in active
          /\ issued' = IF id > issued THEN id ELSE issued
          /\ writer' = [writer EXCEPT ![w] =
               [pc |-> "primary", id |-> id,
                row |-> NewMemory(topic, content, pinned \/ (id \in active /\ memories[id].pinned)),
                conflicts |-> {i \in active \ {id} : memories[i].topic = topic},
                seen |-> CopyOf({i \in active \ {id} : memories[i].topic = topic})]]
    <2>1. \A id \in (IF duplicates = {} THEN {issued + 1} ELSE duplicates) \intersect RowIds :
            id \in RowIds /\ (id = issued + 1 \/ id \in active)
      BY Zenon
    <2> QED
      BY <2>1, Zenon DEF PlanWrite
  <1>p. PICK pin \in BOOLEAN : pin = (pinned \/ (id \in active /\ memories[id].pinned))
    BY Zenon
  <1> DEFINE conflicts == {i \in active \ {id} : memories[i].topic = topic}
             row == NewMemory(topic, content, pin)
             call == [pc |-> "primary", id |-> id, row |-> row, conflicts |-> conflicts,
                      seen |-> CopyOf(conflicts)]
  <1>2. /\ writer' = [writer EXCEPT ![w] = call] /\ writes' = writes + 1 /\ writes < MaxWrites
        /\ faults' \in {faults, faults \union {"overlap"}}
        /\ UNCHANGED <<memories, archiver>>
    <2>1. writer' = [writer EXCEPT ![w] = call]
      <3>1. CASE pin = TRUE
        BY <1>1, <1>p, <3>1, Zenon
      <3>2. CASE pin = FALSE
        BY <1>1, <1>p, <3>2, Zenon
      <3> QED
        BY <3>1, <3>2, Zenon
    <2> QED
      BY <2>1, Zenon DEF PlanWrite, Noting
  <1>3. /\ row \in Rows /\ Active(row) /\ row.by = 0
    <2>2. row.status = "active" /\ row.summary = FALSE /\ row.by = 0
      BY Zenon DEF NewMemory
    <2>3. row \in Rows
      BY MemoryAssumption DEF NewMemory, Rows
    <2> QED
      BY <2>2, <2>3, Zenon DEF Active
  <1>4. /\ \A i \in conflicts : i \in 1 .. issued /\ i \in RowIds /\ Active(memories[i]) /\ i # id
        /\ CopyOf(conflicts) \in [RowIds -> Rows]
        /\ \A i \in conflicts : CopyOf(conflicts)[i] = memories[i]
    <2>1. \A i \in conflicts : i \in 1 .. issued /\ i \in RowIds /\ Active(memories[i]) /\ i # id
      BY <1>0, MemoryAssumption DEF RowIds
    <2>2. NoRow \in Rows
      BY MemoryAssumption DEF NoRow, Rows
    <2> HIDE DEF conflicts
    <2> QED
      BY <1>0, <2>1, <2>2, Zenon DEF CopyOf, MemoryTypeOK
  <1> HIDE DEF row, conflicts
  <1>5. /\ call \in Calls /\ call # NoWriter
        /\ call.id = id /\ call.pc = "primary" /\ call.row = row
        /\ call.conflicts = conflicts /\ call.seen = CopyOf(conflicts)
    BY <1>3, <1>4, Zenon DEF Calls, NoWriter
  <1> HIDE DEF call
  <1>6. /\ writer' \in [Writers -> Calls \union {NoWriter}]
        /\ writer'[w] = call /\ \A v \in Writers \ {w} : writer'[v] = writer[v]
    BY <1>0, <1>2, <1>5, Zenon DEF MemoryTypeOK
  <1>7. /\ issued' \in 0 .. MaxRows /\ issued' >= issued /\ id <= issued' /\ writes' \in 0 .. MaxWrites
        /\ \A i \in RowIds : i <= issued => i <= issued'
        /\ id > issued => memories[id] = NoRow
    <2>1. id \in 1 .. MaxRows /\ writes \in 0 .. MaxWrites
      BY <1>0, Zenon DEF RowIds, MemoryTypeOK
    <2> QED
      BY <1>0, <1>1, <1>2, <2>1, MemoryAssumption DEF RowIds, MemoryTypeOK
  <1>8. ~memories[id].summary
    <2>1. CASE id \in active
      BY <2>1, Zenon DEF Active
    <2>2. CASE id = issued + 1
      BY <1>0, <1>7, <2>2 DEF NoRow
    <2> QED
      BY <1>1, <2>1, <2>2, Zenon
  <1> HIDE DEF active
  <1>9. MemoryTypeOK'
    BY <1>0, <1>2, <1>6, <1>7, MemoryAssumption DEF MemoryTypeOK, RowIds
  <1>10. ASSUME NEW v \in Writers PROVE CallFacts(v)'
    <2>1. CASE v = w
      BY <1>2, <1>3, <1>4, <1>5, <1>6, <1>7, <1>8, <2>1, <1>0, MemoryAssumption DEF CallFacts, Calling, Active, RowIds
    <2>2. CASE v # w
      <3>1. CallFacts(v) /\ writer'[v] = writer[v]
        BY <1>6, <2>2, Zenon DEF MemoryInv
      <3>2. Calling(v) => writer[v].id \in RowIds /\ writer[v].conflicts \subseteq RowIds
        BY <1>0, Zenon DEF Calling, MemoryTypeOK, Calls
      <3> QED
        BY <1>2, <1>7, <3>1, <3>2, Zenon DEF CallFacts, Calling
    <2> QED
      BY <2>1, <2>2, Zenon
  <1>11. ASSUME NEW a \in Archivers PROVE ArchiveFacts(a)' /\ SummaryFacts(a)'
    <2>1. ArchiveFacts(a) /\ SummaryFacts(a) /\ archiver' = archiver /\ memories' = memories
      BY <1>2, Zenon DEF MemoryInv
    <2>2. Archiving(a) => archiver[a].summary \in RowIds /\ archiver[a].left \subseteq RowIds
      BY <1>0, Zenon DEF Archiving, MemoryTypeOK, ArchiveRuns
    <2>3. Archiving(a) => archiver[a].summary # id /\ archiver[a].summary \notin conflicts
      <3> SUFFICES ASSUME Archiving(a) PROVE archiver[a].summary # id /\ archiver[a].summary \notin conflicts
        BY Zenon
      <3>1. archiver[a].summary <= issued /\ ~Active(memories[archiver[a].summary])
        BY <2>1 DEF ArchiveFacts, Active, NoRow
      <3> QED
        BY <1>0, <1>1, <1>4, <3>1 DEF active
    <2>4. ArchiveFacts(a)'
      BY <1>5, <1>6, <1>7, <2>1, <2>2, <2>3, Zenon DEF ArchiveFacts, Archiving, Calling
    <2>5. SummaryFacts(a)'
      BY <1>2, <2>1, Zenon DEF SummaryFacts, Archiving
    <2> QED
      BY <2>4, <2>5, Zenon
  <1> QED
    BY <1>2, <1>9, <1>10, <1>11, Zenon DEF MemoryInv, SupersededHasHeir, ArchivedIsSummarised

LEMMA WritePrimaryOK ==
    ASSUME MemoryInv, NEW w \in Writers, WritePrimary(w)
    PROVE  MemoryInv'
  <1>0. /\ MemoryTypeOK /\ CallFacts(w) /\ Calling(w) /\ writer[w] \in Calls
        /\ UNCHANGED <<issued, archiver, writes, faults>>
    BY DEF MemoryInv, MemoryTypeOK, Calling, WritePrimary, NoWriter
  <1> DEFINE k == writer[w].id
             r == writer[w].row
  <1>1. k \in RowIds /\ r \in Rows /\ r.status = "active" /\ ~r.summary /\ k <= issued
    BY <1>0, Zenon DEF Calls, CallFacts, Active
  <1>2. /\ memories' \in [RowIds -> Rows] /\ memories'[k] = r
        /\ \A i \in RowIds \ {k} : memories'[i] = memories[i]
    BY <1>0, <1>1, Zenon DEF WritePrimary, MemoryTypeOK
  <1>3. /\ writer' \in [Writers -> Calls \union {NoWriter}]
        /\ \A v \in Writers \ {w} : writer'[v] = writer[v]
        /\ Calling(w)' => /\ writer'[w].id = k /\ writer'[w].row = r
                          /\ writer'[w].conflicts = writer[w].conflicts
                          /\ writer'[w].seen = writer[w].seen
    <2>1. CASE writer[w].conflicts = {}
      BY <1>0, <2>1, Zenon DEF WritePrimary, MemoryTypeOK, Calling
    <2>2. CASE writer[w].conflicts # {}
      <3> DEFINE c == [writer[w] EXCEPT !.pc = "supersede"]
      <3>1. /\ c \in Calls /\ c.id = k /\ c.row = r /\ c.conflicts = writer[w].conflicts
            /\ c.seen = writer[w].seen
        BY <1>0, Zenon DEF Calls
      <3>2. writer' = [writer EXCEPT ![w] = c]
        BY <2>2, Zenon DEF WritePrimary
      <3> HIDE DEF c
      <3> QED
        BY <1>0, <3>1, <3>2, Zenon DEF MemoryTypeOK
    <2> QED
      BY <2>1, <2>2, Zenon
  <1> HIDE DEF k, r
  <1>4. MemoryTypeOK'
    BY <1>0, <1>1, <1>2, <1>3, MemoryAssumption, SMTT(30) DEF MemoryTypeOK, RowIds
  <1>5. ASSUME NEW v \in Writers PROVE CallFacts(v)'
    <2>1. CallFacts(v) /\ (Calling(v) => writer[v].id \in RowIds /\ writer[v].conflicts \subseteq RowIds)
      BY <1>0, Zenon DEF MemoryInv, MemoryTypeOK, Calls, Calling
    <2>2. CASE v = w
      BY <1>0, <1>1, <1>2, <1>3, <2>1, <2>2, Zenon DEF CallFacts, Calling, k, r
    <2>3. CASE v # w
      BY <1>0, <1>1, <1>2, <1>3, <2>1, <2>3 DEF CallFacts, Calling
    <2> QED
      BY <2>2, <2>3, Zenon
  <1>6. ASSUME NEW a \in Archivers PROVE ArchiveFacts(a)' /\ SummaryFacts(a)'
    <2>1. /\ ArchiveFacts(a) /\ SummaryFacts(a)
          /\ Archiving(a) => archiver[a].summary \in RowIds /\ archiver[a].left \subseteq RowIds
      BY <1>0, Zenon DEF MemoryInv, MemoryTypeOK, ArchiveRuns, Archiving
    <2>2. Archiving(a) => archiver[a].summary # k
      BY <1>0, <2>1, Zenon DEF ArchiveFacts, k
    <2>3. ArchiveFacts(a)'
      BY <1>0, <1>1, <1>2, <1>3, <2>1, <2>2 DEF ArchiveFacts, Archiving, Calling, k
    <2>4. SummaryFacts(a)'
      BY <1>0, <1>2, <2>1, <2>2, Zenon DEF SummaryFacts, Archiving
    <2> QED
      BY <2>3, <2>4, Zenon
  <1>7. \A i \in RowIds : memories[i].status \in {"superseded", "archived"} => memories[i].by \in RowIds
    BY <1>0, Zenon DEF MemoryTypeOK
  <1>8. SupersededHasHeir'
    <2> SUFFICES ASSUME "deleted" \notin faults, NEW i \in RowIds, memories'[i].status = "superseded"
                 PROVE  memories'[memories'[i].by].status # "none"
      BY <1>0, Zenon DEF SupersededHasHeir
    <2>1. i # k /\ memories'[i] = memories[i]
      BY <1>1, <1>2, Zenon
    <2>2. memories[memories[i].by].status # "none"
      BY <2>1, Zenon DEF MemoryInv, SupersededHasHeir
    <2> QED
      BY <1>1, <1>2, <1>7, <2>1, <2>2, Zenon
  <1>9. ArchivedIsSummarised'
    <2> SUFFICES ASSUME {"deleted", "twice"} \intersect faults = {}, NEW i \in RowIds,
                        memories'[i].status = "archived"
                 PROVE  LET s == memories'[memories'[i].by]
                        IN s.summary /\ s.status = "active" /\ i \in s.sources
      BY <1>0, Zenon DEF ArchivedIsSummarised
    <2>1. i # k /\ memories'[i] = memories[i]
      BY <1>1, <1>2, Zenon
    <2>2. LET s == memories[memories[i].by] IN s.summary /\ s.status = "active" /\ i \in s.sources
      BY <2>1, Zenon DEF MemoryInv, ArchivedIsSummarised
    <2> QED
      BY <1>0, <1>1, <1>2, <1>7, <2>1, <2>2, Zenon DEF CallFacts, k
  <1> QED
    BY <1>1, <1>2, <1>4, <1>5, <1>6, <1>8, <1>9, Zenon DEF MemoryInv

LEMMA SupersedeOK ==
    ASSUME MemoryInv, NEW w \in Writers, Supersede(w)
    PROVE  MemoryInv'
  <1>0. /\ MemoryTypeOK /\ CallFacts(w) /\ Calling(w) /\ writer[w] \in Calls
        /\ writer[w].pc = "supersede" /\ UNCHANGED <<issued, archiver, writes, faults>>
    BY DEF MemoryInv, MemoryTypeOK, Calling, Supersede, NoWriter
  <1>p. PICK k \in writer[w].conflicts :
          /\ memories' = [memories EXCEPT ![k] = [writer[w].seen[k] EXCEPT
                            !.status = "superseded", !.by = writer[w].id, !.old = FALSE]]
          /\ writer' = IF writer[w].conflicts = {k}
                         THEN [writer EXCEPT ![w] = NoWriter]
                         ELSE [writer EXCEPT ![w].conflicts = @ \ {k}]
    BY Zenon DEF Supersede
  <1> DEFINE r == [writer[w].seen[k] EXCEPT !.status = "superseded", !.by = writer[w].id, !.old = FALSE]
  <1>1. /\ k \in RowIds /\ k <= issued /\ writer[w].id \in RowIds /\ writer[w].id # k
        /\ r \in Rows /\ r.status = "superseded" /\ ~r.summary /\ r.by = writer[w].id
    <2>1. /\ k \in RowIds /\ k <= issued /\ writer[w].id \in RowIds /\ writer[w].id # k
          /\ writer[w].seen[k] \in Rows /\ ~writer[w].seen[k].summary
      BY <1>0, Zenon DEF Calls, CallFacts, Active
    <2>2. writer[w].id \in 0 .. MaxRows
      BY <2>1, MemoryAssumption DEF RowIds
    <2> QED
      BY <2>1, <2>2, Zenon DEF Rows
  <1>2. /\ memories' \in [RowIds -> Rows] /\ memories'[k] = r
        /\ \A i \in RowIds \ {k} : memories'[i] = memories[i]
    BY <1>0, <1>1, <1>p, Zenon DEF MemoryTypeOK
  <1>3. /\ writer' \in [Writers -> Calls \union {NoWriter}]
        /\ \A v \in Writers \ {w} : writer'[v] = writer[v]
        /\ Calling(w)' => /\ writer'[w].id = writer[w].id /\ writer'[w].row = writer[w].row
                          /\ writer'[w].conflicts = writer[w].conflicts \ {k}
                          /\ writer'[w].seen = writer[w].seen
    <2>1. CASE writer[w].conflicts = {k}
      BY <1>0, <1>p, <2>1, Zenon DEF MemoryTypeOK, Calling
    <2>2. CASE writer[w].conflicts # {k}
      <3> DEFINE c == [writer[w] EXCEPT !.conflicts = @ \ {k}]
      <3>1. /\ c \in Calls /\ c.id = writer[w].id /\ c.row = writer[w].row
            /\ c.conflicts = writer[w].conflicts \ {k} /\ c.seen = writer[w].seen
        BY <1>0, Zenon DEF Calls
      <3>2. writer' = [writer EXCEPT ![w] = c]
        BY <1>p, <2>2, Zenon
      <3> HIDE DEF c
      <3> QED
        BY <1>0, <3>1, <3>2, Zenon DEF MemoryTypeOK
    <2> QED
      BY <2>1, <2>2, Zenon
  <1> HIDE DEF r
  <1>4. MemoryTypeOK'
    BY <1>0, <1>1, <1>2, <1>3, MemoryAssumption DEF MemoryTypeOK, RowIds
  <1>5. ASSUME NEW v \in Writers PROVE CallFacts(v)'
    <2>1. CallFacts(v) /\ (Calling(v) => writer[v].id \in RowIds /\ writer[v].conflicts \subseteq RowIds)
      BY <1>0, Zenon DEF MemoryInv, MemoryTypeOK, Calls, Calling
    <2>2. CASE v = w
      BY <1>0, <1>1, <1>2, <1>3, <2>1, <2>2 DEF CallFacts, Calling
    <2>3. CASE v # w
      BY <1>0, <1>1, <1>2, <1>3, <2>1, <2>3 DEF CallFacts, Calling
    <2> QED
      BY <2>2, <2>3, Zenon
  <1>6. ASSUME NEW a \in Archivers PROVE ArchiveFacts(a)' /\ SummaryFacts(a)'
    <2>1. /\ ArchiveFacts(a) /\ SummaryFacts(a)
          /\ Archiving(a) => archiver[a].summary \in RowIds /\ archiver[a].left \subseteq RowIds
      BY <1>0, Zenon DEF MemoryInv, MemoryTypeOK, ArchiveRuns, Archiving
    <2>2. Archiving(a) => archiver[a].summary # k
      BY <1>0, <2>1, Zenon DEF ArchiveFacts
    <2>3. ArchiveFacts(a)'
      BY <1>0, <1>1, <1>2, <1>3, <2>1, <2>2 DEF ArchiveFacts, Archiving, Calling
    <2>4. SummaryFacts(a)'
      BY <1>0, <1>2, <2>1, <2>2, Zenon DEF SummaryFacts, Archiving
    <2> QED
      BY <2>3, <2>4, Zenon
  <1>7. \A i \in RowIds : memories[i].status \in {"superseded", "archived"} => memories[i].by \in RowIds
    BY <1>0, Zenon DEF MemoryTypeOK
  <1>8. SupersededHasHeir'
    <2> SUFFICES ASSUME "deleted" \notin faults, NEW i \in RowIds, memories'[i].status = "superseded"
                 PROVE  memories'[memories'[i].by].status # "none"
      BY <1>0, Zenon DEF SupersededHasHeir
    <2>1. CASE i = k
      BY <1>0, <1>1, <1>2, <2>1, Zenon DEF CallFacts
    <2>2. CASE i # k
      <3>1. memories'[i] = memories[i]
        BY <1>1, <1>2, <2>2, Zenon
      <3>2. memories[memories[i].by].status # "none"
        BY <3>1, Zenon DEF MemoryInv, SupersededHasHeir
      <3> QED
        BY <1>1, <1>2, <1>7, <3>1, <3>2, Zenon
    <2> QED
      BY <2>1, <2>2, Zenon
  <1>9. ArchivedIsSummarised'
    <2> SUFFICES ASSUME {"deleted", "twice"} \intersect faults = {}, NEW i \in RowIds,
                        memories'[i].status = "archived"
                 PROVE  LET s == memories'[memories'[i].by]
                        IN s.summary /\ s.status = "active" /\ i \in s.sources
      BY <1>0, Zenon DEF ArchivedIsSummarised
    <2>1. i # k /\ memories'[i] = memories[i]
      BY <1>1, <1>2, Zenon
    <2>2. LET s == memories[memories[i].by] IN s.summary /\ s.status = "active" /\ i \in s.sources
      BY <2>1, Zenon DEF MemoryInv, ArchivedIsSummarised
    <2> QED
      BY <1>0, <1>1, <1>2, <1>7, <2>1, <2>2, Zenon DEF CallFacts
  <1> QED
    BY <1>1, <1>2, <1>4, <1>5, <1>6, <1>8, <1>9, Zenon DEF MemoryInv

LEMMA WriteFailsOK ==
    ASSUME MemoryInv, NEW w \in Writers, WriteFails(w)
    PROVE  MemoryInv'
  <1>0. /\ MemoryTypeOK /\ UNCHANGED <<memories, issued, archiver, writes>>
        /\ faults' = faults \union {"failed"}
        /\ writer' = [writer EXCEPT ![w] = NoWriter]
    BY Zenon DEF MemoryInv, WriteFails
  <1>1. /\ writer' \in [Writers -> Calls \union {NoWriter}]
        /\ \A v \in Writers : writer'[v] \in {writer[v], NoWriter}
    BY <1>0, Zenon DEF MemoryTypeOK
  <1>2. MemoryTypeOK'
    BY <1>0, <1>1, Zenon DEF MemoryTypeOK
  <1>3. ASSUME NEW v \in Writers PROVE CallFacts(v)'
    BY <1>0, <1>1, Zenon DEF MemoryInv, CallFacts, Calling
  <1>4. ASSUME NEW a \in Archivers PROVE ArchiveFacts(a)' /\ SummaryFacts(a)'
    <2>1. ArchiveFacts(a)'
      BY <1>0, <1>1, Zenon DEF MemoryInv, ArchiveFacts, Archiving, Calling
    <2>2. SummaryFacts(a)'
      BY <1>0, Zenon DEF MemoryInv, SummaryFacts, Archiving
    <2> QED
      BY <2>1, <2>2, Zenon
  <1> QED
    BY <1>0, <1>2, <1>3, <1>4, Zenon DEF MemoryInv, SupersededHasHeir, ArchivedIsSummarised

LEMMA GrowsOldOK ==
    ASSUME MemoryInv, NEW k \in RowIds, GrowsOld(k)
    PROVE  MemoryInv'
  <1>0. MemoryTypeOK /\ UNCHANGED <<issued, writer, archiver, writes, faults>>
    BY Zenon DEF MemoryInv, GrowsOld
  <1> DEFINE r == [memories[k] EXCEPT !.old = TRUE]
  <1>1. /\ r \in Rows /\ r.status = memories[k].status /\ (r.summary <=> memories[k].summary)
        /\ r.by = memories[k].by /\ r.sources = memories[k].sources /\ memories[k] # NoRow
    <2>1. memories[k] \in Rows
      BY <1>0, Zenon DEF MemoryTypeOK
    <2>2. memories[k] # NoRow
      BY DEF GrowsOld, NoRow
    <2>3. /\ r \in Rows /\ r.status = memories[k].status
          /\ r.by = memories[k].by /\ r.sources = memories[k].sources
      BY <2>1, Zenon DEF Rows
    <2>4. r.summary <=> memories[k].summary
      BY <2>1, Zenon DEF Rows
    <2> QED
      BY <2>2, <2>3, <2>4, Zenon
  <1>2. memories' = [memories EXCEPT ![k] = r]
    BY Zenon DEF GrowsOld
  <1> HIDE DEF r
  <1>3. /\ memories' \in [RowIds -> Rows] /\ memories'[k] = r
        /\ \A i \in RowIds \ {k} : memories'[i] = memories[i]
    BY <1>0, <1>1, <1>2, Zenon DEF MemoryTypeOK
  <1>4. MemoryTypeOK'
    BY <1>0, <1>1, <1>3, Zenon DEF MemoryTypeOK
  <1>5. ASSUME NEW v \in Writers PROVE CallFacts(v)'
    <2>1. Calling(v) => writer[v].id \in RowIds /\ writer[v].conflicts \subseteq RowIds
      BY <1>0, Zenon DEF MemoryTypeOK, Calls, Calling
    <2> QED
      BY <1>0, <1>1, <1>3, <2>1 DEF MemoryInv, CallFacts, Calling
  <1>6. ASSUME NEW a \in Archivers PROVE ArchiveFacts(a)' /\ SummaryFacts(a)'
    <2>1. Archiving(a) => archiver[a].summary \in RowIds /\ archiver[a].left \subseteq RowIds
      BY <1>0, Zenon DEF MemoryTypeOK, ArchiveRuns, Archiving
    <2>2. ArchiveFacts(a)'
      BY <1>0, <1>1, <1>3, <2>1 DEF MemoryInv, ArchiveFacts, Archiving, Calling
    <2>3. SummaryFacts(a)'
      BY <1>0, <1>1, <1>3, <2>1 DEF MemoryInv, SummaryFacts, Archiving
    <2> QED
      BY <2>2, <2>3, Zenon
  <1>7. SupersededHasHeir' /\ ArchivedIsSummarised'
    BY <1>0, <1>1, <1>3 DEF MemoryInv, MemoryTypeOK, SupersededHasHeir, ArchivedIsSummarised
  <1> QED
    BY <1>1, <1>3, <1>4, <1>5, <1>6, <1>7, Zenon DEF MemoryInv

LEMMA DeleteRowOK ==
    ASSUME MemoryInv, NEW k \in RowIds, DeleteRow(k)
    PROVE  MemoryInv'
  <1>0. /\ MemoryTypeOK /\ UNCHANGED <<issued, writer, archiver, writes>>
        /\ faults' = faults \union {"deleted"} /\ memories' = [memories EXCEPT ![k] = NoRow]
    BY Zenon DEF MemoryInv, DeleteRow
  <1>1. NoRow \in Rows /\ NoRow.status = "none" /\ ~NoRow.summary
    BY MemoryAssumption DEF NoRow, Rows
  <1>2. /\ memories' \in [RowIds -> Rows]
        /\ \A i \in RowIds : memories'[i] \in {memories[i], NoRow}
    BY <1>0, <1>1, Zenon DEF MemoryTypeOK
  <1>3. MemoryTypeOK'
    BY <1>0, <1>1, <1>2, Zenon DEF MemoryTypeOK
  <1>4. ASSUME NEW v \in Writers PROVE CallFacts(v)'
    <2>1. Calling(v) => writer[v].id \in RowIds /\ writer[v].conflicts \subseteq RowIds
      BY <1>0, Zenon DEF MemoryTypeOK, Calls, Calling
    <2> QED
      BY <1>0, <1>1, <1>2, <2>1, Zenon DEF MemoryInv, CallFacts, Calling
  <1>5. ASSUME NEW a \in Archivers PROVE ArchiveFacts(a)' /\ SummaryFacts(a)'
    <2>1. Archiving(a) => archiver[a].summary \in RowIds /\ archiver[a].left \subseteq RowIds
      BY <1>0, Zenon DEF MemoryTypeOK, ArchiveRuns, Archiving
    <2>2. ArchiveFacts(a)'
      BY <1>0, <1>1, <1>2, <2>1, Zenon DEF MemoryInv, ArchiveFacts, Archiving, Calling
    <2>3. SummaryFacts(a)'
      BY <1>0, Zenon DEF SummaryFacts
    <2> QED
      BY <2>2, <2>3, Zenon
  <1>6. SupersededHasHeir' /\ ArchivedIsSummarised'
    BY <1>0, Zenon DEF SupersededHasHeir, ArchivedIsSummarised
  <1> QED
    BY <1>1, <1>2, <1>3, <1>4, <1>5, <1>6, Zenon DEF MemoryInv

LEMMA PlanArchiveOK ==
    ASSUME MemoryInv, NEW a \in Archivers, NEW topic \in Topics, PlanArchive(a, topic)
    PROVE  MemoryInv'
  <1> DEFINE stale == Stale(topic)
  <1>0. /\ MemoryTypeOK /\ issued \in Nat /\ issued \in 0 .. MaxRows
        /\ UNCHANGED <<memories, writer, writes>>
        /\ ~Archiving(a) /\ faults' = Noting("twice", Busy(archiver) # {})
    BY MemoryAssumption DEF MemoryInv, MemoryTypeOK, PlanArchive, Archiving, ArchiveRuns
  <1>1. PICK id \in RowIds :
          /\ id = issued + 1 \/ id \in ActiveSummaries(topic)
          /\ issued' = IF id > issued THEN id ELSE issued
          /\ archiver' = [archiver EXCEPT ![a] =
               [pc |-> "summary", topic |-> topic, left |-> stale,
                sources |-> memories[id].sources \union stale,
                seen |-> CopyOf(stale), summary |-> id]]
    <2>1. \A id \in (IF ActiveSummaries(topic) = {} THEN {issued + 1} ELSE ActiveSummaries(topic))
                      \intersect RowIds :
            id \in RowIds /\ (id = issued + 1 \/ id \in ActiveSummaries(topic))
      BY Zenon
    <2> QED
      BY <2>1, Zenon DEF PlanArchive
  <1>2. /\ \A i \in stale : i \in RowIds /\ Active(memories[i]) /\ i <= issued /\ ~memories[i].summary
        /\ CopyOf(stale) \in [RowIds -> Rows]
        /\ \A i \in stale : CopyOf(stale)[i] = memories[i]
        /\ stale \subseteq RowIds
    <2>1. \A i \in stale : i \in RowIds /\ Active(memories[i])
      BY Zenon DEF Stale
    <2>2. \A i \in stale : i <= issued
      <3> SUFFICES ASSUME NEW i \in stale, i > issued PROVE FALSE
        BY <1>0, <2>1, MemoryAssumption DEF RowIds
      <3>1. memories[i] = NoRow /\ Active(memories[i])
        BY <1>0, <2>1, Zenon DEF MemoryTypeOK
      <3> QED
        BY <3>1 DEF Active, NoRow
    <2>3. NoRow \in Rows
      BY MemoryAssumption DEF NoRow, Rows
    <2> HIDE DEF stale
    <2>4. CopyOf(stale) \in [RowIds -> Rows] /\ \A i \in stale : CopyOf(stale)[i] = memories[i]
      BY <1>0, <2>1, <2>3, Zenon DEF CopyOf, MemoryTypeOK
    <2> QED
      BY <2>1, <2>2, <2>4, Zenon DEF Active
  <1> HIDE DEF stale
  <1> DEFINE run == [pc |-> "summary", topic |-> topic, left |-> stale,
                     sources |-> memories[id].sources \union stale,
                     seen |-> CopyOf(stale), summary |-> id]
  <1>3. /\ memories[id].summary \/ memories[id] = NoRow
        /\ memories[id].sources \subseteq RowIds
        /\ issued' \in 0 .. MaxRows /\ id <= issued'
        /\ \A i \in RowIds : i <= issued => i <= issued'
    <2>1. id \in 1 .. MaxRows
      BY Zenon DEF RowIds
    <2>2. memories[id].sources \subseteq RowIds
      BY <1>0, Zenon DEF MemoryTypeOK, Rows
    <2>3. CASE id = issued + 1
      BY <1>0, <1>1, <2>1, <2>2, <2>3, MemoryAssumption DEF MemoryTypeOK, RowIds
    <2>4. CASE id \in ActiveSummaries(topic)
      BY <1>0, <1>1, <2>1, <2>2, <2>4, MemoryAssumption DEF ActiveSummaries, RowIds
    <2> QED
      BY <1>1, <2>3, <2>4, Zenon
  <1>4. /\ run \in ArchiveRuns /\ run # NoArchiver /\ run.pc = "summary" /\ run.summary = id
        /\ run.left = stale /\ run.sources = memories[id].sources \union stale
        /\ run.seen = CopyOf(stale)
    <2>1. memories[id].sources \union stale \subseteq RowIds
      BY <1>2, <1>3, Zenon
    <2> QED
      BY <1>2, <2>1, Zenon DEF ArchiveRuns, NoArchiver
  <1> HIDE DEF run
  <1>5. /\ archiver' \in [Archivers -> ArchiveRuns \union {NoArchiver}]
        /\ archiver'[a] = run /\ \A b \in Archivers \ {a} : archiver'[b] = archiver[b]
    <2>1. archiver' = [archiver EXCEPT ![a] = run]
      BY <1>1, Zenon DEF run
    <2> QED
      BY <1>0, <1>4, <2>1, Zenon DEF MemoryTypeOK
  <1>6. MemoryTypeOK'
    <2>1. faults' \subseteq {"overlap", "failed", "twice", "deleted"}
      BY <1>0, Zenon DEF MemoryTypeOK, Noting
    <2>2. \A i \in RowIds : i > issued' => i > issued
      BY <1>0, <1>3, MemoryAssumption DEF RowIds
    <2> QED
      BY <1>0, <1>3, <1>5, <2>1, <2>2, Zenon DEF MemoryTypeOK
  <1>7. ASSUME NEW v \in Writers PROVE CallFacts(v)'
    <2>1. Calling(v) => writer[v].id \in RowIds /\ writer[v].conflicts \subseteq RowIds
      BY <1>0, Zenon DEF MemoryTypeOK, Calls, Calling
    <2>2. "deleted" \in faults => "deleted" \in faults'
      BY <1>0, Zenon DEF Noting
    <2> QED
      BY <1>0, <1>3, <2>1, <2>2, Zenon DEF MemoryInv, CallFacts, Calling
  \* The summary is nobody else's row.
  <1>8. /\ \A v \in Writers : Calling(v) => id # writer[v].id /\ id \notin writer[v].conflicts
        /\ \A b \in Archivers : Archiving(b) => id \notin archiver[b].left
        /\ id \notin stale
    <2>1. CASE id = issued + 1
      <3>1. \A i \in RowIds : i <= issued => i # id
        BY <1>0, <2>1
      <3>2. ASSUME NEW v \in Writers, Calling(v) PROVE id # writer[v].id /\ id \notin writer[v].conflicts
        BY <1>0, <3>1, <3>2, Zenon DEF MemoryInv, CallFacts, MemoryTypeOK, Calls, Calling
      <3>3. ASSUME NEW b \in Archivers, Archiving(b) PROVE id \notin archiver[b].left
        BY <1>0, <3>1, <3>3, Zenon DEF MemoryInv, ArchiveFacts, MemoryTypeOK, ArchiveRuns, Archiving
      <3> QED
        BY <1>2, <3>1, <3>2, <3>3, Zenon
    <2>2. CASE id \in ActiveSummaries(topic)
      <3>1. memories[id].summary
        BY <2>2, Zenon DEF ActiveSummaries
      <3> QED
        BY <1>2, <3>1, Zenon DEF MemoryInv, CallFacts, ArchiveFacts, Active
    <2> QED
      BY <1>1, <2>1, <2>2, Zenon
  <1>9. ASSUME NEW b \in Archivers PROVE ArchiveFacts(b)'
    <2>1. CASE b = a
      <3>1. \A c \in Archivers : archiver'[c] # NoArchiver => id \notin archiver'[c].left
        BY <1>4, <1>5, <1>8, Zenon DEF Archiving
      <3>2. \A i \in stale : i <= issued' /\ ~memories[i].summary /\ Active(CopyOf(stale)[i])
        BY <1>2, <1>3, Zenon
      <3> QED
        BY <1>0, <1>3, <1>4, <1>5, <1>8, <2>1, <3>1, <3>2, Zenon DEF ArchiveFacts, Archiving, Calling
    <2>2. CASE b # a
      <3>1. /\ ArchiveFacts(b)
            /\ Archiving(b) => archiver[b].summary \in RowIds /\ archiver[b].left \subseteq RowIds
        BY <1>0, Zenon DEF MemoryInv, MemoryTypeOK, ArchiveRuns, Archiving
      <3>2. Archiving(b) => archiver[b].summary \notin stale
        BY <1>2, <3>1 DEF ArchiveFacts, Active, NoRow
      <3> QED
        BY <1>0, <1>3, <1>4, <1>5, <2>2, <3>1, <3>2, Zenon DEF ArchiveFacts, Archiving, Calling
    <2> QED
      BY <2>1, <2>2, Zenon
  <1>10. ASSUME NEW b \in Archivers PROVE SummaryFacts(b)'
    <2> SUFFICES ASSUME Archiving(b)', {"deleted", "twice"} \intersect faults' = {}
                 PROVE  /\ b = a
                        /\ \A c \in Archivers : Archiving(c)' => c = a
      BY <1>0, <1>4, <1>5, Zenon DEF SummaryFacts
    <2>1. Busy(archiver) = {}
      BY <1>0, Zenon DEF Noting
    <2>2. \A c \in Archivers : archiver[c] = NoArchiver
      BY <1>0, <2>1, Zenon DEF Busy, MemoryTypeOK, ArchiveRuns
    <2> QED
      BY <1>5, <2>2, Zenon DEF Archiving
  <1>11. SupersededHasHeir' /\ ArchivedIsSummarised'
    <2>1. faults \subseteq faults'
      BY <1>0, Zenon DEF Noting
    <2> QED
      BY <1>0, <2>1, Zenon DEF MemoryInv, SupersededHasHeir, ArchivedIsSummarised
  <1> QED
    BY <1>0, <1>6, <1>7, <1>9, <1>10, <1>11, Zenon DEF MemoryInv

LEMMA WriteSummaryOK ==
    ASSUME MemoryInv, NEW a \in Archivers, WriteSummary(a)
    PROVE  MemoryInv'
  <1>0. /\ MemoryTypeOK /\ ArchiveFacts(a) /\ SummaryFacts(a) /\ Archiving(a)
        /\ archiver[a] \in ArchiveRuns /\ archiver[a].pc = "summary"
        /\ UNCHANGED <<issued, writer, writes, faults>>
    BY DEF MemoryInv, MemoryTypeOK, Archiving, WriteSummary, NoArchiver
  <1> DEFINE k == archiver[a].summary
             r == NewSummary(archiver[a].topic, archiver[a].sources)
             run == [archiver[a] EXCEPT !.pc = "rows"]
  <1>1. /\ k \in RowIds /\ k <= issued /\ r \in Rows /\ r.status = "active" /\ r.summary
        /\ r.sources = archiver[a].sources
    BY <1>0, MemoryAssumption DEF ArchiveRuns, ArchiveFacts, NewSummary, Rows
  <1>2. /\ memories' \in [RowIds -> Rows] /\ memories'[k] = r
        /\ \A i \in RowIds \ {k} : memories'[i] = memories[i]
    BY <1>0, <1>1, Zenon DEF WriteSummary, MemoryTypeOK
  <1>3. /\ run \in ArchiveRuns /\ run.pc = "rows" /\ run.summary = k /\ run.left = archiver[a].left
        /\ run.sources = archiver[a].sources /\ run.seen = archiver[a].seen /\ run # NoArchiver
    BY <1>0, Zenon DEF ArchiveRuns, NoArchiver
  <1>4. archiver' = [archiver EXCEPT ![a] = run]
    BY Zenon DEF WriteSummary
  <1> HIDE DEF k, r, run
  <1>5. /\ archiver' \in [Archivers -> ArchiveRuns \union {NoArchiver}]
        /\ archiver'[a] = run /\ \A b \in Archivers \ {a} : archiver'[b] = archiver[b]
    BY <1>0, <1>3, <1>4, Zenon DEF MemoryTypeOK
  <1>6. MemoryTypeOK'
    BY <1>0, <1>1, <1>2, <1>5, MemoryAssumption DEF MemoryTypeOK, RowIds
  <1>7. ASSUME NEW v \in Writers PROVE CallFacts(v)'
    <2>1. /\ CallFacts(v)
          /\ Calling(v) => /\ writer[v].id \in RowIds /\ writer[v].conflicts \subseteq RowIds
                           /\ k # writer[v].id /\ k \notin writer[v].conflicts
      BY <1>0, Zenon DEF MemoryInv, MemoryTypeOK, Calls, Calling, ArchiveFacts, k
    <2> QED
      BY <1>0, <1>2, <2>1, Zenon DEF CallFacts, Calling
  <1>8. ASSUME NEW b \in Archivers PROVE ArchiveFacts(b)'
    <2>1. /\ ArchiveFacts(b)
          /\ Archiving(b) => /\ archiver[b].summary \in RowIds /\ archiver[b].left \subseteq RowIds
                             /\ k \notin archiver[b].left
      BY <1>0, Zenon DEF MemoryInv, MemoryTypeOK, ArchiveRuns, Archiving, ArchiveFacts, k
    <2>2. \A c \in Archivers : (Archiving(c)' <=> Archiving(c)) /\ archiver'[c].left = archiver[c].left
      BY <1>0, <1>3, <1>5, Zenon DEF Archiving
    <2>3. /\ archiver'[b].summary = archiver[b].summary /\ archiver'[b].sources = archiver[b].sources
          /\ archiver'[b].seen = archiver[b].seen
      BY <1>3, <1>5, Zenon DEF k
    <2> QED
      BY <1>0, <1>1, <1>2, <2>1, <2>2, <2>3 DEF ArchiveFacts, Calling
  <1>9. ASSUME NEW b \in Archivers PROVE SummaryFacts(b)'
    <2> SUFFICES ASSUME Archiving(b)', {"deleted", "twice"} \intersect faults = {}
                 PROVE  /\ b = a
                        /\ \A c \in Archivers : Archiving(c)' => c = a
      BY <1>0, <1>1, <1>2, <1>3, <1>5 DEF SummaryFacts
    <2> QED
      BY <1>0, <1>3, <1>5, Zenon DEF SummaryFacts, Archiving
  <1>10. \A i \in RowIds : memories[i].status \in {"superseded", "archived"} => memories[i].by \in RowIds
    BY <1>0, Zenon DEF MemoryTypeOK
  <1>11. SupersededHasHeir'
    <2> SUFFICES ASSUME "deleted" \notin faults, NEW i \in RowIds, memories'[i].status = "superseded"
                 PROVE  memories'[memories'[i].by].status # "none"
      BY <1>0, Zenon DEF SupersededHasHeir
    <2>1. memories'[i] = memories[i]
      BY <1>1, <1>2, Zenon
    <2>2. memories[memories[i].by].status # "none"
      BY <2>1, Zenon DEF MemoryInv, SupersededHasHeir
    <2> QED
      BY <1>1, <1>2, <1>10, <2>1, <2>2, Zenon
  <1>12. ArchivedIsSummarised'
    <2> SUFFICES ASSUME {"deleted", "twice"} \intersect faults = {}, NEW i \in RowIds,
                        memories'[i].status = "archived"
                 PROVE  LET s == memories'[memories'[i].by]
                        IN s.summary /\ s.status = "active" /\ i \in s.sources
      BY <1>0, Zenon DEF ArchivedIsSummarised
    <2>1. memories'[i] = memories[i]
      BY <1>1, <1>2, Zenon
    <2>2. LET s == memories[memories[i].by] IN s.summary /\ s.status = "active" /\ i \in s.sources
      BY <2>1, Zenon DEF MemoryInv, ArchivedIsSummarised
    <2>3. memories[k].sources \subseteq archiver[a].sources
      BY <1>0, Zenon DEF SummaryFacts, k
    <2> QED
      BY <1>1, <1>2, <1>10, <2>1, <2>2, <2>3
  <1> QED
    BY <1>1, <1>2, <1>6, <1>7, <1>8, <1>9, <1>11, <1>12, Zenon DEF MemoryInv

LEMMA ArchiveRowOK ==
    ASSUME MemoryInv, NEW a \in Archivers, ArchiveRow(a)
    PROVE  MemoryInv'
  <1>0. /\ MemoryTypeOK /\ ArchiveFacts(a) /\ SummaryFacts(a) /\ Archiving(a)
        /\ archiver[a] \in ArchiveRuns /\ archiver[a].pc = "rows"
        /\ UNCHANGED <<issued, writer, writes, faults>>
    BY DEF MemoryInv, MemoryTypeOK, Archiving, ArchiveRow, NoArchiver
  <1>p. PICK k \in archiver[a].left :
          /\ memories' = [memories EXCEPT ![k] = [archiver[a].seen[k] EXCEPT
                            !.status = "archived", !.by = archiver[a].summary, !.old = FALSE]]
          /\ archiver' = IF archiver[a].left = {k}
                           THEN [archiver EXCEPT ![a] = NoArchiver]
                           ELSE [archiver EXCEPT ![a].left = @ \ {k}]
    BY Zenon DEF ArchiveRow
  <1> DEFINE r == [archiver[a].seen[k] EXCEPT
                     !.status = "archived", !.by = archiver[a].summary, !.old = FALSE]
  <1>1. /\ k \in RowIds /\ k <= issued /\ k \in archiver[a].sources /\ archiver[a].summary \in RowIds
        /\ r \in Rows /\ r.status = "archived" /\ ~r.summary /\ r.by = archiver[a].summary
    <2>1. /\ k \in RowIds /\ k <= issued /\ archiver[a].summary \in RowIds
          /\ k \in archiver[a].sources
          /\ archiver[a].seen[k] \in Rows /\ ~archiver[a].seen[k].summary
      BY <1>0, Zenon DEF ArchiveRuns, ArchiveFacts, Active
    <2>2. archiver[a].summary \in 0 .. MaxRows
      BY <2>1, MemoryAssumption DEF RowIds
    <2> QED
      BY <2>1, <2>2, Zenon DEF Rows
  <1>2. /\ memories' \in [RowIds -> Rows] /\ memories'[k] = r
        /\ \A i \in RowIds \ {k} : memories'[i] = memories[i]
    BY <1>0, <1>1, <1>p, Zenon DEF MemoryTypeOK
  <1>3. /\ archiver' \in [Archivers -> ArchiveRuns \union {NoArchiver}]
        /\ \A b \in Archivers \ {a} : archiver'[b] = archiver[b]
        /\ Archiving(a)' => /\ archiver'[a].summary = archiver[a].summary
                            /\ archiver'[a].sources = archiver[a].sources
                            /\ archiver'[a].left = archiver[a].left \ {k}
                            /\ archiver'[a].seen = archiver[a].seen
                            /\ archiver'[a].pc = "rows"
    <2>1. CASE archiver[a].left = {k}
      BY <1>0, <1>p, <2>1, Zenon DEF MemoryTypeOK, Archiving
    <2>2. CASE archiver[a].left # {k}
      <3> DEFINE c == [archiver[a] EXCEPT !.left = @ \ {k}]
      <3>1. /\ c \in ArchiveRuns /\ c.summary = archiver[a].summary
            /\ c.sources = archiver[a].sources /\ c.left = archiver[a].left \ {k}
            /\ c.seen = archiver[a].seen /\ c.pc = "rows"
        BY <1>0, Zenon DEF ArchiveRuns
      <3>2. archiver' = [archiver EXCEPT ![a] = c]
        BY <1>p, <2>2
      <3> HIDE DEF c
      <3> QED
        BY <1>0, <3>1, <3>2, Zenon DEF MemoryTypeOK
    <2> QED
      BY <2>1, <2>2, Zenon
  <1> HIDE DEF r
  <1>4. MemoryTypeOK'
    BY <1>0, <1>1, <1>2, <1>3, MemoryAssumption DEF MemoryTypeOK, RowIds
  <1>5. ASSUME NEW v \in Writers PROVE CallFacts(v)'
    <2>1. CallFacts(v) /\ (Calling(v) => writer[v].id \in RowIds /\ writer[v].conflicts \subseteq RowIds)
      BY <1>0, Zenon DEF MemoryInv, MemoryTypeOK, Calls, Calling
    <2> QED
      BY <1>0, <1>1, <1>2, <2>1, Zenon DEF CallFacts, Calling
  <1>6. \A b \in Archivers :
          /\ Archiving(b)' => Archiving(b)
          /\ Archiving(b)' => archiver'[b].left \subseteq archiver[b].left
          /\ Archiving(b) => archiver[b].summary # k
    <2>1. \A b \in Archivers : Archiving(b)' => Archiving(b)
      BY <1>0, <1>3, Zenon DEF Archiving
    <2>2. \A b \in Archivers : Archiving(b)' => archiver'[b].left \subseteq archiver[b].left
      BY <1>3, Zenon
    <2>3. \A b \in Archivers : Archiving(b) => archiver[b].summary # k
      BY <1>0, Zenon DEF MemoryInv, ArchiveFacts
    <2> QED
      BY <2>1, <2>2, <2>3, Zenon
  <1>7. ASSUME NEW b \in Archivers PROVE ArchiveFacts(b)' /\ SummaryFacts(b)'
    <2>1. /\ ArchiveFacts(b) /\ SummaryFacts(b)
          /\ Archiving(b) => archiver[b].summary \in RowIds /\ archiver[b].left \subseteq RowIds
      BY <1>0, ZenonT(30) DEF MemoryInv, MemoryTypeOK, ArchiveRuns, Archiving
    <2>2. CASE b = a
      <3>1. ArchiveFacts(b)'
        BY <1>0, <1>1, <1>2, <1>3, <1>6, <2>1, <2>2, SMTT(30) DEF ArchiveFacts, Calling
      <3>2. SummaryFacts(b)'
        BY <1>0, <1>1, <1>2, <1>3, <1>6, <2>1, <2>2 DEF SummaryFacts
      <3> QED
        BY <3>1, <3>2, Zenon
    <2>3. CASE b # a
      <3>1. archiver'[b] = archiver[b]
        BY <1>3, <2>3, Zenon
      <3>2. ArchiveFacts(b)'
        BY <1>0, <1>1, <1>2, <1>6, <2>1, <3>1, SMTT(30) DEF ArchiveFacts, Calling
      <3>3. SummaryFacts(b)'
        BY <1>0, <1>1, <1>2, <1>6, <2>1, <3>1 DEF SummaryFacts
      <3> QED
        BY <3>2, <3>3, Zenon
    <2> QED
      BY <2>2, <2>3, Zenon
  <1>8. \A i \in RowIds : memories[i].status \in {"superseded", "archived"} => memories[i].by \in RowIds
    BY <1>0, Zenon DEF MemoryTypeOK
  <1>9. SupersededHasHeir'
    <2> SUFFICES ASSUME "deleted" \notin faults, NEW i \in RowIds, memories'[i].status = "superseded"
                 PROVE  memories'[memories'[i].by].status # "none"
      BY <1>0, Zenon DEF SupersededHasHeir
    <2>1. memories'[i] = memories[i]
      BY <1>1, <1>2, Zenon
    <2>2. memories[memories[i].by].status # "none"
      BY <2>1, Zenon DEF MemoryInv, SupersededHasHeir
    <2> QED
      BY <1>1, <1>2, <1>8, <2>1, <2>2, Zenon
  <1>10. ArchivedIsSummarised'
    <2> SUFFICES ASSUME {"deleted", "twice"} \intersect faults = {}, NEW i \in RowIds,
                        memories'[i].status = "archived"
                 PROVE  LET s == memories'[memories'[i].by]
                        IN s.summary /\ s.status = "active" /\ i \in s.sources
      BY <1>0, Zenon DEF ArchivedIsSummarised
    <2>1. CASE i = k
      BY <1>0, <1>1, <1>2, <1>6, <2>1, Zenon DEF SummaryFacts
    <2>2. CASE i # k
      <3>1. memories'[i] = memories[i]
        BY <1>1, <1>2, <2>2, Zenon
      <3>2. LET s == memories[memories[i].by] IN s.summary /\ s.status = "active" /\ i \in s.sources
        BY <3>1, Zenon DEF MemoryInv, ArchivedIsSummarised
      <3>3. ~memories[k].summary
        BY <1>0, Zenon DEF ArchiveFacts
      <3> QED
        BY <1>1, <1>2, <1>8, <3>1, <3>2, <3>3, Zenon
    <2> QED
      BY <2>1, <2>2, Zenon
  <1> QED
    BY <1>1, <1>2, <1>4, <1>5, <1>7, <1>9, <1>10, Zenon DEF MemoryInv

LEMMA ArchiveFailsOK ==
    ASSUME MemoryInv, NEW a \in Archivers, ArchiveFails(a)
    PROVE  MemoryInv'
  <1>0. /\ MemoryTypeOK /\ UNCHANGED <<memories, issued, writer, writes, faults>>
        /\ archiver' = [archiver EXCEPT ![a] = NoArchiver]
    BY Zenon DEF MemoryInv, ArchiveFails
  <1>1. /\ archiver' \in [Archivers -> ArchiveRuns \union {NoArchiver}]
        /\ \A b \in Archivers : archiver'[b] \in {archiver[b], NoArchiver}
    BY <1>0, Zenon DEF MemoryTypeOK
  <1>2. MemoryTypeOK'
    BY <1>0, <1>1, Zenon DEF MemoryTypeOK
  <1>3. ASSUME NEW v \in Writers PROVE CallFacts(v)'
    BY <1>0, Zenon DEF MemoryInv, CallFacts, Calling
  <1>4. ASSUME NEW b \in Archivers PROVE ArchiveFacts(b)' /\ SummaryFacts(b)'
    <2>1. ArchiveFacts(b)'
      BY <1>0, <1>1, Zenon DEF MemoryInv, ArchiveFacts, Archiving, Calling
    <2>2. SummaryFacts(b)'
      BY <1>0, <1>1 DEF MemoryInv, SummaryFacts, Archiving
    <2> QED
      BY <2>1, <2>2, Zenon
  <1> QED
    BY <1>0, <1>2, <1>3, <1>4, Zenon DEF MemoryInv, SupersededHasHeir, ArchivedIsSummarised

\* The invariant of the writes, the superseding and the archiver of the long-term
\* memory holds for any writers, archivers, topics and texts.
THEOREM MemoryInvariant == MemorySpec => []MemoryInv
  <1>1. MemoryInv /\ UNCHANGED memoryVars => MemoryInv'
    BY DEF MemoryInv, memoryVars, MemoryTypeOK, CallFacts, ArchiveFacts, SummaryFacts, Calling,
           Archiving, SupersededHasHeir, ArchivedIsSummarised
  <1>2. MemoryInv /\ MemoryNext => MemoryInv'
    BY PlanWriteOK, WritePrimaryOK, SupersedeOK, WriteFailsOK, PlanArchiveOK, WriteSummaryOK,
       ArchiveRowOK, ArchiveFailsOK, GrowsOldOK, DeleteRowOK, Zenon DEF MemoryNext
  <1> QED
    BY <1>1, <1>2, MemoryStart, PTL DEF MemorySpec

\* Rows, calls of the memory tool and archive runs keep their types.
THEOREM MemoryTypeCorrect == MemorySpec => []MemoryTypeOK
  <1>1. MemoryInv => MemoryTypeOK
    BY Zenon DEF MemoryInv
  <1> QED
    BY <1>1, MemoryInvariant, PTL

\* For any number of calls and archive runs, cut off anywhere: a superseded
\* memory names a row that is stored (add_long_term_memory stores it first).
THEOREM HeirSafety == MemorySpec => []SupersededHasHeir
  <1>1. MemoryInv => SupersededHasHeir
    BY Zenon DEF MemoryInv
  <1> QED
    BY <1>1, MemoryInvariant, PTL

\* For any number of calls and one archive run at a time, cut off anywhere: an
\* archived memory is a source of the active summary it names.
THEOREM ArchiveSafety == MemorySpec => []ArchivedIsSummarised
  <1>1. MemoryInv => ArchivedIsSummarised
    BY Zenon DEF MemoryInv
  <1> QED
    BY <1>1, MemoryInvariant, PTL

LEMMA TopicPlan ==
    ASSUME MemoryInv, TopicInv, NEW w \in Writers, NEW topic \in Topics, NEW content \in Texts,
           NEW pinned \in BOOLEAN, PlanWrite(w, topic, content, pinned)
    PROVE  TopicInv'
  <1> SUFFICES ASSUME {"overlap", "failed"} \intersect faults' = {} PROVE TopicInv'
    BY Zenon DEF TopicInv
  <1> DEFINE active == {i \in 1 .. issued : Active(memories[i])}
  <1>0. /\ MemoryTypeOK /\ memories' = memories /\ faults' = Noting("overlap", Busy(writer) # {})
        /\ issued \in Nat
    BY MemoryAssumption DEF MemoryInv, MemoryTypeOK, PlanWrite
  <1>1. Busy(writer) = {} /\ {"overlap", "failed"} \intersect faults = {}
    BY <1>0, Zenon DEF Noting
  <1>2. \A v \in Writers : writer[v] = NoWriter
    BY <1>0, <1>1, Zenon DEF Busy, MemoryTypeOK, Calls
  <1>3. \E id, row :
          writer' = [writer EXCEPT ![w] =
            [pc |-> "primary", id |-> id, row |-> NewMemory(topic, content, row),
             conflicts |-> {i \in active \ {id} : memories[i].topic = topic},
             seen |-> CopyOf({i \in active \ {id} : memories[i].topic = topic})]]
    BY Zenon DEF PlanWrite
  <1>4. PICK id, row :
          writer' = [writer EXCEPT ![w] =
            [pc |-> "primary", id |-> id, row |-> NewMemory(topic, content, row),
             conflicts |-> {i \in active \ {id} : memories[i].topic = topic},
             seen |-> CopyOf({i \in active \ {id} : memories[i].topic = topic})]]
    BY <1>3, Zenon
  <1>5. /\ writer'[w].id = id /\ writer'[w].row.topic = topic
        /\ writer'[w].conflicts = {i \in active \ {id} : memories[i].topic = topic}
        /\ \A v \in Writers \ {w} : writer'[v] = NoWriter
    BY <1>0, <1>2, <1>4, Zenon DEF NewMemory, MemoryTypeOK
  <1>6. \A i \in RowIds : Active(memories[i]) => i \in active
    BY <1>0, MemoryAssumption DEF MemoryTypeOK, RowIds, Active, NoRow
  <1> HIDE DEF active
  <1>7. \A i, j \in RowIds :
          Active(memories[i]) /\ Active(memories[j]) /\ memories[i].topic = memories[j].topic => i = j
    BY <1>1, <1>2, Zenon DEF TopicInv, Calling
  <1> QED
    BY <1>0, <1>5, <1>6, <1>7, Zenon DEF TopicInv, Calling

LEMMA TopicPrimary ==
    ASSUME MemoryInv, TopicInv, NEW w \in Writers, WritePrimary(w)
    PROVE  TopicInv'
  <1> SUFFICES ASSUME {"overlap", "failed"} \intersect faults' = {} PROVE TopicInv'
    BY Zenon DEF TopicInv
  <1>0. /\ MemoryTypeOK /\ writer[w] \in Calls /\ writer[w].id \in RowIds /\ Calling(w)
        /\ writer[w].pc = "primary" /\ {"overlap", "failed"} \intersect faults = {}
    BY DEF MemoryInv, MemoryTypeOK, Calls, Calling, WritePrimary, NoWriter
  <1>1. /\ memories'[writer[w].id] = writer[w].row
        /\ \A i \in RowIds \ {writer[w].id} : memories'[i] = memories[i]
    BY <1>0, Zenon DEF WritePrimary, MemoryTypeOK
  <1>2. \A v \in Writers \ {w} : writer[v] = NoWriter
    BY <1>0, Zenon DEF TopicInv, Calling
  <1>3. \A v \in Writers \ {w} : writer'[v] = NoWriter
    BY <1>0, <1>2, Zenon DEF WritePrimary, MemoryTypeOK
  <1>4. \A i, j \in RowIds :
          Active(memories[i]) /\ Active(memories[j]) /\ memories[i].topic = memories[j].topic => i = j
    <2>1. \A v \in Writers : ~(Calling(v) /\ writer[v].pc = "supersede")
      BY <1>0, <1>2, Zenon DEF Calling
    <2> QED
      BY <1>0, <2>1, Zenon DEF TopicInv
  <1>5. \A i \in RowIds : Active(memories[i]) /\ memories[i].topic = writer[w].row.topic =>
          i \in writer[w].conflicts \union {writer[w].id}
    BY <1>0, Zenon DEF TopicInv
  <1>6. CASE writer[w].conflicts = {}
    <2>1. \A v \in Writers : writer'[v] = NoWriter
      BY <1>0, <1>3, <1>6, Zenon DEF WritePrimary, MemoryTypeOK
    <2>2. \A i, j \in RowIds :
            Active(memories'[i]) /\ Active(memories'[j]) /\ memories'[i].topic = memories'[j].topic => i = j
      BY <1>0, <1>1, <1>4, <1>5, <1>6
    <2> QED
      BY <2>1, <2>2, Zenon DEF TopicInv, Calling
  <1>7. CASE writer[w].conflicts # {}
    <2>1. /\ writer'[w].conflicts = writer[w].conflicts /\ writer'[w].pc = "supersede"
          /\ writer'[w].id = writer[w].id /\ writer'[w].row = writer[w].row /\ writer'[w] # NoWriter
      <3> DEFINE c == [writer[w] EXCEPT !.pc = "supersede"]
      <3>1. /\ c.id = writer[w].id /\ c.row = writer[w].row /\ c.conflicts = writer[w].conflicts
            /\ c.pc = "supersede" /\ c # NoWriter
        BY <1>0, Zenon DEF Calls, NoWriter
      <3>2. writer' = [writer EXCEPT ![w] = c]
        BY <1>7, Zenon DEF WritePrimary
      <3> HIDE DEF c
      <3> QED
        BY <1>0, <3>1, <3>2, Zenon DEF MemoryTypeOK
    <2>2. \A i, j \in RowIds :
            Active(memories'[i]) /\ Active(memories'[j]) /\ memories'[i].topic = memories'[j].topic
            => i = j \/ i \in writer[w].conflicts \/ j \in writer[w].conflicts
      BY <1>0, <1>1, <1>4, <1>5
    <2>3. \A i \in RowIds : Active(memories'[i]) /\ memories'[i].topic = writer[w].row.topic =>
            i \in writer[w].conflicts \union {writer[w].id}
      BY <1>1, <1>5, Zenon
    <2> QED
      BY <1>3, <2>1, <2>2, <2>3 DEF TopicInv, Calling
  <1> QED
    BY <1>6, <1>7, Zenon

LEMMA TopicSupersede ==
    ASSUME MemoryInv, TopicInv, NEW w \in Writers, Supersede(w)
    PROVE  TopicInv'
  <1> SUFFICES ASSUME {"overlap", "failed"} \intersect faults' = {} PROVE TopicInv'
    BY Zenon DEF TopicInv
  <1>0. /\ MemoryTypeOK /\ writer[w] \in Calls /\ writer[w].conflicts \subseteq RowIds /\ Calling(w)
        /\ writer[w].pc = "supersede" /\ {"overlap", "failed"} \intersect faults = {}
    BY DEF MemoryInv, MemoryTypeOK, Calls, Calling, Supersede, NoWriter
  <1>p. PICK k \in writer[w].conflicts :
          /\ memories' = [memories EXCEPT ![k] = [writer[w].seen[k] EXCEPT
                            !.status = "superseded", !.by = writer[w].id, !.old = FALSE]]
          /\ writer' = IF writer[w].conflicts = {k}
                         THEN [writer EXCEPT ![w] = NoWriter]
                         ELSE [writer EXCEPT ![w].conflicts = @ \ {k}]
    BY Zenon DEF Supersede
  <1>1. /\ ~Active(memories'[k]) /\ \A i \in RowIds \ {k} : memories'[i] = memories[i]
    <2>1. writer[w].seen[k] \in Rows
      BY <1>0, Zenon DEF Calls
    <2>2. [writer[w].seen[k] EXCEPT !.status = "superseded", !.by = writer[w].id, !.old = FALSE].status
            = "superseded"
      BY <2>1, Zenon DEF Rows
    <2> QED
      BY <1>0, <1>p, <2>2, Zenon DEF MemoryTypeOK, Active
  <1>2. \A v \in Writers \ {w} : writer[v] = NoWriter
    BY <1>0, Zenon DEF TopicInv, Calling
  <1>3. \A v \in Writers \ {w} : writer'[v] = NoWriter
    BY <1>0, <1>p, <1>2, Zenon DEF MemoryTypeOK
  <1>4. \A i, j \in RowIds :
          Active(memories[i]) /\ Active(memories[j]) /\ memories[i].topic = memories[j].topic
          => i = j \/ i \in writer[w].conflicts \/ j \in writer[w].conflicts
    BY <1>0, <1>2, Zenon DEF TopicInv, Calling
  <1>5. \A i \in RowIds : Active(memories[i]) /\ memories[i].topic = writer[w].row.topic =>
          i \in writer[w].conflicts \union {writer[w].id}
    BY <1>0, Zenon DEF TopicInv
  <1>6. CASE writer[w].conflicts = {k}
    <2>1. \A v \in Writers : writer'[v] = NoWriter
      BY <1>0, <1>p, <1>3, <1>6, Zenon DEF MemoryTypeOK
    <2>2. \A i, j \in RowIds :
            Active(memories'[i]) /\ Active(memories'[j]) /\ memories'[i].topic = memories'[j].topic => i = j
      BY <1>1, <1>4, <1>6, Zenon
    <2> QED
      BY <2>1, <2>2, Zenon DEF TopicInv, Calling
  <1>7. CASE writer[w].conflicts # {k}
    <2>1. /\ writer'[w].conflicts = writer[w].conflicts \ {k} /\ writer'[w].pc = "supersede"
          /\ writer'[w].id = writer[w].id /\ writer'[w].row = writer[w].row /\ writer'[w] # NoWriter
      <3> DEFINE c == [writer[w] EXCEPT !.conflicts = @ \ {k}]
      <3>1. /\ c.id = writer[w].id /\ c.row = writer[w].row /\ c.conflicts = writer[w].conflicts \ {k}
            /\ c.pc = "supersede" /\ c # NoWriter
        BY <1>0, Zenon DEF Calls, NoWriter
      <3>2. writer' = [writer EXCEPT ![w] = c]
        BY <1>p, <1>7, Zenon
      <3> HIDE DEF c
      <3> QED
        BY <1>0, <3>1, <3>2, Zenon DEF MemoryTypeOK
    <2>2. \A i, j \in RowIds :
            Active(memories'[i]) /\ Active(memories'[j]) /\ memories'[i].topic = memories'[j].topic
            => i = j \/ i \in writer'[w].conflicts \/ j \in writer'[w].conflicts
      BY <1>1, <1>4, <2>1, Zenon
    <2>3. \A i \in RowIds : Active(memories'[i]) /\ memories'[i].topic = writer'[w].row.topic =>
            i \in writer'[w].conflicts \union {writer'[w].id}
      BY <1>1, <1>5, <2>1, Zenon
    <2> QED
      BY <1>3, <2>1, <2>2, <2>3, Zenon DEF TopicInv, Calling
  <1> QED
    BY <1>6, <1>7, Zenon

\* A step that makes no row of the tool active leaves a topic settled.
LEMMA TopicElsewhere ==
    ASSUME MemoryTypeOK, TopicInv, UNCHANGED writer, faults \subseteq faults',
           \A i \in RowIds : Active(memories'[i]) =>
             Active(memories[i]) /\ memories'[i].topic = memories[i].topic
    PROVE  TopicInv'
  BY DEF TopicInv, Calling

LEMMA TopicArchiver ==
    ASSUME MemoryInv, TopicInv, NEW a \in Archivers,
           (\E topic \in Topics : PlanArchive(a, topic)) \/ WriteSummary(a) \/ ArchiveRow(a) \/ ArchiveFails(a)
    PROVE  TopicInv'
  <1>0. MemoryTypeOK
    BY Zenon DEF MemoryInv
  <1>1. CASE (\E topic \in Topics : PlanArchive(a, topic)) \/ ArchiveFails(a)
    <2>1. UNCHANGED <<writer, memories>> /\ faults \subseteq faults'
      BY <1>1, Zenon DEF PlanArchive, ArchiveFails, Noting
    <2> QED
      BY <1>0, <2>1, TopicElsewhere, Zenon
  <1>2. CASE WriteSummary(a)
    <2>1. archiver[a].summary \in RowIds
      BY <1>0, <1>2 DEF MemoryTypeOK, ArchiveRuns, NoArchiver, WriteSummary
    <2>2. /\ ~Active(memories'[archiver[a].summary])
          /\ \A i \in RowIds \ {archiver[a].summary} : memories'[i] = memories[i]
      BY <1>0, <1>2, <2>1, Zenon DEF WriteSummary, MemoryTypeOK, Active, NewSummary
    <2>3. UNCHANGED <<writer, faults>>
      BY <1>2, Zenon DEF WriteSummary
    <2> QED
      BY <1>0, <2>2, <2>3, TopicElsewhere, Zenon
  <1>3. CASE ArchiveRow(a)
    <2>0. archiver[a] \in ArchiveRuns
      <3>1. archiver[a].pc = "rows"
        BY <1>3, Zenon DEF ArchiveRow
      <3> QED
        BY <1>0, <3>1 DEF MemoryTypeOK, NoArchiver
    <2>1. PICK k \in archiver[a].left :
            memories' = [memories EXCEPT ![k] = [archiver[a].seen[k] EXCEPT
                            !.status = "archived", !.by = archiver[a].summary, !.old = FALSE]]
      BY <1>3, Zenon DEF ArchiveRow
    <2>2. k \in RowIds /\ archiver[a].seen[k] \in Rows
      BY <2>0, Zenon DEF ArchiveRuns
    <2>3. [archiver[a].seen[k] EXCEPT !.status = "archived", !.by = archiver[a].summary,
                                      !.old = FALSE].status = "archived"
      BY <2>2, Zenon DEF Rows
    <2>4. ~Active(memories'[k]) /\ \A i \in RowIds \ {k} : memories'[i] = memories[i]
      BY <1>0, <2>1, <2>2, <2>3, Zenon DEF MemoryTypeOK, Active
    <2>5. UNCHANGED <<writer, faults>>
      BY <1>3, Zenon DEF ArchiveRow
    <2> QED
      BY <1>0, <2>4, <2>5, TopicElsewhere, Zenon
  <1> QED
    BY <1>1, <1>2, <1>3, Zenon

LEMMA TopicRow ==
    ASSUME MemoryInv, TopicInv, NEW k \in RowIds, GrowsOld(k) \/ DeleteRow(k)
    PROVE  TopicInv'
  <1>0. MemoryTypeOK
    BY Zenon DEF MemoryInv
  <1>1. CASE GrowsOld(k)
    <2> DEFINE r == [memories[k] EXCEPT !.old = TRUE]
    <2>1. /\ memories[k] \in Rows
      BY <1>0, Zenon DEF MemoryTypeOK
    <2>2. r.status = memories[k].status /\ r.topic = memories[k].topic
      BY <2>1, Zenon DEF Rows
    <2>3. r.summary <=> memories[k].summary
      BY <2>1, Zenon DEF Rows
    <2>4. memories' = [memories EXCEPT ![k] = r] /\ UNCHANGED <<writer, faults>>
      BY <1>1, Zenon DEF GrowsOld
    <2> HIDE DEF r
    <2>5. memories'[k] = r /\ \A i \in RowIds \ {k} : memories'[i] = memories[i]
      BY <1>0, <2>4, Zenon DEF MemoryTypeOK
    <2>6. Active(memories'[k]) => Active(memories[k]) /\ memories'[k].topic = memories[k].topic
      BY <2>2, <2>3, <2>5, Zenon DEF Active
    <2> QED
      BY <1>0, <2>4, <2>5, <2>6, TopicElsewhere, Zenon
  <1>2. CASE DeleteRow(k)
    <2>1. UNCHANGED writer /\ faults \subseteq faults' /\ memories' = [memories EXCEPT ![k] = NoRow]
      BY <1>2, Zenon DEF DeleteRow
    <2>2. ~Active(memories'[k]) /\ \A i \in RowIds \ {k} : memories'[i] = memories[i]
      BY <1>0, <2>1, Zenon DEF MemoryTypeOK, Active, NoRow
    <2> QED
      BY <1>0, <2>1, <2>2, TopicElsewhere, Zenon
  <1> QED
    BY <1>1, <1>2, Zenon

\* For any number of topics, calls and archive runs: as long as calls neither
\* overlap nor fail, a topic has at most one active memory between them.
THEOREM TopicSafety == MemorySpec => []TopicSettled
  <1>1. MemoryInit => TopicInv
    BY DEF MemoryInit, TopicInv, Calling, Active, NoRow
  <1>2. MemoryInv /\ TopicInv /\ UNCHANGED memoryVars => TopicInv'
    BY DEF TopicInv, memoryVars, Calling
  <1>3. MemoryInv /\ TopicInv /\ MemoryNext => TopicInv'
    <2> SUFFICES ASSUME MemoryInv, TopicInv, MemoryNext PROVE TopicInv'
      BY Zenon
    <2>1. ASSUME NEW w \in Writers, WriteFails(w) PROVE TopicInv'
      BY <2>1, Zenon DEF WriteFails, TopicInv
    <2> QED
      BY <2>1, TopicPlan, TopicPrimary, TopicSupersede, TopicArchiver, TopicRow, Zenon DEF MemoryNext
  <1>4. MemoryInv /\ TopicInv => TopicSettled
    <2> SUFFICES ASSUME MemoryInv, TopicInv, {"overlap", "failed"} \intersect faults = {}, Busy(writer) = {}
                 PROVE  \A i, j \in RowIds :
                          /\ Active(memories[i]) /\ Active(memories[j])
                          /\ memories[i].topic = memories[j].topic
                          => i = j
      BY Zenon DEF TopicSettled
    <2>1. \A w \in Writers : writer[w] = NoWriter
      BY Zenon DEF MemoryInv, MemoryTypeOK, Busy, Calls
    <2> QED
      BY <2>1, Zenon DEF TopicInv, Calling
  <1> QED
    BY <1>1, <1>2, <1>3, <1>4, MemoryInvariant, PTL DEF MemorySpec
=============================================================================
