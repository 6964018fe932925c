----------------------------- MODULE ChatProofs -----------------------------
(***************************************************************************)
(* What users and agents tell each other.  Proof that an approval          *)
(* authorises at most one run, and only when it was granted and had not    *)
(* expired, for any number of approvals, commands and callers, and however *)
(* the resolvers overwrite each other.  Proof that the agent resumes with  *)
(* an answer that some user gave in time, for any number of users and      *)
(* options.  Proofs about the chat websocket for any number of connections *)
(* and turns and any capacity of its queues: a client gets a beginning of  *)
(* every turn, no gaps, and the one that started a turn learns its end.    *)
(***************************************************************************)
EXTENDS Approval, PendingQuestion, ChatSocket, TLAPS

(***************************************************************************)
(* The inductive invariant.  The status is no witness of a use, since a     *)
(* late resolver may write over `consumed'; consumed_at_ms is, since only   *)
(* the conditional UPDATE sets it.                                          *)
(***************************************************************************)
UseMarked(a) ==
    uses[a] > 0 => /\ consumed[a] # Null
                   /\ consumed[a] <= expires[a]
                   /\ a \in granted
                   /\ status[a] # "none"

ApprovedGranted(a) == status[a] = "approved" => a \in granted

UseInv ==
    /\ TypeOK
    /\ \A a \in Approvals : uses[a] <= 1 /\ UseMarked(a) /\ ApprovedGranted(a)

----------------------------------------------------------------------------
(* Type correctness.                                                       *)

\* An idle caller's locals are well typed.
LEMMA IdleType == Idle \in Calls /\ Idle.want \in Commands
  <1>1. (CHOOSE a \in Approvals : TRUE) \in Approvals
    BY ApprovalAssumption, Zenon
  <1>2. (CHOOSE k \in Commands : TRUE) \in Commands
    BY ApprovalAssumption, Zenon
  <1>3. 0 \in Times
    BY ApprovalAssumption DEF Times
  <1> QED
    BY <1>1, <1>2, <1>3, Zenon DEF Idle, Calls, PCs, Decisions

\* A caller that goes on with well-typed locals leaves the callers well typed.
LEMMA ContinueType ==
    ASSUME call \in [Callers -> Calls], NEW c \in Callers,
           NEW r \in Calls, Continue(c, r)
    PROVE  call' \in [Callers -> Calls]
  BY Zenon DEF Continue

\* Going elsewhere in the same call, or returning, keeps the types.
LEMMA GoToType ==
    ASSUME call \in [Callers -> Calls], NEW c \in Callers, NEW p \in PCs,
           GoTo(c, p) \/ Return(c)
    PROVE  call' \in [Callers -> Calls]
  <1>1. [call[c] EXCEPT !.pc = p] \in Calls
    BY Zenon DEF Calls
  <1> QED
    BY <1>1, IdleType, ContinueType, Zenon DEF GoTo, Return

\* What follows a resolution keeps the types.
LEMMA AfterResolveType ==
    ASSUME TypeOK, NEW c \in Callers, AfterResolve(c)
    PROVE  call' \in [Callers -> Calls]
  <1> DEFINE k == command[call[c].id]
             p == IF k \in ShellCommands THEN "byId" ELSE "latest"
  <1>1. call[c] \in Calls /\ k \in Commands /\ p \in PCs
    BY Zenon DEF TypeOK, Calls, PCs
  <1>2. [call[c] EXCEPT !.pc = p, !.want = k] \in Calls
    BY <1>1, Zenon DEF Calls
  <1>3. Return(c) \/ Continue(c, [call[c] EXCEPT !.pc = p, !.want = k])
    BY Zenon DEF AfterResolve
  <1> QED
    BY <1>2, <1>3, IdleType, ContinueType, Zenon DEF TypeOK, Return

\* The status that a decision turns into is a status, and not `none'.
LEMMA OutcomeType ==
    ASSUME NEW c \in Callers
    PROVE  Outcome(c) \in {"expired", "approved", "rejected"}
  BY Zenon DEF Outcome

\* Every step keeps the types.
LEMMA TypeStep == TypeOK /\ [Next]_vars => TypeOK'
  <1> SUFFICES ASSUME TypeOK, [Next]_vars PROVE TypeOK'
    BY Zenon
  <1>0. /\ call \in [Callers -> Calls] /\ now \in Times
        /\ \A c \in Callers : call[c] \in Calls
    BY Zenon DEF TypeOK
  <1>1. CASE Tick
    <2>1. now' \in Times
      BY <1>0, <1>1, ApprovalAssumption DEF Tick, Times
    <2> QED
      BY <1>1, <2>1, Zenon DEF Tick, TypeOK, rows
  <1>2. ASSUME NEW c \in Callers, Step(c) PROVE TypeOK'
    <2>0. call[c] \in Calls
      BY <1>0, Zenon
    <2>1. CASE ReadClock(c)
      <3>1. ClockThen[call[c].pc] \in PCs
        BY <2>1 DEF ReadClock, ClockThen, PCs
      <3>2. [call[c] EXCEPT !.pc = ClockThen[call[c].pc], !.at = now] \in Calls
        BY <3>1, <2>0, <1>0, Zenon DEF Calls
      <3>3. call' \in [Callers -> Calls]
        BY <2>1, <3>2, <2>0, <1>0, ContinueType, Zenon DEF ReadClock, Calls
      <3> QED
        BY <2>1, <3>3, Zenon DEF ReadClock, TypeOK, rows
    <2>2. CASE Request(c)
      <3>1. \A k \in Commands : [Idle EXCEPT !.pc = "create", !.want = k] \in Calls
        BY IdleType, Zenon DEF Calls, PCs
      <3>2. call' \in [Callers -> Calls]
        BY <2>2, <3>1, <1>0, ContinueType, Zenon DEF Request
      <3> QED
        BY <2>2, <3>2, Zenon DEF Request, TypeOK, rows
    <2>3. CASE CreateApproval(c)
      <3>1. call' \in [Callers -> Calls]
        BY <2>3, <1>0, GoToType, Zenon DEF CreateApproval, PCs
      <3>2. call[c].want \in Commands
        BY <2>0, Zenon DEF Calls
      <3>3. PICK a \in Approvals \ Existing, ttl \in Ttls :
               /\ status' = [status EXCEPT ![a] = "pending"]
               /\ command' = [command EXCEPT ![a] = call[c].want]
               /\ created' = [created EXCEPT ![a] = now]
               /\ expires' = [expires EXCEPT ![a] = now + ttl]
        BY <2>3, Zenon DEF CreateApproval
      <3>4. now + ttl \in Nat
        BY <1>0, ApprovalAssumption DEF Times
      <3> QED
        BY <2>3, <3>1, <3>2, <3>3, <3>4, Zenon DEF CreateApproval, TypeOK, Statuses
    <2>4. CASE ResolveOnly(c)
      <3>1. \A a \in Existing, d \in Decisions :
               [Idle EXCEPT !.pc = "resolve", !.id = a, !.decision = d] \in Calls
        BY IdleType, Zenon DEF Calls, PCs, Existing
      <3>2. call' \in [Callers -> Calls]
        BY <2>4, <3>1, <1>0, ContinueType, Zenon DEF ResolveOnly
      <3> QED
        BY <2>4, <3>2, Zenon DEF ResolveOnly, TypeOK, rows
    <2>5. CASE ImCommand(c)
      <3>1. PICK a \in Existing, d \in Decisions :
               Continue(c, [Idle EXCEPT !.pc = "resolve", !.id = a, !.decision = d,
                            !.replay = (d = "approve" /\ expires[a] >= now)])
        BY <2>5, Zenon DEF ImCommand
      <3>2. (d = "approve" /\ expires[a] >= now) \in BOOLEAN
        BY Zenon
      <3>3. \A b \in BOOLEAN : [Idle EXCEPT !.pc = "resolve", !.id = a,
                                            !.decision = d, !.replay = b] \in Calls
        BY IdleType, Zenon DEF Calls, PCs, Existing
      <3>4. call' \in [Callers -> Calls]
        BY <3>1, <3>2, <3>3, <1>0, ContinueType, Zenon
      <3> QED
        BY <2>5, <3>4, Zenon DEF ImCommand, TypeOK, rows
    <2>6. CASE Read(c)
      <3>1. call' \in [Callers -> Calls]
        BY <2>6, <1>0, AfterResolveType, GoToType, Zenon DEF Read, PCs
      <3> QED
        BY <2>6, <3>1, Zenon DEF Read, TypeOK, rows
    <2>7. CASE Decide(c)
      <3>1. call' \in [Callers -> Calls]
        BY <2>7, AfterResolveType, Zenon DEF Decide
      <3>2. call[c].id \in Approvals
        BY <2>0, Zenon DEF Calls
      <3>3. status' \in [Approvals -> Statuses]
        BY <2>7, <3>2, OutcomeType, Zenon DEF Decide, TypeOK, Statuses
      <3> QED
        BY <2>7, <3>1, <3>2, <3>3, Zenon DEF Decide, TypeOK
    <2>8. CASE CallTool(c)
      <3>1. \A k \in Commands : [Idle EXCEPT !.pc = "latest", !.want = k] \in Calls
        BY IdleType, Zenon DEF Calls, PCs
      <3>2. \A k \in Commands, a \in Existing :
               [Idle EXCEPT !.pc = "byId", !.id = a, !.want = k] \in Calls
        BY IdleType, Zenon DEF Calls, PCs, Existing
      <3>3. call' \in [Callers -> Calls]
        BY <2>8, <3>1, <3>2, <1>0, ContinueType, Zenon DEF CallTool
      <3> QED
        BY <2>8, <3>3, Zenon DEF CallTool, TypeOK, rows
    <2>9. CASE Select(c)
      <3>1. \A a \in Approvals :
               [call[c] EXCEPT !.pc = "consumeLatest", !.id = a] \in Calls
        BY <2>0, Zenon DEF Calls, PCs
      <3>2. call' \in [Callers -> Calls]
        BY <2>9, <3>1, <1>0, ContinueType, GoToType, Zenon DEF Select, PCs
      <3> QED
        BY <2>9, <3>2, Zenon DEF Select, TypeOK, rows
    <2>10. CASE Consume(c)
      <3>1. call' \in [Callers -> Calls]
        BY <2>10, <1>0, GoToType, Zenon DEF Consume, PCs
      <3>2. call[c].id \in Approvals /\ call[c].at \in Times
        BY <2>0, Zenon DEF Calls
      <3> QED
        BY <2>10, <3>1, <3>2 DEF Consume, MarkConsumed, TypeOK, Statuses
    <2>11. CASE ConsumeRefused(c)
      <3>1. call[c].pc \in DOMAIN Otherwise => Otherwise[call[c].pc] \in PCs
        BY DEF Otherwise, PCs
      <3>2. call' \in [Callers -> Calls]
        BY <2>11, <3>1, <1>0, GoToType, Zenon DEF ConsumeRefused, PCs
      <3> QED
        BY <2>11, <3>2, Zenon DEF ConsumeRefused, TypeOK, rows
    <2>12. CASE ConsumeApproval(c)
      <3>1. \A a \in Existing : command[a] \in Commands /\ a \in Approvals
        BY Zenon DEF TypeOK, Existing
      <3>2. \A a \in Existing :
               [Idle EXCEPT !.pc = "guiConsume", !.id = a, !.at = now,
                            !.want = command[a]] \in Calls
        BY <3>1, <1>0, IdleType, Zenon DEF Calls, PCs
      <3>3. call' \in [Callers -> Calls]
        BY <2>12, <3>2, <1>0, ContinueType, Zenon DEF ConsumeApproval
      <3> QED
        BY <2>12, <3>3, Zenon DEF ConsumeApproval, TypeOK, rows
    <2>13. CASE Abandon(c)
      <3>1. call' \in [Callers -> Calls]
        BY <2>13, <1>0, GoToType, Zenon DEF Abandon, PCs
      <3> QED
        BY <2>13, <3>1, Zenon DEF Abandon, TypeOK, rows
    <2> QED
      BY <1>2, <2>1, <2>2, <2>3, <2>4, <2>5, <2>6, <2>7, <2>8, <2>9, <2>10,
         <2>11, <2>12, <2>13, Zenon DEF Step
  <1>3. CASE UNCHANGED vars
    BY <1>3, Zenon DEF vars, rows, TypeOK
  <1> QED
    BY <1>1, <1>2, <1>3, Zenon DEF Next

----------------------------------------------------------------------------
(* One use.                                                                *)

\* The initial states satisfy the invariant.
LEMMA UseInit == Init => UseInv
  <1> SUFFICES ASSUME Init PROVE UseInv
    BY Zenon
  <1>1. 0 \in Times
    BY ApprovalAssumption DEF Times
  <1>2. TypeOK
    BY <1>1, IdleType, Zenon DEF Init, TypeOK, Statuses, Null
  <1> QED
    BY <1>2 DEF Init, UseInv, UseMarked, ApprovedGranted

\* A step that leaves the rows and the history alone keeps the invariant.
LEMMA RowsUnchanged ==
    ASSUME UseInv, TypeOK', UNCHANGED <<rows, granted, uses>>
    PROVE  UseInv'
  BY Zenon DEF UseInv, UseMarked, ApprovedGranted, rows

\* Every step keeps the invariant.
LEMMA UseStep == UseInv /\ [Next]_vars => UseInv'
  <1> SUFFICES ASSUME UseInv, [Next]_vars PROVE UseInv'
    BY Zenon
  <1>0. TypeOK /\ TypeOK'
    BY TypeStep, Zenon DEF UseInv
  <1>1. CASE Tick
    BY <1>1, <1>0, RowsUnchanged, Zenon DEF Tick
  <1>2. ASSUME NEW c \in Callers, Step(c) PROVE UseInv'
    <2>0. call[c] \in Calls /\ call[c].id \in Approvals /\ call[c].at \in Times
      BY <1>0, Zenon DEF TypeOK, Calls
    <2>1. CASE \/ ReadClock(c) \/ Request(c) \/ ResolveOnly(c) \/ ImCommand(c)
               \/ Read(c) \/ CallTool(c) \/ Select(c) \/ ConsumeRefused(c)
               \/ ConsumeApproval(c) \/ Abandon(c)
      BY <2>1, <1>0, RowsUnchanged, Zenon
         DEF ReadClock, Request, ResolveOnly, ImCommand, Read, CallTool, Select,
             ConsumeRefused, ConsumeApproval, Abandon
    <2>2. CASE CreateApproval(c)
      <3>1. PICK b \in Approvals \ Existing, ttl \in Ttls :
               /\ status' = [status EXCEPT ![b] = "pending"]
               /\ expires' = [expires EXCEPT ![b] = now + ttl]
        BY <2>2, Zenon DEF CreateApproval
      <3>2. status[b] = "none" /\ uses[b] \in Nat /\ ~(uses[b] > 0)
        BY <1>0, Zenon DEF UseInv, UseMarked, Existing, TypeOK
      <3> QED
        BY <2>2, <3>1, <3>2, <1>0
           DEF CreateApproval, UseInv, UseMarked, ApprovedGranted, TypeOK
    <2>3. CASE Decide(c)
      BY <2>3, <2>0, <1>0, OutcomeType
         DEF Decide, UseInv, UseMarked, ApprovedGranted, TypeOK
    <2>4. CASE Consume(c)
      <3>0. PICK b \in Approvals : b = call[c].id
        BY <2>0, Zenon
      <3>1. /\ status[b] = "approved" /\ consumed[b] = Null
            /\ expires[b] >= call[c].at
        BY <2>4, <3>0, Zenon DEF Consume, Consumable
      <3>2. b \in granted /\ uses[b] = 0
        BY <3>1, <2>0, <1>0 DEF UseInv, UseMarked, ApprovedGranted, TypeOK
      <3>3. /\ uses' = [uses EXCEPT ![b] = @ + 1]
            /\ status' = [status EXCEPT ![b] = "consumed"]
            /\ consumed' = [consumed EXCEPT ![b] = call[c].at]
            /\ UNCHANGED <<expires, granted>>
        BY <2>4, <3>0, Zenon DEF Consume, MarkConsumed
      <3>4. call[c].at # Null /\ expires[b] \in Nat /\ call[c].at \in Nat
        BY <2>0, <1>0, ApprovalAssumption DEF Times, Null, TypeOK
      <3>5. uses'[b] = 1 /\ UseMarked(b)' /\ ApprovedGranted(b)'
        BY <3>1, <3>2, <3>3, <3>4, <2>0, <1>0 DEF UseMarked, ApprovedGranted, TypeOK
      <3>6. ASSUME NEW a \in Approvals, a # b
            PROVE  uses'[a] <= 1 /\ UseMarked(a)' /\ ApprovedGranted(a)'
        BY <3>3, <3>6, <2>0, <1>0, Zenon DEF UseInv, UseMarked, ApprovedGranted, TypeOK
      <3> QED
        BY <3>5, <3>6, <1>0 DEF UseInv
    <2> QED
      BY <1>2, <2>1, <2>2, <2>3, <2>4, Zenon DEF Step
  <1>3. CASE UNCHANGED vars
    BY <1>3, <1>0, RowsUnchanged, Zenon DEF vars
  <1> QED
    BY <1>1, <1>2, <1>3, Zenon DEF Next

\* The rows and the callers' locals keep their types in every behaviour.
THEOREM TypeCorrect == Spec => []TypeOK
  <1>1. UseInv => TypeOK
    BY Zenon DEF UseInv
  <1> QED
    BY <1>1, UseInit, UseStep, PTL DEF Spec

\* No approval is consumed twice, whatever the resolvers write over each other:
\* the UPDATE of consume_approved_tool_command guards on consumed_at_ms.
THEOREM SingleUse == Spec => []UsedOnce
  <1>1. UseInv => UsedOnce
    BY Zenon DEF UseInv, UsedOnce
  <1> QED
    BY <1>1, UseInit, UseStep, PTL DEF Spec

\* A consumed approval had been granted, and had not expired when the consumer
\* read the clock.
THEOREM AuthorisedUse == Spec => []UseAuthorised
  <1>1. UseInv => UseAuthorised
    BY Zenon DEF UseInv, UseMarked, UseAuthorised
  <1> QED
    BY <1>1, UseInit, UseStep, PTL DEF Spec

----------------------------------------------------------------------------
(* Questions.                                                              *)

(***************************************************************************)
(* The inductive invariant.  A write names the id only, so the record may  *)
(* hold the answer of another user or an expiry by the time it is read     *)
(* again; but it then names an answer that was accepted, and accepted      *)
(* answers do not change.                                                  *)
(***************************************************************************)
AnswersInOrder ==
    \A u \in Users :
        /\ answer[u].pc = "store" => answer[u].option \in Options /\ ~answer[u].late
        /\ answer[u].pc = "reread" => u \in accepted
        /\ u \in accepted => /\ answer[u].pc \in {"reread", "done"}
                             /\ answer[u].option \in Options /\ ~answer[u].late

RecordAgrees ==
    /\ question.status = "pending" => accepted = {}
    /\ question.status = "answered" => \E u \in accepted : question.option = answer[u].option
    /\ question.status = "expired" => question.option = NoOption /\ expirers # {}

QuestionInv ==
    /\ QuestionTypeOK
    /\ AnswersInOrder
    /\ RecordAgrees
    /\ FollowUpTruthful
    /\ AcceptedResumes

\* What Advance does to the answers.
LEMMA Advanced ==
    ASSUME QuestionTypeOK, NEW u \in Users,
           NEW l \in {"idle", "read", "expire", "store", "reread", "done"}, Advance(u, l)
    PROVE  /\ answer' \in [Users -> [pc : {"idle", "read", "expire", "store", "reread", "done"},
                                     option : Options \union {NoOption}, late : BOOLEAN]]
           /\ answer'[u].pc = l
           /\ answer'[u].option = answer[u].option
           /\ answer'[u].late = answer[u].late
           /\ \A v \in Users : v # u => answer'[v] = answer[v]
  BY Zenon DEF QuestionTypeOK, Advance

LEMMA QuestionStep == QuestionInv /\ [QuestionNext]_questionVars => QuestionInv'
  <1> SUFFICES ASSUME QuestionInv, [QuestionNext]_questionVars PROVE QuestionInv'
    BY Zenon
  <1>0. QuestionTypeOK /\ AnswersInOrder /\ RecordAgrees /\ FollowUpTruthful /\ AcceptedResumes
    BY Zenon DEF QuestionInv
  <1>1. CASE Expires \/ UNCHANGED questionVars
    <2>1. /\ expired' \in BOOLEAN
          /\ UNCHANGED <<question, answer, followUps, accepted, expirers, unread>>
      BY <1>1, <1>0, Zenon DEF Expires, questionVars, QuestionTypeOK
    <2> QED
      BY <2>1, <1>0, Zenon DEF QuestionInv, QuestionTypeOK, AnswersInOrder, RecordAgrees,
         FollowUpTruthful, AcceptedResumes
  <1>2. ASSUME NEW u \in Users, NEW o \in Options \union {NoOption}, SubmitAnswer(u, o)
        PROVE  QuestionInv'
    <2>1. /\ answer' \in [Users -> [pc : {"idle", "read", "expire", "store", "reread", "done"},
                                    option : Options \union {NoOption}, late : BOOLEAN]]
          /\ answer'[u].pc = "read" /\ answer[u].pc = "idle"
          /\ \A v \in Users : v # u => answer'[v] = answer[v]
      BY <1>0, <1>2, Zenon DEF SubmitAnswer, QuestionTypeOK
    <2>2. UNCHANGED <<question, expired, followUps, accepted, expirers, unread>>
      BY <1>2, Zenon DEF SubmitAnswer
    <2>3. u \notin accepted /\ accepted \subseteq Users
      BY <1>0, <2>1, Zenon DEF AnswersInOrder, QuestionTypeOK
    <2>4. QuestionTypeOK'
      BY <1>0, <2>1, <2>2, Zenon DEF QuestionTypeOK
    <2>5. AnswersInOrder' /\ RecordAgrees'
      BY <1>0, <2>1, <2>2, <2>3, Zenon DEF AnswersInOrder, RecordAgrees
    <2>6. FollowUpTruthful' /\ AcceptedResumes'
      BY <1>0, <2>1, <2>2, <2>3 DEF FollowUpTruthful, AcceptedResumes
    <2> QED
      BY <2>4, <2>5, <2>6, Zenon DEF QuestionInv
  <1>3. ASSUME NEW u \in Users, ReadQuestion(u) PROVE QuestionInv'
    <2>1. PICK l \in {"expire", "store", "done"} :
             Advance(u, l) /\ (l = "store" => answer[u].option \in Options /\ ~answer[u].late)
      BY <1>3, Zenon DEF ReadQuestion
    <2>2. /\ answer[u].pc = "read"
          /\ UNCHANGED <<question, expired, followUps, accepted, expirers, unread>>
      BY <1>3, Zenon DEF ReadQuestion
    <2>3. u \notin accepted /\ accepted \subseteq Users
      BY <1>0, <2>2, Zenon DEF AnswersInOrder, QuestionTypeOK
    <2>4. QuestionTypeOK'
      BY <1>0, <2>1, <2>2, Advanced DEF QuestionTypeOK
    <2>5. AnswersInOrder' /\ RecordAgrees'
      BY <1>0, <2>1, <2>2, <2>3, Advanced DEF AnswersInOrder, RecordAgrees
    <2>6. FollowUpTruthful' /\ AcceptedResumes'
      BY <1>0, <2>1, <2>2, <2>3, Advanced DEF FollowUpTruthful, AcceptedResumes
    <2> QED
      BY <2>4, <2>5, <2>6, Zenon DEF QuestionInv
  <1>4. ASSUME NEW u \in Users, StoreExpired(u) PROVE QuestionInv'
    <2>1. /\ answer[u].pc = "expire" /\ Advance(u, "done")
          /\ question' = [status |-> "expired", option |-> NoOption]
          /\ expirers' = expirers \union {u}
          /\ UNCHANGED <<expired, followUps, accepted, unread>>
      BY <1>4, Zenon DEF StoreExpired
    <2>2. u \notin accepted /\ accepted \subseteq Users
      BY <1>0, <2>1, Zenon DEF AnswersInOrder, QuestionTypeOK
    <2>3. QuestionTypeOK'
      BY <1>0, <2>1, Advanced, Zenon DEF QuestionTypeOK
    <2>4. AnswersInOrder' /\ RecordAgrees'
      BY <1>0, <2>1, <2>2, Advanced DEF AnswersInOrder, RecordAgrees
    <2>5. FollowUpTruthful' /\ AcceptedResumes'
      BY <1>0, <2>1, <2>2, Advanced DEF FollowUpTruthful, AcceptedResumes
    <2> QED
      BY <2>3, <2>4, <2>5, Zenon DEF QuestionInv
  <1>5. ASSUME NEW u \in Users, StoreAnswer(u) PROVE QuestionInv'
    <2>1. /\ answer[u].pc = "store" /\ Advance(u, "reread")
          /\ question' = [status |-> "answered", option |-> answer[u].option]
          /\ accepted' = accepted \union {u}
          /\ UNCHANGED <<expired, followUps, expirers, unread>>
      BY <1>5, Zenon DEF StoreAnswer
    <2>2. answer[u].option \in Options /\ ~answer[u].late /\ accepted \subseteq Users
      BY <1>0, <2>1, Zenon DEF AnswersInOrder, QuestionTypeOK
    <2>3. QuestionTypeOK'
      BY <1>0, <2>1, <2>2, Advanced, Zenon DEF QuestionTypeOK
    <2>4. AnswersInOrder' /\ RecordAgrees'
      BY <1>0, <2>1, <2>2, Advanced DEF AnswersInOrder, RecordAgrees
    <2>5. FollowUpTruthful' /\ AcceptedResumes'
      BY <1>0, <2>1, <2>2, Advanced DEF FollowUpTruthful, AcceptedResumes
    <2> QED
      BY <2>3, <2>4, <2>5, Zenon DEF QuestionInv
  <1>6. ASSUME NEW u \in Users, FollowUp(u) PROVE QuestionInv'
    <2>1. /\ answer[u].pc = "reread" /\ Advance(u, "done")
          /\ followUps' = IF question.option \in Options
                THEN followUps \union {[user |-> u, option |-> question.option]} ELSE followUps
          /\ UNCHANGED <<question, expired, accepted, expirers, unread>>
      BY <1>6, Zenon DEF FollowUp
    <2>2. u \in accepted /\ accepted \subseteq Users
      BY <1>0, <2>1, Zenon DEF AnswersInOrder, QuestionTypeOK
    <2>3. \/ question.status = "expired" /\ expirers # {} /\ question.option = NoOption
          \/ \E v \in accepted : question.option = answer[v].option /\ answer[v].option \in Options
      BY <1>0, <2>2, Zenon DEF RecordAgrees, AnswersInOrder, QuestionTypeOK
    <2>4. QuestionTypeOK'
      BY <1>0, <2>1, Advanced DEF QuestionTypeOK
    <2>5. AnswersInOrder' /\ RecordAgrees'
      BY <1>0, <2>1, <2>2, Advanced DEF AnswersInOrder, RecordAgrees
    <2>6. CASE question.option \in Options
      <3>1. followUps' = followUps \union {[user |-> u, option |-> question.option]}
        BY <2>1, <2>6, Zenon
      <3>2. \A v \in Users : answer'[v].option = answer[v].option
        BY <1>0, <2>1, Advanced, Zenon
      <3>3. \E v \in accepted : question.option = answer[v].option
        BY <2>3, <2>6, QuestionAssumption, Zenon
      <3>4. FollowUpTruthful'
        BY <1>0, <2>1, <2>2, <2>6, <3>1, <3>2, <3>3 DEF FollowUpTruthful
      <3>5. AcceptedResumes'
        <4>1. \E f \in followUps' : f.user = u
          <5> DEFINE g == [user |-> u, option |-> question.option]
          <5>1. g \in followUps' /\ g.user = u
            BY <3>1, Zenon
          <5> QED
            BY <5>1, Zenon
        <4>2. \A v \in Users : v # u => answer'[v] = answer[v]
          BY <1>0, <2>1, Advanced, Zenon
        <4> QED
          BY <1>0, <2>1, <2>2, <3>1, <4>1, <4>2, Zenon DEF AcceptedResumes
      <3> QED
        BY <2>4, <2>5, <3>4, <3>5, Zenon DEF QuestionInv
    <2>7. CASE question.option \notin Options
      <3>1. followUps' = followUps /\ expirers # {} /\ expirers' = expirers
        BY <2>1, <2>3, <2>7, Zenon
      <3>2. \A v \in Users : answer'[v].option = answer[v].option
        BY <1>0, <2>1, Advanced, Zenon
      <3>3. FollowUpTruthful' /\ AcceptedResumes'
        BY <1>0, <2>1, <2>2, <3>1, <3>2, Zenon DEF FollowUpTruthful, AcceptedResumes
      <3> QED
        BY <2>4, <2>5, <3>3, Zenon DEF QuestionInv
    <2> QED
      BY <2>6, <2>7, Zenon
  <1>7. ASSUME NEW u \in Users, AnswerFails(u) PROVE QuestionInv'
    <2>1. /\ answer[u].pc \in {"read", "expire", "store", "reread"} /\ Advance(u, "done")
          /\ unread' = IF answer[u].pc = "reread" THEN unread \union {u} ELSE unread
          /\ UNCHANGED <<question, expired, followUps, accepted, expirers>>
      BY <1>7, Zenon DEF AnswerFails
    <2>2. (u \in accepted => answer[u].pc = "reread") /\ accepted \subseteq Users
      BY <1>0, <2>1, Zenon DEF AnswersInOrder, QuestionTypeOK
    <2>3. QuestionTypeOK'
      BY <1>0, <2>1, Advanced, Zenon DEF QuestionTypeOK
    <2>4. AnswersInOrder' /\ RecordAgrees'
      BY <1>0, <2>1, <2>2, Advanced DEF AnswersInOrder, RecordAgrees
    <2>5. FollowUpTruthful' /\ AcceptedResumes'
      BY <1>0, <2>1, <2>2, Advanced DEF FollowUpTruthful, AcceptedResumes
    <2> QED
      BY <2>3, <2>4, <2>5, Zenon DEF QuestionInv
  <1> QED
    BY <1>1, <1>2, <1>3, <1>4, <1>5, <1>6, <1>7, Zenon DEF QuestionNext, AnswerStep

LEMMA QuestionStart == QuestionInit => QuestionInv
  <1> SUFFICES ASSUME QuestionInit PROVE QuestionInv
    BY Zenon
  <1>1. \A u \in Users : answer[u].pc = "idle"
    BY Zenon DEF QuestionInit
  <1>2. /\ question.status = "pending" /\ question.option = NoOption
        /\ followUps = {} /\ accepted = {} /\ expirers = {} /\ unread = {}
    BY Zenon DEF QuestionInit
  <1>3. QuestionTypeOK
    BY Zenon DEF QuestionInit, QuestionTypeOK
  <1>4. AnswersInOrder /\ RecordAgrees
    BY <1>1, <1>2, Zenon DEF AnswersInOrder, RecordAgrees
  <1>5. FollowUpTruthful /\ AcceptedResumes
    BY <1>2, Zenon DEF FollowUpTruthful, AcceptedResumes
  <1> QED
    BY <1>3, <1>4, <1>5, Zenon DEF QuestionInv

\* The record of a question, its answers and follow-up turns keep their types.
THEOREM QuestionTypeCorrect == QuestionSpec => []QuestionTypeOK
  <1>1. QuestionInv => QuestionTypeOK
    BY Zenon DEF QuestionInv
  <1> QED
    BY <1>1, QuestionStart, QuestionStep, PTL DEF QuestionSpec

\* A follow-up turn names an option that some user submitted and the manager
\* accepted: answer_question reads the record again after its write.
THEOREM TruthfulFollowUp == QuestionSpec => []FollowUpTruthful
  <1>1. QuestionInv => FollowUpTruthful
    BY Zenon DEF QuestionInv
  <1> QED
    BY <1>1, QuestionStart, QuestionStep, PTL DEF QuestionSpec

\* An accepted answer resumes the agent unless its second read failed or an
\* expiry was stored over it.
THEOREM AcceptedIsHeard == QuestionSpec => []AcceptedResumes
  <1>1. QuestionInv => AcceptedResumes
    BY Zenon DEF QuestionInv
  <1> QED
    BY <1>1, QuestionStart, QuestionStep, PTL DEF QuestionSpec

\* A follow-up turn is caused by an answer that was submitted before the expiry.
THEOREM LateIsUnheard == QuestionSpec => []LateNeverResumes
  <1>1. QuestionInv => LateNeverResumes
    BY Zenon DEF QuestionInv, AnswersInOrder, FollowUpTruthful, LateNeverResumes, QuestionTypeOK
  <1> QED
    BY <1>1, QuestionStart, QuestionStep, PTL DEF QuestionSpec

----------------------------------------------------------------------------
(* ChatSocket.                                                             *)

\* The frames of turn t that c has on its way or on its screen.
Mine(c, t) == {f \in received[c] \cup Range(outgoing[c]) : f.turn = t}

\* How many frames of t were offered to the connections.
OfferedTo(t) == sent[t] - Len(fan[t])

\* The queue between the task of t and the fan-out holds the last frames of t, in
\* order; a turn that nobody started has published nothing.
FanFacts(t) ==
  /\ Len(fan[t]) <= sent[t]
  /\ \A i \in 1 .. Len(fan[t]) :
       /\ fan[t][i].turn = t /\ fan[t][i].kind # "interrupted"
       /\ fan[t][i].n = (OfferedTo(t) + i) - 1
  /\ task[t] = "none" <=> owner[t] = NoTurn
  /\ task[t] = "none" <=> sent[t] = 0
  /\ task[t] = "failing" => t \in dropped

\* A connection lists its own turns only.
OwnFacts(c) ==
  /\ \A t \in activeTurns[c] : owner[t] = c
  /\ listing[c] # NoTurn => owner[listing[c]] = c

\* What a connection that stayed has of a turn is a beginning of what was offered,
\* all of it as long as the broadcaster knows it.
ReachFacts(c, t) ==
  <<c, t>> \notin left =>
    \E k \in 0 .. OfferedTo(t) : /\ Reached(c, t) = 0 .. (k - 1)
                                 /\ c \in subscribed => k = OfferedTo(t)

\* A task that ended by itself has published a terminal frame, which is the last of
\* the queue or was offered; one that was told to abort left one with its starter.
EndFacts(t) ==
  task[t] \in {"over", "unlisted", "finished"} /\ t \notin aborting \cup dropped =>
    IF fan[t] # <<>> THEN fan[t][Len(fan[t])].kind \in Terminal
    ELSE \A c \in subscribed : <<c, t>> \notin left => Concluded(c, t)
AbortFacts(t) ==
  t \in aborting /\ owner[t] \in subscribed /\ <<owner[t], t>> \notin left => Concluded(owner[t], t)

ChatInv ==
  /\ ChatTypeOK
  /\ \A t \in ChatTurns : FanFacts(t) /\ EndFacts(t) /\ AbortFacts(t)
  /\ \A c \in Conns : OwnFacts(c)
  /\ \A c \in Conns, t \in ChatTurns : ReachFacts(c, t)

LEMMA RangeAppend ==
  ASSUME NEW S, NEW s \in Seq(S), NEW e \in S
  PROVE  Range(Append(s, e)) = Range(s) \cup {e}
<1> DEFINE n == Len(s)
<1>1. n \in Nat /\ DOMAIN s = 1 .. n
  OBVIOUS
<1>2. /\ Append(s, e) \in Seq(S)
      /\ DOMAIN Append(s, e) = 1 .. (n + 1)
      /\ Append(s, e)[n + 1] = e
      /\ \A i \in 1 .. n : Append(s, e)[i] = s[i]
  OBVIOUS
<1> HIDE DEF n
<1>3. 1 .. (n + 1) = (1 .. n) \cup {n + 1}
  BY <1>1
<1> QED
  BY <1>1, <1>2, <1>3, ZenonT(30) DEF Range

LEMMA RangeTail ==
  ASSUME NEW S, NEW s \in Seq(S), s # <<>>
  PROVE  Range(s) = {Head(s)} \cup Range(Tail(s))
<1> DEFINE n == Len(s)
<1>1. n \in Nat \ {0} /\ DOMAIN s = 1 .. n
  OBVIOUS
<1>2. /\ DOMAIN Tail(s) = 1 .. (n - 1)
      /\ \A i \in 1 .. (n - 1) : Tail(s)[i] = s[i + 1]
      /\ Head(s) = s[1]
  OBVIOUS
<1> HIDE DEF n
<1>3. ASSUME NEW i \in 1 .. n, i # 1  PROVE i - 1 \in 1 .. (n - 1) /\ s[i] = Tail(s)[i - 1]
  BY <1>1, <1>2, <1>3
<1>4. \A i \in 1 .. (n - 1) : i + 1 \in 1 .. n
  BY <1>1
<1>5. 1 \in 1 .. n
  BY <1>1
<1>6. ASSUME NEW x \in Range(s)  PROVE x \in {Head(s)} \cup Range(Tail(s))
  <2>1. PICK i \in 1 .. n : s[i] = x
    BY <1>1, <1>6, Zenon DEF Range
  <2> QED
    BY <1>2, <1>3, <2>1, Zenon DEF Range
<1>7. ASSUME NEW x \in {Head(s)} \cup Range(Tail(s))  PROVE x \in Range(s)
  <2>1. CASE x = Head(s)
    BY <1>1, <1>2, <1>5, <2>1, Zenon DEF Range
  <2>2. CASE x \in Range(Tail(s))
    <3>1. PICK i \in 1 .. (n - 1) : Tail(s)[i] = x
      BY <1>2, <2>2, Zenon DEF Range
    <3>2. i + 1 \in 1 .. n /\ s[i + 1] = x
      BY <1>2, <1>4, <3>1, Zenon
    <3> QED
      BY <1>1, <3>2, Zenon DEF Range
  <2> QED
    BY <1>7, <2>1, <2>2, Zenon
<1> QED
  BY <1>6, <1>7, Zenon

LEMMA RangeIn ==
  ASSUME NEW S, NEW s \in Seq(S)
  PROVE  Range(s) \subseteq S
BY DEF Range

LEMMA ChatInitial == ChatInit => ChatInv
<1> SUFFICES ASSUME ChatInit PROVE ChatInv
  BY Zenon
<1>1. ChatTypeOK
  <2>1. <<>> \in Seq(Frames) /\ Len(<<>>) = 0 /\ "none" \in TaskStates
    BY DEF TaskStates
  <2> QED
    BY <2>1, ChatAssumption DEF ChatInit, ChatTypeOK
<1>2. ASSUME NEW t \in ChatTurns  PROVE FanFacts(t) /\ EndFacts(t) /\ AbortFacts(t)
  BY DEF ChatInit, FanFacts, EndFacts, AbortFacts, OfferedTo
<1>3. ASSUME NEW c \in Conns  PROVE OwnFacts(c)
  BY Zenon DEF ChatInit, OwnFacts
<1>4. ASSUME NEW c \in Conns, NEW t \in ChatTurns  PROVE ReachFacts(c, t)
  <2>1. Reached(c, t) = {}
    BY DEF ChatInit, Reached, Range
  <2>2. OfferedTo(t) = 0 /\ subscribed = {}
    BY DEF ChatInit, OfferedTo
  <2> QED
    BY <2>1, <2>2 DEF ReachFacts
<1> QED
  BY <1>1, <1>2, <1>3, <1>4, Zenon DEF ChatInv

\* A queue that has room takes one frame more, and gives one away.
LEMMA QueueStep ==
  ASSUME NEW q \in Seq(Frames), NEW e \in Frames
  PROVE  /\ Append(q, e) \in Seq(Frames) /\ Len(Append(q, e)) = Len(q) + 1
         /\ q # <<>> => Head(q) \in Frames /\ Tail(q) \in Seq(Frames) /\ Len(Tail(q)) = Len(q) - 1
         /\ Len(q) \in Nat
OBVIOUS

LEMMA BroadcastTypes ==
  ASSUME ChatTypeOK, NEW frame \in Frames, Broadcast(frame)
  PROVE  /\ outgoing' \in [Conns -> Seq(Frames)]
         /\ \A c \in Conns : Len(outgoing'[c]) <= Capacity
         /\ registered' \subseteq registered /\ subscribed' \subseteq subscribed
         /\ subscribed' \subseteq registered'
<1> DEFINE full == {c \in Conns : Hears(c) /\ Len(outgoing[c]) >= Capacity}
<1>1. /\ outgoing' = [c \in Conns |-> IF Hears(c) /\ c \notin full THEN Append(outgoing[c], frame) ELSE outgoing[c]]
      /\ registered' = registered \ full /\ subscribed' = subscribed \ full
  BY Zenon DEF Broadcast
<1>2. ASSUME NEW c \in Conns  PROVE outgoing'[c] \in Seq(Frames) /\ Len(outgoing'[c]) <= Capacity
  <2>1. outgoing[c] \in Seq(Frames) /\ Len(outgoing[c]) <= Capacity
    BY Zenon DEF ChatTypeOK
  <2>2. CASE Hears(c) /\ c \notin full
    <3>1. outgoing'[c] = Append(outgoing[c], frame)
      BY <1>1, <2>2, Zenon
    <3>2. ~(Len(outgoing[c]) >= Capacity)
      BY <2>2, Zenon
    <3>3. Append(outgoing[c], frame) \in Seq(Frames) /\ Len(outgoing'[c]) = Len(outgoing[c]) + 1 /\ Len(outgoing[c]) \in Nat
      BY <2>1, <3>1, QueueStep, Zenon
    <3> QED
      BY <3>1, <3>2, <3>3, ChatAssumption
  <2>3. CASE ~(Hears(c) /\ c \notin full)
    <3>1. outgoing'[c] = outgoing[c]
      BY <1>1, <2>3, Zenon
    <3> QED
      BY <2>1, <3>1, Zenon
  <2> QED
    BY <2>2, <2>3, Zenon
<1>3. outgoing' = [c \in Conns |-> outgoing'[c]]
  BY <1>1, Zenon
<1>4. outgoing' \in [Conns -> Seq(Frames)]
  BY <1>2, <1>3, Zenon
<1> HIDE DEF full
<1> QED
  BY <1>1, <1>2, <1>4, Zenon DEF ChatTypeOK

LEMMA ChatTypes ==
  ASSUME ChatInv, [ChatNext]_chatVars
  PROVE  ChatTypeOK'
<1> USE DEF ChatTypeOK
<1>a. ChatTypeOK /\ (\A t \in ChatTurns : FanFacts(t)) /\ (\A c \in Conns : OwnFacts(c))
  BY Zenon DEF ChatInv
<1>t. {"none", "running", "failing", "over", "unlisted", "finished"} = TaskStates
  BY Zenon DEF TaskStates
<1>f. ASSUME NEW t \in ChatTurns, NEW k \in {"started", "item", "completed", "failed"}
      PROVE  Frame(t, k) \in Frames
  <2>1. k \in Terminal \cup {"started", "item"} /\ sent[t] \in Nat
    BY <1>a, <1>f, Zenon DEF Terminal
  <2> QED
    BY <2>1, Zenon DEF Frame, Frames
<1>1. ASSUME NEW c \in Conns, Subscribe(c)  PROVE ChatTypeOK'
  BY <1>a, <1>1, Zenon DEF Subscribe, Begun
<1>2. ASSUME NEW c \in Conns, Unsubscribe(c)  PROVE ChatTypeOK'
  BY <1>a, <1>2, Zenon DEF Unsubscribe, Begun
<1>3. ASSUME NEW c \in Conns, Close(c)  PROVE ChatTypeOK'
  <2>1. \A t \in activeTurns[c] : t \in ChatTurns /\ task[t] # "none"
    BY <1>a, ChatAssumption DEF OwnFacts, FanFacts
  <2>2. <<>> \in Seq(Frames) /\ Len(<<>>) <= Capacity
    BY ChatAssumption
  <2> QED
    BY <1>a, <1>3, <2>1, <2>2, Zenon DEF Close
<1>4. ASSUME NEW c \in Conns, WriteFrame(c)  PROVE ChatTypeOK'
  <2>1. /\ Head(outgoing[c]) \in Frames /\ Tail(outgoing[c]) \in Seq(Frames)
        /\ Len(Tail(outgoing[c])) <= Capacity
    <3>1. PICK q \in Seq(Frames) : q = outgoing[c]
      BY <1>a, Zenon
    <3>2. q # <<>> /\ Len(q) <= Capacity
      BY <1>4, <1>a, <3>1, Zenon DEF WriteFrame
    <3>3. Head(q) \in Frames /\ Tail(q) \in Seq(Frames) /\ Len(Tail(q)) = Len(q) - 1 /\ Len(q) \in Nat
      BY <3>2
    <3> QED
      BY <3>1, <3>2, <3>3, ChatAssumption
  <2> QED
    BY <1>a, <1>4, <2>1, Zenon DEF WriteFrame
<1>5. ASSUME NEW c \in Conns, TurnListed(c)  PROVE ChatTypeOK'
  BY <1>a, <1>5 DEF TurnListed
<1>6. ASSUME NEW c \in Conns, NEW t \in ChatTurns, TurnStart(c, t)  PROVE ChatTypeOK'
  <2>1. <<Frame(t, "started")>> \in Seq(Frames) /\ Len(<<Frame(t, "started")>>) <= Capacity
    BY <1>f, ChatAssumption
  <2>2. c \in open
    BY <1>6, Zenon DEF TurnStart, Ready
  <2>3. /\ fan' \in [ChatTurns -> Seq(Frames)] /\ \A u \in ChatTurns : Len(fan'[u]) <= Capacity
    BY <1>a, <1>6, <2>1, Zenon DEF TurnStart
  <2>4. task' \in [ChatTurns -> TaskStates] /\ aborting' \subseteq {u \in ChatTurns : task'[u] # "none"}
    BY <1>a, <1>t, <1>6, Zenon DEF TurnStart
  <2>5. left' \subseteq Conns \X ChatTurns
    BY <1>a, <1>6, Zenon DEF TurnStart, Begun
  <2> QED
    BY <1>a, <1>6, <2>2, <2>3, <2>4, <2>5, Zenon DEF TurnStart
<1>7. ASSUME NEW c \in Conns, NEW t \in ChatTurns, TurnCancel(c, t)  PROVE ChatTypeOK'
  <2>1. task[t] # "none"
    BY <1>a, <1>7, ChatAssumption DEF OwnFacts, FanFacts, TurnCancel
  <2>2. [turn |-> t, n |-> 0, kind |-> "interrupted"] \in Frames
    BY Zenon DEF Frames, Terminal
  <2>3. received' \in [Conns -> SUBSET Frames]
    BY <1>a, <1>7, <2>2, Zenon DEF TurnCancel
  <2> QED
    BY <1>a, <1>7, <2>1, <2>3, Zenon DEF TurnCancel
<1>p. ASSUME NEW t \in ChatTurns, NEW k \in {"item", "completed", "failed"}, Room(t), Publish(t, k)
      PROVE  /\ fan' \in [ChatTurns -> Seq(Frames)] /\ \A u \in ChatTurns : Len(fan'[u]) <= Capacity
             /\ sent' \in [ChatTurns -> Nat] /\ dropped' \subseteq ChatTurns
  <2>1. Frame(t, k) \in Frames
    BY <1>f, Zenon
  <2>2. fan[t] \in Seq(Frames) /\ Len(fan[t]) \in Nat /\ Len(fan[t]) < Capacity
    BY <1>a, <1>p DEF Room
  <2>3. Append(fan[t], Frame(t, k)) \in Seq(Frames) /\ Len(Append(fan[t], Frame(t, k))) <= Capacity
    <3>1. Len(Append(fan[t], Frame(t, k))) = Len(fan[t]) + 1 /\ Append(fan[t], Frame(t, k)) \in Seq(Frames)
      BY <2>1, <2>2, QueueStep, Zenon
    <3> QED
      BY <2>2, <3>1, ChatAssumption
  <2> QED
    BY <1>a, <1>p, <2>3 DEF Publish
<1>l. ASSUME NEW t \in ChatTurns, Lose(t)
      PROVE  /\ fan' \in [ChatTurns -> Seq(Frames)] /\ \A u \in ChatTurns : Len(fan'[u]) <= Capacity
             /\ sent' \in [ChatTurns -> Nat] /\ dropped' \subseteq ChatTurns
  BY <1>a, <1>l, Zenon DEF Lose
<1>8. ASSUME NEW t \in ChatTurns, TaskPublishes(t)  PROVE ChatTypeOK'
  <2>1. task' \in [ChatTurns -> TaskStates] /\ \A u \in ChatTurns : task[u] # "none" => task'[u] # "none"
    BY <1>a, <1>t, <1>8, Zenon DEF TaskPublishes
  <2>2. /\ fan' \in [ChatTurns -> Seq(Frames)] /\ \A u \in ChatTurns : Len(fan'[u]) <= Capacity
        /\ sent' \in [ChatTurns -> Nat] /\ dropped' \subseteq ChatTurns
    BY <1>8, <1>p, <1>l, Zenon DEF TaskPublishes
  <2> QED
    BY <1>a, <1>8, <2>1, <2>2, Zenon DEF TaskPublishes, taskRest
<1>9. ASSUME NEW t \in ChatTurns, TaskFails(t)  PROVE ChatTypeOK'
  <2>1. task' \in [ChatTurns -> TaskStates] /\ \A u \in ChatTurns : task[u] # "none" => task'[u] # "none"
    BY <1>a, <1>t, <1>9, Zenon DEF TaskFails
  <2>2. /\ fan' \in [ChatTurns -> Seq(Frames)] /\ \A u \in ChatTurns : Len(fan'[u]) <= Capacity
        /\ sent' \in [ChatTurns -> Nat] /\ dropped' \subseteq ChatTurns
    BY <1>9, <1>p, <1>l, Zenon DEF TaskFails
  <2> QED
    BY <1>a, <1>9, <2>1, <2>2, Zenon DEF TaskFails, taskRest
<1>10. ASSUME NEW t \in ChatTurns, TaskCompletes(t)  PROVE ChatTypeOK'
  <2>1. task' \in [ChatTurns -> TaskStates] /\ \A u \in ChatTurns : task[u] # "none" => task'[u] # "none"
    BY <1>a, <1>t, <1>10, Zenon DEF TaskCompletes
  <2>2. /\ fan' \in [ChatTurns -> Seq(Frames)] /\ \A u \in ChatTurns : Len(fan'[u]) <= Capacity
        /\ sent' \in [ChatTurns -> Nat] /\ dropped' \subseteq ChatTurns
    BY <1>10, <1>p, <1>l, Zenon DEF TaskCompletes
  <2> QED
    BY <1>a, <1>10, <2>1, <2>2, Zenon DEF TaskCompletes, taskRest
<1>11. ASSUME NEW t \in ChatTurns, TaskUnlists(t)  PROVE ChatTypeOK'
  BY <1>a, <1>t, <1>11, Zenon DEF TaskUnlists
<1>12. ASSUME NEW t \in ChatTurns, TaskFinishes(t) \/ TaskStops(t)  PROVE ChatTypeOK'
  BY <1>a, <1>t, <1>12, Zenon DEF TaskFinishes, TaskStops, taskRest
<1>13. ASSUME NEW t \in ChatTurns, FanOut(t)  PROVE ChatTypeOK'
  <2>1. Head(fan[t]) \in Frames /\ Tail(fan[t]) \in Seq(Frames) /\ Len(Tail(fan[t])) <= Capacity
    <3>1. PICK q \in Seq(Frames) : q = fan[t]
      BY <1>a, Zenon
    <3>2. q # <<>> /\ Len(q) <= Capacity
      BY <1>13, <1>a, <3>1, Zenon DEF FanOut
    <3>3. Head(q) \in Frames /\ Tail(q) \in Seq(Frames) /\ Len(Tail(q)) = Len(q) - 1 /\ Len(q) \in Nat
      BY <3>2
    <3> QED
      BY <3>1, <3>2, <3>3, ChatAssumption
  <2>2. fan' \in [ChatTurns -> Seq(Frames)] /\ \A u \in ChatTurns : Len(fan'[u]) <= Capacity
    BY <1>a, <1>13, <2>1, Zenon DEF FanOut
  <2>3. Broadcast(Head(fan[t]))
    BY <1>13, Zenon DEF FanOut
  <2>4. /\ outgoing' \in [Conns -> Seq(Frames)]
        /\ \A c \in Conns : Len(outgoing'[c]) <= Capacity
        /\ registered' \subseteq registered /\ subscribed' \subseteq subscribed
        /\ subscribed' \subseteq registered'
    BY <1>a, <2>1, <2>3, BroadcastTypes, Zenon
  <2> QED
    BY <1>a, <1>13, <2>2, <2>4, Zenon DEF FanOut
<1>14. ASSUME Push  PROVE ChatTypeOK'
  <2>1. [turn |-> Pushed, n |-> pushes, kind |-> "item"] \in Frames
    BY <1>a, Zenon DEF Frames
  <2>3. Broadcast([turn |-> Pushed, n |-> pushes, kind |-> "item"])
    BY <1>14, Zenon DEF Push
  <2>4. /\ outgoing' \in [Conns -> Seq(Frames)]
        /\ \A c \in Conns : Len(outgoing'[c]) <= Capacity
        /\ registered' \subseteq registered /\ subscribed' \subseteq subscribed
        /\ subscribed' \subseteq registered'
    BY <1>a, <2>1, <2>3, BroadcastTypes, Zenon
  <2> QED
    BY <1>a, <1>14, <2>4 DEF Push
<1>15. CASE UNCHANGED chatVars
  BY <1>a, <1>15, Zenon DEF chatVars
<1> QED
  BY <1>1, <1>2, <1>3, <1>4, <1>5, <1>6, <1>7, <1>8, <1>9, <1>10, <1>11, <1>12, <1>13, <1>14, <1>15, Zenon DEF ChatNext

\* A step that leaves the frames of t alone keeps what its queue holds.
LEMMA FanSame ==
  ASSUME NEW t \in ChatTurns, FanFacts(t), fan'[t] = fan[t], sent'[t] = sent[t],
         task'[t] = "none" <=> task[t] = "none", owner'[t] = NoTurn <=> owner[t] = NoTurn,
         task'[t] = "failing" => t \in dropped'
  PROVE  FanFacts(t)' /\ OfferedTo(t)' = OfferedTo(t)
BY Zenon DEF FanFacts, OfferedTo

LEMMA FanKept ==
  ASSUME NEW t \in ChatTurns, FanFacts(t), fan'[t] = fan[t], sent'[t] = sent[t],
         task'[t] = task[t], owner'[t] = owner[t], t \in dropped => t \in dropped'
  PROVE  FanFacts(t)' /\ OfferedTo(t)' = OfferedTo(t)
<1>1. task'[t] = "failing" => t \in dropped'
  BY Zenon DEF FanFacts
<1> QED
  BY <1>1, FanSame, Zenon

LEMMA PublishedFacts ==
  ASSUME ChatTypeOK, NEW t \in ChatTurns, NEW k \in {"item", "completed", "failed"}, FanFacts(t), Publish(t, k),
         task[t] # "none", task'[t] # "none", task'[t] # "failing", owner' = owner
  PROVE  /\ FanFacts(t)' /\ OfferedTo(t)' = OfferedTo(t)
         /\ fan'[t] # <<>> /\ fan'[t][Len(fan'[t])].kind = k
<1> DEFINE n == Len(fan[t])
<1>1. /\ fan[t] \in Seq(Frames) /\ sent[t] \in Nat /\ n \in Nat
      /\ fan'[t] = Append(fan[t], Frame(t, k)) /\ sent'[t] = sent[t] + 1
  BY DEF ChatTypeOK, Publish
<1>2. /\ Len(fan'[t]) = n + 1 /\ fan'[t][n + 1] = Frame(t, k)
      /\ \A i \in 1 .. n : fan'[t][i] = fan[t][i]
  BY <1>1
<1>3. /\ n <= sent[t] /\ owner[t] # NoTurn /\ sent[t] # 0
      /\ \A i \in 1 .. n : /\ fan[t][i].turn = t /\ fan[t][i].kind # "interrupted"
                           /\ fan[t][i].n = (OfferedTo(t) + i) - 1
  BY Zenon DEF FanFacts
<1>4. OfferedTo(t)' = OfferedTo(t) /\ OfferedTo(t) = sent[t] - n
  <2>1. OfferedTo(t)' = (sent[t] + 1) - (n + 1) /\ OfferedTo(t) = sent[t] - n
    BY <1>1, <1>2, Zenon DEF OfferedTo
  <2>2. n \in Int /\ sent[t] \in Int
    BY <1>1
  <2> HIDE DEF n
  <2> QED
    BY <2>1, <2>2
<1>5. fan'[t] # <<>>
  <2>1. Len(<<>>) = 0
    BY Zenon
  <2> HIDE DEF n
  <2> QED
    BY <1>1, <1>2, <2>1
<1>6. Frame(t, k) = [turn |-> t, n |-> sent[t], kind |-> k]
  BY Zenon DEF Frame
<1> HIDE DEF n
<1>7. ASSUME NEW i \in 1 .. (n + 1)
      PROVE  /\ fan'[t][i].turn = t /\ fan'[t][i].kind # "interrupted"
             /\ fan'[t][i].n = (OfferedTo(t) + i) - 1
  <2>1. CASE i = n + 1
    <3>1. fan'[t][i] = [turn |-> t, n |-> sent[t], kind |-> k]
      BY <1>2, <1>6, <2>1, Zenon
    <3>2. sent[t] = (OfferedTo(t) + i) - 1
      <4>1. n \in Nat /\ sent[t] \in Nat
        BY <1>1, Zenon
      <4> QED
        BY <1>4, <2>1, <4>1
    <3> QED
      BY <3>1, <3>2
  <2>2. CASE i # n + 1
    <3>1. i \in 1 .. n
      BY <1>1, <2>2
    <3> QED
      BY <1>2, <1>3, <3>1, Zenon
  <2> QED
    BY <2>1, <2>2, Zenon
<1>8. fan'[t][n + 1].kind = k
  BY <1>2, <1>6
<1>9. n + 1 <= sent'[t] /\ sent'[t] # 0
  BY <1>1, <1>3
<1>10. FanFacts(t)'
  BY <1>2, <1>3, <1>4, <1>7, <1>9, Zenon DEF FanFacts
<1> QED
  BY <1>2, <1>4, <1>5, <1>8, <1>10, Zenon

LEMMA OfferedFacts ==
  ASSUME ChatTypeOK, NEW t \in ChatTurns, FanFacts(t), FanOut(t)
  PROVE  /\ FanFacts(t)' /\ OfferedTo(t)' = OfferedTo(t) + 1 /\ OfferedTo(t) \in Nat
         /\ Head(fan[t]).turn = t /\ Head(fan[t]).n = OfferedTo(t) /\ Head(fan[t]).kind # "interrupted"
         /\ IF fan'[t] = <<>> THEN Head(fan[t]) = fan[t][Len(fan[t])]
            ELSE fan'[t][Len(fan'[t])] = fan[t][Len(fan[t])]
<1> DEFINE n == Len(fan[t])
<1>1. /\ fan[t] \in Seq(Frames) /\ sent[t] \in Nat /\ n \in Nat \ {0}
      /\ fan'[t] = Tail(fan[t]) /\ sent' = sent /\ task' = task /\ owner' = owner /\ dropped' = dropped
  BY DEF ChatTypeOK, FanOut
<1>2. /\ Len(fan'[t]) = n - 1 /\ Head(fan[t]) = fan[t][1] /\ fan'[t] \in Seq(Frames)
      /\ \A i \in 1 .. (n - 1) : fan'[t][i] = fan[t][i + 1]
  BY <1>1
<1>3. /\ n <= sent[t]
      /\ \A i \in 1 .. n : /\ fan[t][i].turn = t /\ fan[t][i].kind # "interrupted"
                           /\ fan[t][i].n = (OfferedTo(t) + i) - 1
  BY Zenon DEF FanFacts
<1>4. OfferedTo(t)' = OfferedTo(t) + 1 /\ OfferedTo(t) \in Nat
  <2>1. OfferedTo(t)' = sent[t] - (n - 1) /\ OfferedTo(t) = sent[t] - n
    BY <1>1, <1>2, Zenon DEF OfferedTo
  <2> HIDE DEF n
  <2> QED
    BY <1>1, <1>3, <2>1
<1>5. fan'[t] = <<>> <=> n - 1 = 0
  <2>1. PICK q \in Seq(Frames) : q = fan'[t]
    BY <1>2, Zenon
  <2>2. q = <<>> <=> Len(q) = 0
    OBVIOUS
  <2> QED
    BY <1>2, <2>1, <2>2, Zenon
<1> HIDE DEF n
<1>6. 1 \in 1 .. n /\ (n - 1 # 0 => n - 1 \in 1 .. (n - 1)) /\ (n - 1) + 1 = n
  BY <1>1
<1>7. Head(fan[t]).turn = t /\ Head(fan[t]).n = OfferedTo(t) /\ Head(fan[t]).kind # "interrupted"
  <2>1. /\ fan[t][1].turn = t /\ fan[t][1].kind # "interrupted"
        /\ fan[t][1].n = (OfferedTo(t) + 1) - 1
    BY <1>3, <1>6, Zenon
  <2>2. (OfferedTo(t) + 1) - 1 = OfferedTo(t)
    BY <1>4
  <2> QED
    BY <1>2, <2>1, <2>2, Zenon
<1>8. ASSUME NEW i \in 1 .. (n - 1)
      PROVE  /\ fan'[t][i].turn = t /\ fan'[t][i].kind # "interrupted"
             /\ fan'[t][i].n = (OfferedTo(t)' + i) - 1
  <2>1. i + 1 \in 1 .. n /\ fan'[t][i] = fan[t][i + 1]
    BY <1>1, <1>2
  <2> QED
    BY <1>3, <1>4, <2>1
<1>9. n - 1 <= sent'[t]
  BY <1>1, <1>3
<1>10. FanFacts(t)'
  BY <1>1, <1>2, <1>8, <1>9, Zenon DEF FanFacts
<1>11. IF fan'[t] = <<>> THEN Head(fan[t]) = fan[t][n] ELSE fan'[t][n - 1] = fan[t][n]
  BY <1>2, <1>5, <1>6
<1> QED
  BY <1>2, <1>4, <1>7, <1>10, <1>11, Zenon DEF n

LEMMA ReachKept ==
  ASSUME NEW c \in Conns, NEW t \in ChatTurns, ReachFacts(c, t),
         <<c, t>> \notin left' => /\ <<c, t>> \notin left
                                  /\ c \in subscribed' => c \in subscribed
                                  /\ Reached(c, t)' = Reached(c, t)
                                  /\ OfferedTo(t)' = OfferedTo(t)
  PROVE  ReachFacts(c, t)'
<1> SUFFICES ASSUME <<c, t>> \notin left'
             PROVE  \E k \in 0 .. OfferedTo(t)' : /\ Reached(c, t)' = 0 .. (k - 1)
                                                  /\ c \in subscribed' => k = OfferedTo(t)'
  BY Zenon DEF ReachFacts
<1>1. PICK k \in 0 .. OfferedTo(t) : Reached(c, t) = 0 .. (k - 1) /\ (c \in subscribed => k = OfferedTo(t))
  BY Zenon DEF ReachFacts
<1> QED
  BY <1>1, Zenon

LEMMA EndKept ==
  ASSUME NEW t \in ChatTurns, EndFacts(t), fan'[t] = fan[t],
         t \notin dropped' => t \notin dropped,
         t \notin aborting' => t \notin aborting,
         task'[t] \in {"over", "unlisted", "finished"} /\ t \notin aborting' =>
           task[t] \in {"over", "unlisted", "finished"},
         \A c \in subscribed' : <<c, t>> \notin left' =>
           c \in subscribed /\ <<c, t>> \notin left /\ (Concluded(c, t) => Concluded(c, t)')
  PROVE  EndFacts(t)'
<1> SUFFICES ASSUME task'[t] \in {"over", "unlisted", "finished"}, t \notin aborting' \cup dropped'
             PROVE  IF fan'[t] # <<>> THEN fan'[t][Len(fan'[t])].kind \in Terminal
                    ELSE \A c \in subscribed' : <<c, t>> \notin left' => Concluded(c, t)'
  BY Zenon DEF EndFacts
<1>1. IF fan[t] # <<>> THEN fan[t][Len(fan[t])].kind \in Terminal
      ELSE \A c \in subscribed : <<c, t>> \notin left => Concluded(c, t)
  BY Zenon DEF EndFacts
<1> QED
  BY <1>1, Zenon

LEMMA AbortKept ==
  ASSUME NEW t \in ChatTurns, AbortFacts(t), owner'[t] = owner[t], t \in aborting' => t \in aborting,
         \A c \in subscribed' : <<c, t>> \notin left' =>
           c \in subscribed /\ <<c, t>> \notin left /\ (Concluded(c, t) => Concluded(c, t)')
  PROVE  AbortFacts(t)'
<1> SUFFICES ASSUME t \in aborting', owner[t] \in subscribed', <<owner[t], t>> \notin left'
             PROVE  Concluded(owner[t], t)'
  BY Zenon DEF AbortFacts
<1> DEFINE c == owner[t]
<1>1. c \in subscribed /\ <<c, t>> \notin left /\ (Concluded(c, t) => Concluded(c, t)') /\ t \in aborting
  BY Zenon
<1>2. Concluded(c, t)
  BY <1>1, Zenon DEF AbortFacts
<1> QED
  BY <1>1, <1>2, Zenon

LEMMA SameScreen ==
  ASSUME NEW c, NEW t, received'[c] = received[c], outgoing'[c] = outgoing[c]
  PROVE  Reached(c, t)' = Reached(c, t) /\ (Concluded(c, t)' <=> Concluded(c, t))
BY Zenon DEF Reached, Concluded

LEMMA MineKept ==
  ASSUME NEW c, NEW t, Mine(c, t)' = Mine(c, t)
  PROVE  Reached(c, t)' = Reached(c, t) /\ (Concluded(c, t)' <=> Concluded(c, t))
<1>1. {g \in received[c] \cup Range(outgoing[c]) : g.turn = t /\ g.kind # "interrupted"}
      = {g \in Mine(c, t) : g.kind # "interrupted"}
  BY Zenon DEF Mine
<1>2. {g \in received'[c] \cup Range(outgoing'[c]) : g.turn = t /\ g.kind # "interrupted"}
      = {g \in Mine(c, t)' : g.kind # "interrupted"}
  BY Zenon DEF Mine
<1>3. Reached(c, t)' = Reached(c, t)
  BY <1>1, <1>2, Zenon DEF Reached
<1>4. Concluded(c, t) <=> \E f \in Mine(c, t) : f.kind \in Terminal
  BY Zenon DEF Mine, Concluded
<1>5. Concluded(c, t)' <=> \E f \in Mine(c, t)' : f.kind \in Terminal
  BY Zenon DEF Mine, Concluded
<1> QED
  BY <1>3, <1>4, <1>5, Zenon

\* A step that touches one turn's task, its queue and its place in active_turns.
LEMMA TaskStep ==
  ASSUME ChatInv, NEW t \in ChatTurns,
         received' = received, outgoing' = outgoing, subscribed' = subscribed, left' = left,
         owner' = owner, aborting' = aborting, listing' = listing,
         \A c \in Conns : activeTurns'[c] \subseteq activeTurns[c],
         \A u \in ChatTurns \ {t} : /\ fan'[u] = fan[u] /\ sent'[u] = sent[u] /\ task'[u] = task[u]
                                    /\ u \in dropped' <=> u \in dropped,
         FanFacts(t)', OfferedTo(t)' = OfferedTo(t), EndFacts(t)', ChatTypeOK'
  PROVE  ChatInv'
<1>a. /\ \A u \in ChatTurns : FanFacts(u) /\ EndFacts(u) /\ AbortFacts(u)
      /\ \A c \in Conns : OwnFacts(c)
      /\ \A c \in Conns, u \in ChatTurns : ReachFacts(c, u)
  BY Zenon DEF ChatInv
<1>s. \A c, u : Reached(c, u)' = Reached(c, u) /\ (Concluded(c, u)' <=> Concluded(c, u))
  BY SameScreen, Zenon
<1>1. ASSUME NEW u \in ChatTurns  PROVE FanFacts(u)' /\ OfferedTo(u)' = OfferedTo(u)
  <2>1. CASE u = t
    BY <2>1, Zenon
  <2>2. CASE u # t
    BY <1>a, <2>2, FanKept, Zenon
  <2> QED
    BY <2>1, <2>2, Zenon
<1>2. ASSUME NEW u \in ChatTurns  PROVE EndFacts(u)'
  <2>1. CASE u = t
    BY <2>1, Zenon
  <2>2. CASE u # t
    BY <1>a, <1>s, <2>2, EndKept, Zenon
  <2> QED
    BY <2>1, <2>2, Zenon
<1>3. ASSUME NEW u \in ChatTurns  PROVE AbortFacts(u)'
  BY <1>a, <1>s, AbortKept, Zenon
<1>4. ASSUME NEW c \in Conns  PROVE OwnFacts(c)'
  BY <1>a, Zenon DEF OwnFacts
<1>5. ASSUME NEW c \in Conns, NEW u \in ChatTurns  PROVE ReachFacts(c, u)'
  BY <1>a, <1>s, <1>1, ReachKept, Zenon
<1> QED
  BY <1>1, <1>2, <1>3, <1>4, <1>5, Zenon DEF ChatInv

LEMMA TaskActions ==
  ASSUME ChatInv, ChatTypeOK', NEW t \in ChatTurns,
         TaskPublishes(t) \/ TaskFails(t) \/ TaskCompletes(t) \/ TaskUnlists(t) \/ TaskFinishes(t) \/ TaskStops(t)
  PROVE  ChatInv'
<1>a. ChatTypeOK /\ FanFacts(t) /\ EndFacts(t) /\ t \in DOMAIN task
  BY Zenon DEF ChatInv, ChatTypeOK
<1>d. /\ fan \in [ChatTurns -> Seq(Frames)] /\ sent \in [ChatTurns -> Nat] /\ task \in [ChatTurns -> TaskStates]
      /\ owner \in [ChatTurns -> Conns \cup {NoTurn}] /\ activeTurns \in [Conns -> SUBSET ChatTurns]
  BY <1>a, Zenon DEF ChatTypeOK
<1>s. ASSUME received' = received, outgoing' = outgoing
      PROVE  \A c, u : Concluded(c, u)' <=> Concluded(c, u)
  BY <1>s, SameScreen, Zenon
<1>p. ASSUME NEW k \in {"item", "completed", "failed"}, Publish(t, k), UNCHANGED taskRest,
             \A u \in ChatTurns \ {t} : task'[u] = task[u],
             task[t] # "none", task'[t] \notin {"none", "failing"},
             k = "item" => task'[t] = "running"
      PROVE  ChatInv'
  <2>1. owner' = owner
    BY <1>p, Zenon DEF taskRest
  <2>2. /\ FanFacts(t)' /\ OfferedTo(t)' = OfferedTo(t)
        /\ fan'[t] # <<>> /\ fan'[t][Len(fan'[t])].kind = k
    BY <1>a, <1>p, <2>1, PublishedFacts, Zenon
  <2>3. EndFacts(t)'
    BY <1>p, <2>2, Zenon DEF EndFacts, Terminal
  <2>4. /\ \A u \in ChatTurns \ {t} : /\ fan'[u] = fan[u] /\ sent'[u] = sent[u] /\ task'[u] = task[u]
                                      /\ u \in dropped' <=> u \in dropped
        /\ \A c \in Conns : activeTurns'[c] \subseteq activeTurns[c]
    BY <1>d, <1>p, Zenon DEF Publish, taskRest
  <2> QED
    BY <1>p, <2>2, <2>3, <2>4, TaskStep, Zenon DEF taskRest
<1>l. ASSUME Lose(t), UNCHANGED taskRest, task[t] # "none", task'[t] # "none",
             \A u \in ChatTurns \ {t} : task'[u] = task[u]
      PROVE  ChatInv'
  <2>1. t \in dropped' /\ fan'[t] = fan[t] /\ sent'[t] = sent[t] /\ owner'[t] = owner[t]
    BY <1>l, Zenon DEF Lose, taskRest
  <2>2. FanFacts(t)' /\ OfferedTo(t)' = OfferedTo(t)
    BY <1>a, <1>l, <2>1, FanSame, Zenon
  <2>3. EndFacts(t)'
    BY <2>1, Zenon DEF EndFacts
  <2>4. /\ \A u \in ChatTurns \ {t} : /\ fan'[u] = fan[u] /\ sent'[u] = sent[u] /\ task'[u] = task[u]
                                      /\ u \in dropped' <=> u \in dropped
        /\ \A c \in Conns : activeTurns'[c] \subseteq activeTurns[c]
    BY <1>d, <1>l, Zenon DEF Lose, taskRest
  <2> QED
    BY <1>l, <2>2, <2>3, <2>4, TaskStep, Zenon DEF taskRest
<1>m. ASSUME UNCHANGED <<received, outgoing, subscribed, left, owner, aborting, listing, fan, sent, dropped>>,
             \A c \in Conns : activeTurns'[c] \subseteq activeTurns[c],
             \A u \in ChatTurns \ {t} : task'[u] = task[u],
             task[t] # "none", task'[t] \notin {"none", "failing"},
             t \in aborting \/ task[t] \in {"over", "unlisted", "finished"}
      PROVE  ChatInv'
  <2>1. FanFacts(t)' /\ OfferedTo(t)' = OfferedTo(t)
    BY <1>a, <1>m, FanSame, Zenon
  <2>2. \A c, u : Concluded(c, u)' <=> Concluded(c, u)
    BY <1>m, <1>s, Zenon
  <2>3. EndFacts(t)'
    BY <1>a, <1>m, <2>2, EndKept, Zenon
  <2>4. /\ \A u \in ChatTurns \ {t} : /\ fan'[u] = fan[u] /\ sent'[u] = sent[u] /\ task'[u] = task[u]
                                      /\ u \in dropped' <=> u \in dropped
    BY <1>m, Zenon
  <2> QED
    BY <1>m, <2>1, <2>3, <2>4, TaskStep, Zenon
<1>1. CASE TaskPublishes(t)
  <2>1. CASE Room(t)
    <3>1. Publish(t, "item") /\ UNCHANGED task /\ UNCHANGED taskRest /\ task[t] = "running"
      BY <1>1, <2>1, Zenon DEF TaskPublishes
    <3> QED
      BY <1>p, <3>1, Zenon
  <2>2. CASE ~Room(t)
    <3>1. Lose(t) /\ task' = [task EXCEPT ![t] = "failing"] /\ UNCHANGED taskRest /\ task[t] = "running"
      BY <1>1, <2>2, Zenon DEF TaskPublishes
    <3> QED
      BY <1>d, <1>l, <3>1, Zenon
  <2> QED
    BY <2>1, <2>2, Zenon
<1>2. CASE TaskFails(t)
  <2>0. task' = [task EXCEPT ![t] = "over"] /\ UNCHANGED taskRest /\ task[t] \in {"running", "failing"}
    BY <1>2, Zenon DEF TaskFails
  <2>1. CASE Room(t)
    <3>1. Publish(t, "failed")
      BY <1>2, <2>1, Zenon DEF TaskFails
    <3> QED
      BY <1>d, <1>p, <2>0, <3>1, Zenon
  <2>2. CASE ~Room(t)
    <3>1. Lose(t)
      BY <1>2, <2>2, Zenon DEF TaskFails
    <3> QED
      BY <1>d, <1>l, <2>0, <3>1, Zenon
  <2> QED
    BY <2>1, <2>2, Zenon
<1>3. CASE TaskCompletes(t)
  <2>0. UNCHANGED taskRest /\ task[t] = "running"
    BY <1>3, Zenon DEF TaskCompletes
  <2>1. CASE Room(t)
    <3>1. Publish(t, "completed") /\ task' = [task EXCEPT ![t] = "over"]
      BY <1>3, <2>1, Zenon DEF TaskCompletes
    <3> QED
      BY <1>d, <1>p, <2>0, <3>1, Zenon
  <2>2. CASE ~Room(t)
    <3>1. Lose(t) /\ task' = [task EXCEPT ![t] = "failing"]
      BY <1>3, <2>2, Zenon DEF TaskCompletes
    <3> QED
      BY <1>d, <1>l, <2>0, <3>1, Zenon
  <2> QED
    BY <2>1, <2>2, Zenon
<1>4. CASE TaskUnlists(t)
  <2>1. /\ UNCHANGED <<received, outgoing, subscribed, left, owner, aborting, listing, fan, sent, dropped>>
        /\ task' = [task EXCEPT ![t] = "unlisted"] /\ task[t] = "over"
        /\ activeTurns' = [activeTurns EXCEPT ![owner[t]] = @ \ {t}]
    BY <1>4, Zenon DEF TaskUnlists
  <2> QED
    BY <1>d, <1>m, <2>1, Zenon
<1>5. CASE TaskFinishes(t)
  <2>1. /\ UNCHANGED <<received, outgoing, subscribed, left, owner, aborting, listing, fan, sent, dropped>>
        /\ task' = [task EXCEPT ![t] = "finished"] /\ task[t] = "unlisted" /\ activeTurns' = activeTurns
    BY <1>5, Zenon DEF TaskFinishes, taskRest
  <2> QED
    BY <1>d, <1>m, <2>1, Zenon
<1>6. CASE TaskStops(t)
  <2>1. /\ UNCHANGED <<received, outgoing, subscribed, left, owner, aborting, listing, fan, sent, dropped>>
        /\ task' = [task EXCEPT ![t] = "finished"] /\ t \in aborting /\ activeTurns' = activeTurns
    BY <1>6, Zenon DEF TaskStops, taskRest
  <2>2. task[t] # "none"
    BY <1>a, <2>1, Zenon DEF ChatTypeOK
  <2> QED
    BY <1>d, <1>m, <2>1, <2>2, Zenon
<1> QED
  BY <1>1, <1>2, <1>3, <1>4, <1>5, <1>6, Zenon

\* A turn of which nothing was published.
LEMMA NotBegun ==
  ASSUME ChatInv, NEW t \in ChatTurns, t \notin Begun
  PROVE  /\ sent[t] = 0 /\ Len(fan[t]) = 0 /\ OfferedTo(t) = 0 /\ task[t] = "none" /\ owner[t] = NoTurn
         /\ t \notin aborting
         /\ \A c \in Conns : <<c, t>> \notin left => Reached(c, t) = {}
<1>a. ChatTypeOK /\ FanFacts(t) /\ (\A c \in Conns : ReachFacts(c, t))
  BY Zenon DEF ChatInv
<1>1. sent[t] \in Nat /\ Len(fan[t]) \in Nat
  BY <1>a DEF ChatTypeOK
<1>2. sent[t] = 0
  BY <1>1 DEF Begun
<1>3. Len(fan[t]) <= sent[t]
  BY <1>a, Zenon DEF FanFacts
<1>4. Len(fan[t]) = 0
  BY <1>1, <1>2, <1>3
<1>5. OfferedTo(t) = 0
  BY <1>2, <1>4 DEF OfferedTo
<1>6. task[t] = "none" /\ owner[t] = NoTurn
  BY <1>a, <1>2, Zenon DEF FanFacts
<1>7. t \notin aborting
  BY <1>a, <1>6, Zenon DEF ChatTypeOK
<1>8. ASSUME NEW c \in Conns, <<c, t>> \notin left  PROVE Reached(c, t) = {}
  <2>1. PICK k \in 0 .. OfferedTo(t) : Reached(c, t) = 0 .. (k - 1)
    BY <1>a, <1>8, Zenon DEF ReachFacts
  <2> QED
    BY <1>5, <2>1
<1> QED
  BY <1>2, <1>4, <1>5, <1>6, <1>7, <1>8, Zenon

\* A step with which connection c begins or ends to hear the session.
LEMMA ComesOrGoes ==
  ASSUME ChatInv, ChatTypeOK', NEW c \in Conns,
         UNCHANGED <<fan, sent, task, owner, dropped, listing>>,
         \A d \in Conns : activeTurns'[d] \subseteq activeTurns[d],
         left \subseteq left', aborting \subseteq aborting',
         \A t \in ChatTurns : t \in aborting' => t \in aborting \/ (owner[t] = c /\ c \notin subscribed'),
         \A d \in Conns \ {c} : /\ received'[d] = received[d] /\ outgoing'[d] = outgoing[d]
                                /\ d \in subscribed' => d \in subscribed,
         received'[c] = {}, outgoing'[c] \in {outgoing[c], <<>>},
         \/ \A t \in Begun : <<c, t>> \in left'
         \/ c \notin subscribed' /\ outgoing'[c] = <<>>
  PROVE  ChatInv'
<1>a. /\ \A t \in ChatTurns : FanFacts(t) /\ EndFacts(t) /\ AbortFacts(t)
      /\ \A d \in Conns : OwnFacts(d)
      /\ \A d \in Conns, t \in ChatTurns : ReachFacts(d, t)
  BY Zenon DEF ChatInv
<1>b. subscribed' \subseteq Conns
  BY Zenon DEF ChatTypeOK
<1>c. \A t : Reached(c, t)' \subseteq Reached(c, t)
  <2>1. Range(outgoing'[c]) \subseteq Range(outgoing[c])
    BY DEF Range
  <2> QED
    BY <2>1, Zenon DEF Reached
<1>1. ASSUME NEW t \in ChatTurns  PROVE FanFacts(t)' /\ OfferedTo(t)' = OfferedTo(t)
  BY <1>a, FanKept, Zenon
<1>2. ASSUME NEW t \in ChatTurns, NEW d \in subscribed', t \in Begun, <<d, t>> \notin left'
      PROVE  d \in subscribed /\ <<d, t>> \notin left /\ (Concluded(d, t) => Concluded(d, t)')
  <2>1. d # c /\ d \in Conns
    BY <1>2, <1>b, Zenon
  <2> QED
    BY <1>2, <2>1, SameScreen, Zenon
<1>3. ASSUME NEW t \in ChatTurns  PROVE EndFacts(t)'
  <2>1. CASE t \in Begun
    BY <1>a, <1>2, <2>1, EndKept, Zenon
  <2>2. CASE t \notin Begun
    BY <2>2, NotBegun, Zenon DEF EndFacts
  <2> QED
    BY <2>1, <2>2, Zenon
<1>4. ASSUME NEW t \in ChatTurns  PROVE AbortFacts(t)'
  <2>1. CASE t \in Begun /\ t \in aborting
    BY <1>a, <1>2, <2>1, AbortKept, Zenon
  <2>2. CASE t \notin Begun
    <3>1. t \notin aborting'
      BY <2>2, NotBegun, ChatAssumption
    <3> QED
      BY <3>1, Zenon DEF AbortFacts
  <2>3. CASE t \in Begun /\ t \notin aborting
    BY <2>3, Zenon DEF AbortFacts
  <2> QED
    BY <2>1, <2>2, <2>3, Zenon
<1>5. ASSUME NEW d \in Conns  PROVE OwnFacts(d)'
  BY <1>a, Zenon DEF OwnFacts
<1>6. ASSUME NEW d \in Conns, NEW t \in ChatTurns  PROVE ReachFacts(d, t)'
  <2>1. CASE d # c
    <3>1. Reached(d, t)' = Reached(d, t)
      BY <2>1, SameScreen
    <3> QED
      BY <1>a, <1>1, <2>1, <3>1, ReachKept, Zenon
  <2>2. CASE d = c /\ t \in Begun /\ <<c, t>> \in left'
    BY <2>2, Zenon DEF ReachFacts
  <2>3. CASE d = c /\ t \in Begun /\ <<c, t>> \notin left'
    <3>1. c \notin subscribed' /\ outgoing'[c] = <<>>
      BY <2>3, Zenon
    <3>2. Reached(c, t)' = {}
      BY <3>1 DEF Reached, Range
    <3>3. 0 \in 0 .. OfferedTo(t)' /\ 0 .. (0 - 1) = {}
      <4>1. sent[t] \in Nat /\ Len(fan[t]) \in Nat /\ Len(fan[t]) <= sent[t]
        <5>1. ChatTypeOK /\ FanFacts(t)
          BY Zenon DEF ChatInv
        <5>2. sent[t] \in Nat /\ fan[t] \in Seq(Frames)
          BY <5>1, Zenon DEF ChatTypeOK
        <5>3. Len(fan[t]) <= sent[t]
          BY <5>1, Zenon DEF FanFacts
        <5> QED
          BY <5>2, <5>3
      <4>2. OfferedTo(t)' = sent[t] - Len(fan[t])
        BY <1>1, Zenon DEF OfferedTo
      <4> DEFINE n == Len(fan[t])
      <4> HIDE DEF n
      <4>3. sent[t] \in Nat /\ n \in Nat /\ n <= sent[t] /\ OfferedTo(t)' = sent[t] - n
        BY <4>1, <4>2, Zenon DEF n
      <4> QED
        BY <4>3
    <3> QED
      BY <2>3, <3>1, <3>2, <3>3, Zenon DEF ReachFacts
  <2>4. CASE d = c /\ t \notin Begun
    <3> SUFFICES ASSUME <<c, t>> \notin left'  PROVE ReachFacts(c, t)'
      BY <2>4, Zenon DEF ReachFacts
    <3>1. Reached(c, t)' = {} /\ OfferedTo(t)' = 0
      BY <1>1, <1>c, <2>4, NotBegun, Zenon
    <3>2. 0 \in 0 .. 0 /\ 0 .. (0 - 1) = {}
      OBVIOUS
    <3> QED
      BY <3>1, <3>2, Zenon DEF ReachFacts
  <2> QED
    BY <2>1, <2>2, <2>3, <2>4, Zenon
<1> QED
  BY <1>1, <1>3, <1>4, <1>5, <1>6, Zenon DEF ChatInv

LEMMA SessionActions ==
  ASSUME ChatInv, ChatTypeOK', NEW c \in Conns, Subscribe(c) \/ Unsubscribe(c) \/ Close(c)
  PROVE  ChatInv'
<1>a. /\ ChatTypeOK /\ (\A t \in activeTurns[c] : owner[t] = c)
      /\ received \in [Conns -> SUBSET Frames] /\ outgoing \in [Conns -> Seq(Frames)]
      /\ activeTurns \in [Conns -> SUBSET ChatTurns] /\ Begun \subseteq ChatTurns
  BY Zenon DEF ChatInv, OwnFacts, ChatTypeOK, Begun
<1>1. CASE Subscribe(c)
  <2>1. /\ UNCHANGED <<fan, sent, task, owner, dropped, listing, activeTurns, aborting, outgoing>>
        /\ left' = left \cup ({c} \X Begun) /\ subscribed' = subscribed \cup ({c} \cap registered)
        /\ received' = [received EXCEPT ![c] = {}]
    BY <1>1, Zenon DEF Subscribe
  <2>2. \A t \in Begun : <<c, t>> \in left'
    BY <2>1, Zenon
  <2>3. /\ received'[c] = {}
        /\ \A d \in Conns \ {c} : /\ received'[d] = received[d] /\ outgoing'[d] = outgoing[d]
                                  /\ d \in subscribed' => d \in subscribed
    BY <1>a, <2>1, Zenon
  <2> QED
    BY <2>1, <2>2, <2>3, ComesOrGoes, Zenon
<1>2. CASE Unsubscribe(c)
  <2>1. /\ UNCHANGED <<fan, sent, task, owner, dropped, listing, activeTurns, aborting, outgoing>>
        /\ left' = left \cup ({c} \X Begun) /\ subscribed' = subscribed \ {c}
        /\ received' = [received EXCEPT ![c] = {}]
    BY <1>2, Zenon DEF Unsubscribe
  <2>2. \A t \in Begun : <<c, t>> \in left'
    BY <2>1, Zenon
  <2>3. /\ received'[c] = {}
        /\ \A d \in Conns \ {c} : /\ received'[d] = received[d] /\ outgoing'[d] = outgoing[d]
                                  /\ d \in subscribed' => d \in subscribed
    BY <1>a, <2>1, Zenon
  <2> QED
    BY <2>1, <2>2, <2>3, ComesOrGoes, Zenon
<1>3. CASE Close(c)
  <2>1. /\ UNCHANGED <<fan, sent, task, owner, dropped, listing, left>>
        /\ subscribed' = subscribed \ {c} /\ aborting' = aborting \cup activeTurns[c]
        /\ activeTurns' = [activeTurns EXCEPT ![c] = {}]
        /\ outgoing' = [outgoing EXCEPT ![c] = <<>>]
        /\ received' = [received EXCEPT ![c] = {}]
    BY <1>3, Zenon DEF Close
  <2>2. c \notin subscribed' /\ outgoing'[c] = <<>> /\ received'[c] = {}
    BY <1>a, <2>1, Zenon
  <2>3. /\ \A d \in Conns \ {c} : /\ received'[d] = received[d] /\ outgoing'[d] = outgoing[d]
                                  /\ d \in subscribed' => d \in subscribed
        /\ \A d \in Conns : activeTurns'[d] \subseteq activeTurns[d]
    BY <1>a, <2>1, Zenon
  <2>4. \A t \in ChatTurns : t \in aborting' => t \in aborting \/ (owner[t] = c /\ c \notin subscribed')
    BY <1>a, <2>1, <2>2, Zenon
  <2> QED
    BY <2>1, <2>2, <2>3, <2>4, ComesOrGoes, Zenon
<1> QED
  BY <1>1, <1>2, <1>3, Zenon

LEMMA StartAction ==
  ASSUME ChatInv, ChatTypeOK', NEW c \in Conns, NEW t \in ChatTurns, TurnStart(c, t)
  PROVE  ChatInv'
<1>a. /\ \A u \in ChatTurns : FanFacts(u) /\ EndFacts(u) /\ AbortFacts(u)
      /\ \A d \in Conns : OwnFacts(d)
      /\ \A d \in Conns, u \in ChatTurns : ReachFacts(d, u)
  BY Zenon DEF ChatInv
<1>d. /\ fan \in [ChatTurns -> Seq(Frames)] /\ sent \in [ChatTurns -> Nat] /\ task \in [ChatTurns -> TaskStates]
      /\ owner \in [ChatTurns -> Conns \cup {NoTurn}] /\ listing \in [Conns -> ChatTurns \cup {NoTurn}]
      /\ activeTurns \in [Conns -> SUBSET ChatTurns] /\ subscribed' \subseteq Conns
      /\ aborting \subseteq {u \in ChatTurns : task[u] # "none"}
  BY Zenon DEF ChatInv, ChatTypeOK
<1>e. /\ owner[t] = NoTurn
      /\ subscribed' = subscribed \cup ({c} \cap registered)
      /\ left' = (IF c \in subscribed THEN left ELSE left \cup ({c} \X Begun))
      /\ owner' = [owner EXCEPT ![t] = c]
      /\ fan' = [fan EXCEPT ![t] = <<Frame(t, "started")>>]
      /\ sent' = [sent EXCEPT ![t] = 1]
      /\ task' = [task EXCEPT ![t] = "running"]
      /\ listing' = [listing EXCEPT ![c] = t]
      /\ outgoing' = outgoing /\ activeTurns' = activeTurns /\ aborting' = aborting
      /\ received' = received /\ dropped' = dropped
  BY Zenon DEF TurnStart
<1>f. t \notin Begun /\ sent[t] = 0
  BY <1>a, <1>d, <1>e DEF FanFacts, Begun
<1>g. OfferedTo(t) = 0 /\ t \notin aborting /\ \A d \in Conns : <<d, t>> \notin left => Reached(d, t) = {}
  BY <1>f, NotBegun, Zenon
<1>s. \A d, u : Reached(d, u)' = Reached(d, u) /\ (Concluded(d, u)' <=> Concluded(d, u))
  BY <1>e, SameScreen, Zenon
<1>c. c # NoTurn
  BY ChatAssumption, Zenon
<1>1. /\ fan'[t] = <<Frame(t, "started")>> /\ sent'[t] = 1 /\ task'[t] = "running" /\ owner'[t] = c
      /\ Len(fan'[t]) = 1 /\ fan'[t][1] = [turn |-> t, n |-> 0, kind |-> "started"]
  BY <1>d, <1>e, <1>f, Zenon DEF Frame
<1>2. OfferedTo(t)' = 0
  BY <1>1 DEF OfferedTo
<1>3. FanFacts(t)'
  <2>1. \A i \in 1 .. 1 : i = 1
    OBVIOUS
  <2>2. \A i \in 1 .. Len(fan'[t]) :
          /\ fan'[t][i].turn = t /\ fan'[t][i].kind # "interrupted"
          /\ fan'[t][i].n = (OfferedTo(t)' + i) - 1
    <3>1. fan'[t][1].turn = t /\ fan'[t][1].kind = "started" /\ fan'[t][1].n = (0 + 1) - 1
      BY <1>1
    <3> QED
      BY <1>1, <1>2, <2>1, <3>1, Zenon
  <2> QED
    BY <1>1, <1>c, <2>2 DEF FanFacts
<1>4. ASSUME NEW u \in ChatTurns, u # t
      PROVE  fan'[u] = fan[u] /\ sent'[u] = sent[u] /\ task'[u] = task[u] /\ owner'[u] = owner[u]
  BY <1>d, <1>e, <1>4, Zenon
<1>5. ASSUME NEW u \in ChatTurns, u # t  PROVE FanFacts(u)' /\ OfferedTo(u)' = OfferedTo(u)
  BY <1>a, <1>e, <1>4, <1>5, FanKept, Zenon
<1>6. ASSUME NEW d \in Conns, NEW u \in Begun, <<d, u>> \notin left', d \in subscribed'
      PROVE  d \in subscribed
  BY <1>e, <1>6, Zenon
<1>7. left \subseteq left'
  BY <1>e, Zenon
<1>8. ASSUME NEW u \in ChatTurns  PROVE EndFacts(u)' /\ AbortFacts(u)'
  <2>1. CASE u = t
    BY <1>1, <1>e, <1>g, <2>1, Zenon DEF EndFacts, AbortFacts
  <2>2. CASE u # t /\ u \in Begun
    <3>1. \A d \in subscribed' : <<d, u>> \notin left' =>
            d \in subscribed /\ <<d, u>> \notin left /\ (Concluded(d, u) => Concluded(d, u)')
      BY <1>d, <1>s, <1>6, <1>7, <2>2, Zenon
    <3>2. EndFacts(u)'
      BY <1>a, <1>e, <1>4, <2>2, <3>1, EndKept, Zenon
    <3>3. AbortFacts(u)'
      BY <1>a, <1>e, <1>4, <2>2, <3>1, AbortKept, Zenon
    <3> QED
      BY <3>2, <3>3, Zenon
  <2>3. CASE u # t /\ u \notin Begun
    <3>1. task'[u] = "none" /\ u \notin aborting'
      BY <1>e, <1>4, <2>3, NotBegun, Zenon
    <3> QED
      BY <3>1, Zenon DEF EndFacts, AbortFacts
  <2> QED
    BY <2>1, <2>2, <2>3, Zenon
<1>9. ASSUME NEW d \in Conns  PROVE OwnFacts(d)'
  <2>1. \A u \in activeTurns[d] : owner[u] = d /\ u # t /\ u \in ChatTurns
    BY <1>a, <1>d, <1>e, ChatAssumption DEF OwnFacts
  <2>2. listing'[d] # NoTurn => owner'[listing'[d]] = d
    <3>1. CASE d = c
      BY <1>1, <1>d, <1>e, <3>1, Zenon
    <3>2. CASE d # c
      <4>1. listing'[d] = listing[d] /\ (listing[d] # NoTurn => owner[listing[d]] = d /\ listing[d] \in ChatTurns)
        BY <1>a, <1>d, <1>e, <3>2 DEF OwnFacts
      <4> QED
        BY <1>4, <1>e, <4>1, ChatAssumption
    <3> QED
      BY <3>1, <3>2, Zenon
  <2> QED
    BY <1>4, <1>e, <2>1, <2>2, Zenon DEF OwnFacts
<1>10. ASSUME NEW d \in Conns, NEW u \in ChatTurns  PROVE ReachFacts(d, u)'
  <2>1. CASE u \in Begun
    BY <1>a, <1>f, <1>s, <1>5, <1>6, <1>7, <2>1, ReachKept, Zenon
  <2>2. CASE u \notin Begun
    <3> SUFFICES ASSUME <<d, u>> \notin left'  PROVE ReachFacts(d, u)'
      BY Zenon DEF ReachFacts
    <3>1. OfferedTo(u)' = 0
      BY <1>2, <1>5, <2>2, NotBegun
    <3>2. Reached(d, u)' = {}
      BY <1>7, <1>s, <2>2, NotBegun, Zenon
    <3>3. 0 \in 0 .. 0 /\ 0 .. (0 - 1) = {}
      OBVIOUS
    <3> QED
      BY <3>1, <3>2, <3>3, Zenon DEF ReachFacts
  <2> QED
    BY <2>1, <2>2, Zenon
<1> QED
  BY <1>3, <1>5, <1>8, <1>9, <1>10, Zenon DEF ChatInv

LEMMA ListAction ==
  ASSUME ChatInv, ChatTypeOK', NEW c \in Conns, TurnListed(c)
  PROVE  ChatInv'
<1>a. /\ \A u \in ChatTurns : FanFacts(u) /\ EndFacts(u) /\ AbortFacts(u)
      /\ \A d \in Conns : OwnFacts(d)
      /\ \A d \in Conns, u \in ChatTurns : ReachFacts(d, u)
      /\ listing \in [Conns -> ChatTurns \cup {NoTurn}] /\ activeTurns \in [Conns -> SUBSET ChatTurns]
  BY Zenon DEF ChatInv, ChatTypeOK
<1>e. /\ listing[c] # NoTurn
      /\ activeTurns' = [activeTurns EXCEPT ![c] = IF task[listing[c]] = "finished" THEN @ \ {listing[c]}
                                                   ELSE @ \cup {listing[c]}]
      /\ listing' = [listing EXCEPT ![c] = NoTurn]
      /\ UNCHANGED <<subscribed, outgoing, owner, task, aborting, fan, sent, received, dropped, left>>
  BY Zenon DEF TurnListed
<1>1. ASSUME NEW u \in ChatTurns  PROVE FanFacts(u)'
  BY <1>a, <1>e, FanKept, Zenon
<1>2. ASSUME NEW u \in ChatTurns  PROVE EndFacts(u)' /\ AbortFacts(u)'
  BY <1>a, <1>e, Zenon DEF EndFacts, AbortFacts, Concluded
<1>3. ASSUME NEW d \in Conns, NEW u \in ChatTurns  PROVE ReachFacts(d, u)'
  BY <1>a, <1>e, Zenon DEF ReachFacts, Reached, OfferedTo
<1>4. ASSUME NEW d \in Conns  PROVE OwnFacts(d)'
  BY <1>a, <1>e, Zenon DEF OwnFacts
<1> QED
  BY <1>1, <1>2, <1>3, <1>4, Zenon DEF ChatInv

LEMMA CancelAction ==
  ASSUME ChatInv, ChatTypeOK', NEW c \in Conns, NEW t \in ChatTurns, TurnCancel(c, t)
  PROVE  ChatInv'
<1> DEFINE stop == [turn |-> t, n |-> 0, kind |-> "interrupted"]
<1>a. /\ \A u \in ChatTurns : FanFacts(u) /\ EndFacts(u) /\ AbortFacts(u)
      /\ \A d \in Conns : OwnFacts(d)
      /\ \A d \in Conns, u \in ChatTurns : ReachFacts(d, u)
      /\ received \in [Conns -> SUBSET Frames] /\ activeTurns \in [Conns -> SUBSET ChatTurns]
      /\ subscribed \subseteq Conns
  BY Zenon DEF ChatInv, ChatTypeOK
<1>e. /\ t \in activeTurns[c]
      /\ activeTurns' = [activeTurns EXCEPT ![c] = @ \ {t}]
      /\ aborting' = aborting \cup {t}
      /\ received' = [received EXCEPT ![c] = @ \cup {[turn |-> t, n |-> 0, kind |-> "interrupted"] : u \in {t} \ {v \in ChatTurns : <<c, v>> \in left}}]
      /\ UNCHANGED <<subscribed, outgoing, listing, owner, task, fan, sent, dropped, left>>
  BY Zenon DEF TurnCancel
<1>o. owner[t] = c
  BY <1>a, <1>e, Zenon DEF OwnFacts
<1>1. ASSUME NEW d \in Conns
      PROVE  /\ received[d] \subseteq received'[d] /\ received'[d] \subseteq received[d] \cup {stop}
             /\ d = c /\ <<c, t>> \notin left => stop \in received'[d]
  BY <1>a, <1>e, Zenon
<1>2. stop.turn = t /\ stop.kind = "interrupted" /\ stop.kind \in Terminal
  BY Zenon DEF Terminal
<1> HIDE DEF stop
<1>3. ASSUME NEW d \in Conns, NEW u \in ChatTurns
      PROVE  Reached(d, u)' = Reached(d, u) /\ (Concluded(d, u) => Concluded(d, u)')
  <2>1. {g \in received'[d] \cup Range(outgoing'[d]) : g.turn = u /\ g.kind # "interrupted"}
        = {g \in received[d] \cup Range(outgoing[d]) : g.turn = u /\ g.kind # "interrupted"}
    BY <1>1, <1>2, <1>e, Zenon
  <2>2. Concluded(d, u) => Concluded(d, u)'
    BY <1>1, <1>e, Zenon DEF Concluded
  <2> QED
    BY <2>1, <2>2, Zenon DEF Reached
<1>4. ASSUME NEW u \in ChatTurns  PROVE FanFacts(u)' /\ OfferedTo(u)' = OfferedTo(u)
  BY <1>a, <1>e, FanKept, Zenon
<1>5. ASSUME NEW u \in ChatTurns, NEW d \in subscribed', <<d, u>> \notin left'
      PROVE  d \in subscribed /\ <<d, u>> \notin left /\ (Concluded(d, u) => Concluded(d, u)')
  BY <1>a, <1>e, <1>3, <1>5, Zenon
<1>6. ASSUME NEW u \in ChatTurns  PROVE EndFacts(u)'
  BY <1>a, <1>e, <1>5, EndKept, Zenon
<1>7. ASSUME NEW u \in ChatTurns  PROVE AbortFacts(u)'
  <2>1. CASE u = t
    <3>1. <<c, t>> \notin left => Concluded(c, t)'
      BY <1>1, <1>2, Zenon DEF Concluded
    <3> QED
      BY <1>e, <1>o, <2>1, <3>1, Zenon DEF AbortFacts
  <2>2. CASE u # t
    BY <1>a, <1>e, <1>5, <2>2, AbortKept, Zenon
  <2> QED
    BY <2>1, <2>2, Zenon
<1>8. ASSUME NEW d \in Conns  PROVE OwnFacts(d)'
  BY <1>a, <1>e, Zenon DEF OwnFacts
<1>9. ASSUME NEW d \in Conns, NEW u \in ChatTurns  PROVE ReachFacts(d, u)'
  BY <1>a, <1>e, <1>3, <1>4, ReachKept, Zenon
<1> QED
  BY <1>4, <1>6, <1>7, <1>8, <1>9, Zenon DEF ChatInv

LEMMA WriteAction ==
  ASSUME ChatInv, ChatTypeOK', NEW c \in Conns, WriteFrame(c)
  PROVE  ChatInv'
<1> DEFINE f == Head(outgoing[c])
<1>a. /\ \A u \in ChatTurns : FanFacts(u) /\ EndFacts(u) /\ AbortFacts(u)
      /\ \A d \in Conns : OwnFacts(d)
      /\ \A d \in Conns, u \in ChatTurns : ReachFacts(d, u)
      /\ received \in [Conns -> SUBSET Frames] /\ outgoing \in [Conns -> Seq(Frames)]
      /\ subscribed \subseteq Conns
  BY Zenon DEF ChatInv, ChatTypeOK
<1>e. /\ outgoing[c] # <<>>
      /\ outgoing' = [outgoing EXCEPT ![c] = Tail(@)]
      /\ received' = [received EXCEPT ![c] = @ \cup {g \in {f} : g.turn # Pushed /\ <<c, g.turn>> \notin left}]
      /\ UNCHANGED <<subscribed, listing, activeTurns, owner, task, aborting, fan, sent, dropped, left>>
  BY Zenon DEF WriteFrame
<1>r. Range(outgoing[c]) = {f} \cup Range(Tail(outgoing[c]))
  BY <1>a, <1>e, RangeTail, Zenon
<1>1. /\ outgoing'[c] = Tail(outgoing[c])
      /\ received'[c] = received[c] \cup {g \in {f} : g.turn # Pushed /\ <<c, g.turn>> \notin left}
      /\ \A d \in Conns \ {c} : received'[d] = received[d] /\ outgoing'[d] = outgoing[d]
  BY <1>a, <1>e, Zenon
<1> HIDE DEF f
<1>2. ASSUME NEW d \in Conns, NEW u \in ChatTurns, <<d, u>> \notin left
      PROVE  Reached(d, u)' = Reached(d, u) /\ (Concluded(d, u)' <=> Concluded(d, u))
  <2>1. CASE d # c
    BY <1>1, <2>1, SameScreen, Zenon
  <2>2. CASE d = c
    <3>1. u # Pushed
      BY ChatAssumption, Zenon DEF Pushed
    <3>2. Mine(c, u)' = Mine(c, u)
      <4>1. Mine(c, u)' = {g \in received'[c] \cup Range(Tail(outgoing[c])) : g.turn = u}
        BY <1>1, Zenon DEF Mine
      <4>2. Mine(c, u) = {g \in received[c] \cup {f} \cup Range(Tail(outgoing[c])) : g.turn = u}
        BY <1>r, Zenon DEF Mine
      <4>3. f.turn = u => received'[c] = received[c] \cup {f}
        BY <1>1, <1>2, <2>2, <3>1, Zenon
      <4>4. f.turn # u => {g \in received'[c] : g.turn = u} = {g \in received[c] : g.turn = u}
        BY <1>1, Zenon
      <4> QED
        BY <4>1, <4>2, <4>3, <4>4, Zenon
    <3> QED
      BY <2>2, <3>2, MineKept, Zenon
  <2> QED
    BY <2>1, <2>2, Zenon
<1>3. ASSUME NEW u \in ChatTurns  PROVE FanFacts(u)' /\ OfferedTo(u)' = OfferedTo(u)
  BY <1>a, <1>e, FanKept, Zenon
<1>4. ASSUME NEW u \in ChatTurns, NEW d \in subscribed', <<d, u>> \notin left'
      PROVE  d \in subscribed /\ <<d, u>> \notin left /\ (Concluded(d, u) => Concluded(d, u)')
  BY <1>a, <1>e, <1>2, <1>4, Zenon
<1>5. ASSUME NEW u \in ChatTurns  PROVE EndFacts(u)' /\ AbortFacts(u)'
  <2>1. EndFacts(u)'
    BY <1>a, <1>e, <1>4, EndKept, Zenon
  <2>2. AbortFacts(u)'
    BY <1>a, <1>e, <1>4, AbortKept, Zenon
  <2> QED
    BY <2>1, <2>2, Zenon
<1>6. ASSUME NEW d \in Conns  PROVE OwnFacts(d)'
  BY <1>a, <1>e, Zenon DEF OwnFacts
<1>7. ASSUME NEW d \in Conns, NEW u \in ChatTurns  PROVE ReachFacts(d, u)'
  BY <1>a, <1>e, <1>2, <1>3, ReachKept, Zenon
<1> QED
  BY <1>3, <1>5, <1>6, <1>7, Zenon DEF ChatInv

\* broadcast_to_session gives the frame to the connections that stay subscribed
\* and to no other.
LEMMA BroadcastRow ==
  ASSUME ChatTypeOK, NEW frame \in Frames, Broadcast(frame), NEW c \in Conns
  PROVE  \/ /\ c \in subscribed' /\ c \in subscribed
            /\ Range(outgoing'[c]) = Range(outgoing[c]) \cup {frame}
         \/ c \notin subscribed' /\ outgoing'[c] = outgoing[c]
<1> DEFINE full == {d \in Conns : Hears(d) /\ Len(outgoing[d]) >= Capacity}
<1>1. /\ outgoing' = [d \in Conns |-> IF Hears(d) /\ d \notin full THEN Append(outgoing[d], frame) ELSE outgoing[d]]
      /\ subscribed' = subscribed \ full
  BY Zenon DEF Broadcast
<1>2. Hears(c) <=> c \in subscribed
  BY Zenon DEF Hears, ChatTypeOK
<1>3. Range(Append(outgoing[c], frame)) = Range(outgoing[c]) \cup {frame}
  <2>1. outgoing[c] \in Seq(Frames)
    BY Zenon DEF ChatTypeOK
  <2> QED
    BY <2>1, RangeAppend
<1> HIDE DEF full
<1> QED
  BY <1>1, <1>2, <1>3, Zenon

LEMMA OtherTurn ==
  ASSUME NEW c, NEW u, NEW frame, frame.turn # u, received'[c] = received[c],
         \/ Range(outgoing'[c]) = Range(outgoing[c]) \cup {frame}
         \/ outgoing'[c] = outgoing[c]
  PROVE  Reached(c, u)' = Reached(c, u) /\ (Concluded(c, u)' <=> Concluded(c, u))
<1>1. Mine(c, u)' = Mine(c, u)
  BY Zenon DEF Mine
<1> QED
  BY <1>1, MineKept, Zenon

LEMMA FanOutAction ==
  ASSUME ChatInv, ChatTypeOK', NEW t \in ChatTurns, FanOut(t)
  PROVE  ChatInv'
<1> DEFINE frame == Head(fan[t])
<1>a. /\ \A u \in ChatTurns : FanFacts(u) /\ EndFacts(u) /\ AbortFacts(u)
      /\ \A d \in Conns : OwnFacts(d)
      /\ \A d \in Conns, u \in ChatTurns : ReachFacts(d, u)
      /\ ChatTypeOK /\ fan \in [ChatTurns -> Seq(Frames)]
      /\ subscribed' \subseteq Conns
  BY Zenon DEF ChatInv, ChatTypeOK
<1>e. /\ fan[t] # <<>> /\ Broadcast(frame) /\ fan' = [fan EXCEPT ![t] = Tail(@)]
      /\ UNCHANGED <<listing, activeTurns, owner, task, aborting, sent, received, dropped, left>>
  BY Zenon DEF FanOut
<1>b. frame \in Frames
  <2>1. PICK q \in Seq(Frames) : q = fan[t]
    BY <1>a, Zenon
  <2>2. Head(q) \in Frames
    BY <1>e, <2>1
  <2> QED
    BY <2>1, <2>2, Zenon
<1>c. /\ FanFacts(t)' /\ OfferedTo(t)' = OfferedTo(t) + 1 /\ OfferedTo(t) \in Nat
      /\ frame.turn = t /\ frame.n = OfferedTo(t) /\ frame.kind # "interrupted"
      /\ IF fan'[t] = <<>> THEN frame = fan[t][Len(fan[t])]
         ELSE fan'[t][Len(fan'[t])] = fan[t][Len(fan[t])]
  BY <1>a, OfferedFacts, Zenon
<1>r. \A c \in Conns : \/ /\ c \in subscribed' /\ c \in subscribed
                          /\ Range(outgoing'[c]) = Range(outgoing[c]) \cup {frame}
                       \/ c \notin subscribed' /\ outgoing'[c] = outgoing[c]
  BY <1>a, <1>b, <1>e, BroadcastRow, Zenon
<1> HIDE DEF frame
<1>1. ASSUME NEW u \in ChatTurns, u # t  PROVE FanFacts(u)' /\ OfferedTo(u)' = OfferedTo(u) /\ fan'[u] = fan[u]
  <2>1. fan'[u] = fan[u]
    BY <1>a, <1>e, <1>1, Zenon
  <2> QED
    BY <1>a, <1>e, <2>1, FanKept, Zenon
<1>2. ASSUME NEW c \in Conns, NEW u \in ChatTurns, u # t
      PROVE  Reached(c, u)' = Reached(c, u) /\ (Concluded(c, u)' <=> Concluded(c, u))
  BY <1>2, <1>c, <1>e, <1>r, OtherTurn, Zenon
<1>3. ASSUME NEW c \in Conns
      PROVE  /\ Concluded(c, t) => Concluded(c, t)'
             /\ c \in subscribed' => Reached(c, t)' = Reached(c, t) \cup {OfferedTo(t)}
             /\ c \notin subscribed' => Reached(c, t)' = Reached(c, t)
             /\ c \in subscribed' /\ frame.kind \in Terminal => Concluded(c, t)'
  <2>1. CASE c \in subscribed'
    <3>1. Range(outgoing'[c]) = Range(outgoing[c]) \cup {frame} /\ received'[c] = received[c]
      BY <1>e, <1>r, <2>1, Zenon
    <3>2. {g \in received'[c] \cup Range(outgoing'[c]) : g.turn = t /\ g.kind # "interrupted"}
          = {g \in received[c] \cup Range(outgoing[c]) : g.turn = t /\ g.kind # "interrupted"} \cup {frame}
      BY <1>c, <3>1, Zenon
    <3>3. Reached(c, t)' = Reached(c, t) \cup {frame.n}
      BY <3>2, Zenon DEF Reached
    <3> QED
      BY <1>c, <2>1, <3>1, <3>3, Zenon DEF Concluded
  <2>2. CASE c \notin subscribed'
    BY <1>e, <1>r, <2>2, SameScreen, Zenon
  <2> QED
    BY <2>1, <2>2, Zenon
<1>4. ASSUME NEW u \in ChatTurns, NEW c \in subscribed', <<c, u>> \notin left'
      PROVE  c \in subscribed /\ <<c, u>> \notin left /\ (Concluded(c, u) => Concluded(c, u)')
  BY <1>a, <1>e, <1>r, <1>2, <1>3, <1>4, Zenon
<1>5. ASSUME NEW u \in ChatTurns  PROVE AbortFacts(u)'
  BY <1>a, <1>e, <1>4, AbortKept, Zenon
<1>6. ASSUME NEW u \in ChatTurns, u # t  PROVE EndFacts(u)'
  BY <1>a, <1>e, <1>1, <1>4, <1>6, EndKept, Zenon
<1>7. EndFacts(t)'
  <2> SUFFICES ASSUME task[t] \in {"over", "unlisted", "finished"}, t \notin aborting \cup dropped
               PROVE  IF fan'[t] # <<>> THEN fan'[t][Len(fan'[t])].kind \in Terminal
                      ELSE \A c \in subscribed' : Concluded(c, t)'
    BY <1>e, Zenon DEF EndFacts
  <2>1. fan[t][Len(fan[t])].kind \in Terminal
    BY <1>a, <1>e, Zenon DEF EndFacts
  <2> QED
    BY <1>a, <1>c, <1>3, <2>1, Zenon
<1>8. ASSUME NEW d \in Conns  PROVE OwnFacts(d)'
  BY <1>a, <1>e, Zenon DEF OwnFacts
<1>9. ASSUME NEW d \in Conns, NEW u \in ChatTurns  PROVE ReachFacts(d, u)'
  <2>1. CASE u # t
    BY <1>a, <1>e, <1>r, <1>1, <1>2, <2>1, ReachKept, Zenon
  <2>2. CASE u = t
    <3> SUFFICES ASSUME <<d, t>> \notin left
                 PROVE  \E k \in 0 .. OfferedTo(t)' : /\ Reached(d, t)' = 0 .. (k - 1)
                                                      /\ d \in subscribed' => k = OfferedTo(t)'
      BY <1>e, <2>2, Zenon DEF ReachFacts
    <3>1. PICK k \in 0 .. OfferedTo(t) : Reached(d, t) = 0 .. (k - 1) /\ (d \in subscribed => k = OfferedTo(t))
      BY <1>a, Zenon DEF ReachFacts
    <3>2. CASE d \in subscribed'
      <4>1. k = OfferedTo(t) /\ Reached(d, t)' = (0 .. (k - 1)) \cup {k}
        BY <1>r, <1>3, <3>1, <3>2, Zenon
      <4>2. (0 .. (k - 1)) \cup {k} = 0 .. ((k + 1) - 1) /\ k + 1 = OfferedTo(t)' /\ k + 1 \in 0 .. OfferedTo(t)'
        BY <1>c, <4>1
      <4> QED
        BY <4>1, <4>2, Zenon
    <3>3. CASE d \notin subscribed'
      <4>1. Reached(d, t)' = 0 .. (k - 1) /\ k \in 0 .. OfferedTo(t)'
        BY <1>c, <1>3, <3>1, <3>3
      <4> QED
        BY <3>3, <4>1, Zenon
    <3> QED
      BY <3>2, <3>3, Zenon
  <2> QED
    BY <2>1, <2>2, Zenon
<1> QED
  BY <1>1, <1>5, <1>6, <1>7, <1>8, <1>9, <1>c, Zenon DEF ChatInv

LEMMA PushAction ==
  ASSUME ChatInv, ChatTypeOK', Push
  PROVE  ChatInv'
<1> DEFINE frame == [turn |-> Pushed, n |-> pushes, kind |-> "item"]
<1>a. /\ \A u \in ChatTurns : FanFacts(u) /\ EndFacts(u) /\ AbortFacts(u)
      /\ \A d \in Conns : OwnFacts(d)
      /\ \A d \in Conns, u \in ChatTurns : ReachFacts(d, u)
      /\ ChatTypeOK /\ pushes \in Nat /\ subscribed' \subseteq Conns
  BY Zenon DEF ChatInv, ChatTypeOK
<1>e. /\ Broadcast(frame)
      /\ UNCHANGED <<listing, activeTurns, owner, task, aborting, fan, sent, received, dropped, left>>
  BY Zenon DEF Push
<1>b. frame \in Frames /\ frame.turn = Pushed /\ Pushed \notin ChatTurns
  BY <1>a, ChatAssumption, Zenon DEF Frames, Pushed
<1>r. \A c \in Conns : \/ /\ c \in subscribed' /\ c \in subscribed
                          /\ Range(outgoing'[c]) = Range(outgoing[c]) \cup {frame}
                       \/ c \notin subscribed' /\ outgoing'[c] = outgoing[c]
  BY <1>a, <1>b, <1>e, BroadcastRow, ZenonT(30)
<1> HIDE DEF frame
<1>1. ASSUME NEW u \in ChatTurns  PROVE FanFacts(u)' /\ OfferedTo(u)' = OfferedTo(u)
  BY <1>a, <1>e, FanKept, Zenon
<1>2. ASSUME NEW c \in Conns, NEW u \in ChatTurns
      PROVE  Reached(c, u)' = Reached(c, u) /\ (Concluded(c, u)' <=> Concluded(c, u))
  BY <1>b, <1>e, <1>r, OtherTurn, Zenon
<1>3. ASSUME NEW u \in ChatTurns, NEW c \in subscribed', <<c, u>> \notin left'
      PROVE  c \in subscribed /\ <<c, u>> \notin left /\ (Concluded(c, u) => Concluded(c, u)')
  BY <1>a, <1>e, <1>r, <1>2, <1>3, Zenon
<1>4. ASSUME NEW u \in ChatTurns  PROVE EndFacts(u)' /\ AbortFacts(u)'
  <2>1. EndFacts(u)'
    BY <1>a, <1>e, <1>3, EndKept, Zenon
  <2>2. AbortFacts(u)'
    BY <1>a, <1>e, <1>3, AbortKept, Zenon
  <2> QED
    BY <2>1, <2>2, Zenon
<1>5. ASSUME NEW d \in Conns  PROVE OwnFacts(d)'
  BY <1>a, <1>e, Zenon DEF OwnFacts
<1>6. ASSUME NEW d \in Conns, NEW u \in ChatTurns  PROVE ReachFacts(d, u)'
  BY <1>a, <1>e, <1>r, <1>1, <1>2, ReachKept, Zenon
<1> QED
  BY <1>1, <1>4, <1>5, <1>6, Zenon DEF ChatInv

\* Every step of the gateway's socket loops, of the turns' tasks and of their
\* fan-outs keeps what the two properties below rest on.
THEOREM ChatInvariant == ChatSpec => []ChatInv
<1>1. ChatInv /\ [ChatNext]_chatVars => ChatInv'
  <2> SUFFICES ASSUME ChatInv, [ChatNext]_chatVars  PROVE ChatInv'
    BY Zenon
  <2>t. ChatTypeOK'
    BY ChatTypes, Zenon
  <2>1. ASSUME NEW c \in Conns, Subscribe(c) \/ Unsubscribe(c) \/ Close(c)  PROVE ChatInv'
    BY <2>t, <2>1, SessionActions, Zenon
  <2>2. ASSUME NEW c \in Conns, WriteFrame(c)  PROVE ChatInv'
    BY <2>t, <2>2, WriteAction, Zenon
  <2>3. ASSUME NEW c \in Conns, TurnListed(c)  PROVE ChatInv'
    BY <2>t, <2>3, ListAction, Zenon
  <2>4. ASSUME NEW c \in Conns, NEW t \in ChatTurns, TurnStart(c, t)  PROVE ChatInv'
    BY <2>t, <2>4, StartAction, Zenon
  <2>5. ASSUME NEW c \in Conns, NEW t \in ChatTurns, TurnCancel(c, t)  PROVE ChatInv'
    BY <2>t, <2>5, CancelAction, Zenon
  <2>6. ASSUME NEW t \in ChatTurns,
               TaskPublishes(t) \/ TaskFails(t) \/ TaskCompletes(t) \/ TaskUnlists(t) \/ TaskFinishes(t) \/ TaskStops(t)
        PROVE  ChatInv'
    BY <2>t, <2>6, TaskActions, Zenon
  <2>7. ASSUME NEW t \in ChatTurns, FanOut(t)  PROVE ChatInv'
    BY <2>t, <2>7, FanOutAction, Zenon
  <2>8. CASE Push
    BY <2>t, <2>8, PushAction, Zenon
  <2>9. CASE UNCHANGED chatVars
    <3>1. \A t \in ChatTurns : FanFacts(t)'
      BY <2>9, FanKept, Zenon DEF chatVars, ChatInv
    <3>2. \A t \in ChatTurns : EndFacts(t)' /\ AbortFacts(t)'
      BY <2>9, Zenon DEF chatVars, ChatInv, EndFacts, AbortFacts, Concluded
    <3>3. \A c \in Conns : OwnFacts(c)'
      BY <2>9, Zenon DEF chatVars, ChatInv, OwnFacts
    <3>4. \A c \in Conns, t \in ChatTurns : ReachFacts(c, t)'
      BY <2>9, Zenon DEF chatVars, ChatInv, ReachFacts, OfferedTo, Reached
    <3> QED
      BY <2>t, <3>1, <3>2, <3>3, <3>4, ZenonT(30) DEF ChatInv
  <2> QED
    BY <2>1, <2>2, <2>3, <2>4, <2>5, <2>6, <2>7, <2>8, <2>9, Zenon DEF ChatNext
<1> QED
  BY <1>1, ChatInitial, PTL DEF ChatSpec

\* The connection's maps and the queues of the broadcaster and of the turns keep
\* their types, and a queue never holds more than its capacity.
THEOREM ChatTypeCorrect == ChatSpec => []ChatTypeOK
<1>1. ChatInv => ChatTypeOK
  BY Zenon DEF ChatInv
<1> QED
  BY <1>1, ChatInvariant, PTL

\* For any number of connections and turns, and any capacity of the two queues:
\* a client that stays subscribed never gets a later frame of a turn without the
\* earlier ones (submit's try_send and broadcast_to_session, which give up at the
\* first full queue).
THEOREM NoGapsSafety == ChatSpec => []NoGaps
<1>1. ChatInv => NoGaps
  <2> SUFFICES ASSUME ChatInv, NEW c \in Conns, NEW t \in ChatTurns, <<c, t>> \notin left,
                      NEW n \in Reached(c, t), NEW m \in 0 .. n
               PROVE  m \in Reached(c, t)
    BY Zenon DEF NoGaps
  <2>1. PICK k \in 0 .. OfferedTo(t) : Reached(c, t) = 0 .. (k - 1)
    BY Zenon DEF ChatInv, ReachFacts
  <2> QED
    BY <2>1
<1> QED
  BY <1>1, ChatInvariant, PTL

\* The client that started a turn and heard it to its end has a terminal
\* notification, however completion, failure, handle_protocol_turn_cancel and the
\* fan-out interleave.
THEOREM StarterSafety == ChatSpec => []StarterLearnsEnd
<1>1. ChatInv => StarterLearnsEnd
  <2> SUFFICES ASSUME ChatInv, NEW t \in ChatTurns, NEW c \in Conns, owner[t] = c, Witnessed(c, t)
               PROVE  Concluded(c, t)
    BY Zenon DEF StarterLearnsEnd
  <2>1. task[t] = "finished" /\ fan[t] = <<>> /\ t \notin dropped /\ c \in subscribed /\ <<c, t>> \notin left
    BY Zenon DEF Witnessed, Hears
  <2>2. EndFacts(t) /\ AbortFacts(t)
    BY Zenon DEF ChatInv
  <2>3. CASE t \in aborting
    BY <2>1, <2>2, <2>3, Zenon DEF AbortFacts
  <2>4. CASE t \notin aborting
    BY <2>1, <2>2, <2>4, Zenon DEF EndFacts
  <2> QED
    BY <2>3, <2>4, Zenon
<1> QED
  BY <1>1, ChatInvariant, PTL
=============================================================================
