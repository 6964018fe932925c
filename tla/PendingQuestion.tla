-------------------------- MODULE PendingQuestion --------------------------
(***************************************************************************)
(* One question of the ask_question tool and the users who answer it with  *)
(* /card_answer (SqliteAskQuestionManager of klaw-tool, the card_answer    *)
(* branch of handle_im_command in klaw-runtime and the pending_questions   *)
(* table of klaw-storage).                                                 *)
(*                                                                         *)
(* answer_question reads the record, decides, stores with an UPDATE that   *)
(* only names the id, and reads the record again; the follow-up turn is    *)
(* built from that second read.  Each of the three is a separate call, so  *)
(* the steps of two answers interleave.                                    *)
(***************************************************************************)
EXTENDS Naturals, FiniteSets

CONSTANTS Users,     \* users who answer, each once
          Options,   \* option ids of the question
          NoOption   \* a NULL selected_option_id; an id that is no option

ASSUME QuestionAssumption == NoOption \notin Options

VARIABLES question,   \* status and selected_option_id of the record
          expired,    \* expires_at_ms lies in the past
          answer,     \* the answers under way
          followUps,  \* the follow-up turns: who caused them, with which option
          accepted,   \* history: users whose answer was stored
          expirers,   \* history: users whose late answer stored the expiry
          unread      \* history: users whose second read failed

questionVars == <<question, expired, answer, followUps, accepted, expirers,
                  unread>>

\* execute / create_question: the record is pending and its card is shown.
QuestionInit ==
  /\ question = [status |-> "pending", option |-> NoOption]
  /\ expired = FALSE
  /\ answer = [u \in Users |-> [pc |-> "idle", option |-> NoOption, late |-> FALSE]]
  /\ followUps = {} /\ accepted = {} /\ expirers = {} /\ unread = {}

Expires ==
  /\ ~expired /\ expired' = TRUE
  /\ UNCHANGED <<question, answer, followUps, accepted, expirers, unread>>

\* The card_answer branch up to the call of answer_question: it takes the time
\* of the answer.  The command line is free text, so the option may be no
\* option of the question.
SubmitAnswer(u, o) ==
  /\ answer[u].pc = "idle"
  /\ answer' = [answer EXCEPT ![u] = [pc |-> "read", option |-> o,
                                      late |-> expired]]
  /\ UNCHANGED <<question, expired, followUps, accepted, expirers, unread>>

Advance(u, pc) == answer' = [answer EXCEPT ![u].pc = pc]

\* The first read and the decisions taken on it.
ReadQuestion(u) ==
  /\ answer[u].pc = "read"
  /\ \/ question.status # "pending" /\ Advance(u, "done")
     \/ /\ question.status = "pending"
        /\ \/ answer[u].late /\ Advance(u, "expire")
           \/ ~answer[u].late /\ answer[u].option \notin Options /\ Advance(u, "done")
           \/ ~answer[u].late /\ answer[u].option \in Options /\ Advance(u, "store")
  /\ UNCHANGED <<question, expired, followUps, accepted, expirers, unread>>

\* UPDATE of the status, which clears the option.
StoreExpired(u) ==
  /\ answer[u].pc = "expire"
  /\ question' = [status |-> "expired", option |-> NoOption]
  /\ expirers' = expirers \union {u}
  /\ Advance(u, "done")
  /\ UNCHANGED <<expired, followUps, accepted, unread>>

StoreAnswer(u) ==
  /\ answer[u].pc = "store"
  /\ question' = [status |-> "answered", option |-> answer[u].option]
  /\ accepted' = accepted \union {u}
  /\ Advance(u, "reread")
  /\ UNCHANGED <<expired, followUps, expirers, unread>>

\* Mutant: selected_option is not checked.
FollowUpUnchecked(u) ==
  /\ answer[u].pc = "reread"
  /\ followUps' = followUps \union {[user |-> u, option |-> question.option]}
  /\ Advance(u, "done")
  /\ UNCHANGED <<question, expired, accepted, expirers, unread>>

\* Mutant: only the own option resumes the agent.
FollowUpOnAnswered(u) ==
  /\ answer[u].pc = "reread"
  /\ followUps' = IF question.option = answer[u].option
       THEN followUps \union {[user |-> u, option |-> question.option]}
       ELSE followUps
  /\ Advance(u, "done")
  /\ UNCHANGED <<question, expired, accepted, expirers, unread>>

\* The second read: the follow-up turn names the option found now; a record
\* without one only gets an error text.
FollowUp(u) ==
  /\ answer[u].pc = "reread"
  /\ followUps' = IF question.option \in Options
       THEN followUps \union {[user |-> u, option |-> question.option]}
       ELSE followUps
  /\ Advance(u, "done")
  /\ UNCHANGED <<question, expired, accepted, expirers, unread>>

\* A storage error ends the answer with an error text.
AnswerFails(u) ==
  /\ answer[u].pc \in {"read", "expire", "store", "reread"}
  /\ unread' = IF answer[u].pc = "reread" THEN unread \union {u} ELSE unread
  /\ Advance(u, "done")
  /\ UNCHANGED <<question, expired, followUps, accepted, expirers>>

AnswerStep(u) ==
  ReadQuestion(u) \/ StoreExpired(u) \/ StoreAnswer(u) \/ FollowUp(u)

QuestionNext ==
  \/ Expires
  \/ \E u \in Users :
       \/ \E o \in Options \union {NoOption} : SubmitAnswer(u, o)
       \/ AnswerStep(u) \/ AnswerFails(u)

QuestionSpec == QuestionInit /\ [][QuestionNext]_questionVars

-----------------------------------------------------------------------------
(* Properties *)

\* The record, the answers under way and the follow-up turns have the types of
\* their Rust and SQL counterparts.
QuestionTypeOK ==
  /\ question \in [status : {"pending", "answered", "expired"},
                   option : Options \union {NoOption}]
  /\ expired \in BOOLEAN
  /\ answer \in [Users -> [pc : {"idle", "read", "expire", "store", "reread", "done"},
                           option : Options \union {NoOption},
                           late : BOOLEAN]]
  /\ followUps \subseteq [user : Users, option : Options]
  /\ accepted \subseteq Users /\ expirers \subseteq Users /\ unread \subseteq Users

\* A follow-up turn resumes the agent with an option of the question that some
\* user really submitted and the manager accepted, however the writes and second
\* reads of several answers interleave (answer_question re-reads the record).
FollowUpTruthful ==
  \A f \in followUps :
    /\ f.user \in accepted
    /\ f.option \in Options
    /\ \E u \in accepted : answer[u].option = f.option

\* An accepted answer resumes the agent: it lacks its follow-up turn only when
\* its second read failed or a late answer's expiry overwrote the record
\* between its write and its second read.
AcceptedResumes ==
  \A u \in accepted :
    answer[u].pc = "done" =>
      \/ \E f \in followUps : f.user = u
      \/ u \in unread
      \/ expirers # {}

\* A question that expired before anybody answered resumes nothing: every
\* follow-up comes from a user who submitted in time.
LateNeverResumes ==
  \A f \in followUps : ~answer[f.user].late

\* The card is a single selection: the runtime resumes once per question, with
\* the one option the user chose (klaw-tool/README.md, "so the runtime can
\* resume only after the user answers"; klaw-tool/CHANGELOG.md, "tool contract
\* stays strictly single-select").
\* It does not hold and no run checks it (README.md).
FollowUpOnce == Cardinality(followUps) <= 1
=============================================================================
