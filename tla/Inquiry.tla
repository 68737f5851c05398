-------------------------------- MODULE Inquiry --------------------------------
(***************************************************************************)
(* Inquiries about products and the sellers' answers (src/inquiry), under  *)
(* concurrent requests: asking, editing and deleting an inquiry, replying, *)
(* rewriting and deleting the reply.                                       *)
(*                                                                         *)
(* A step is one await.  Every request reads and checks first and writes   *)
(* later by id.  What its transaction has written, and so which rows it    *)
(* has locked, follows from where it is.  A reply's id and a text are the  *)
(* request that wrote them.                                                *)
(***************************************************************************)
CONSTANTS
    Calls,          \* requests that edit, delete or reply
    Inquiries,      \* ids the inquiries get
    First,          \* the text an inquiry is asked with
    Absent, Gone, NoAnswer, NoJob

Texts == Calls \cup {First}
Asked == [status : {"WaitingAnswer", "CompletedAnswer"}, text : Texts]
Answered == [id : Calls, text : Texts]
ToInquiry == [kind : {"edit", "remove", "reply"}, inquiry : Inquiries]
ToReply == [kind : {"rewrite", "retract"}, inquiry : Inquiries, reply : Calls]
Job == ToInquiry \cup ToReply

ASSUME InquiryAssumption ==
    /\ Absent \notin Asked \cup {Gone} /\ Gone \notin Asked
    /\ NoAnswer \notin Answered
    /\ NoJob \notin Job

VARIABLES
    pc, job,
    earlier,    \* history: the replies announced when a request was checked
    inquiry,    \* id -> row, or Absent before and Gone after
    answer,     \* inquiry id -> row of its answer, or NoAnswer
    announced   \* replies the asker has a notification of

rows == <<inquiry, answer, announced>>
vars == <<pc, job, earlier, rows>>

Final == {"done", "rejected", "failed"}
Active == {"editing", "removing", "cascading", "replying", "answering", "answered",
           "rewriting", "retracting", "reopening", "reopened"}
PC == {"idle"} \cup Active \cup Final

On(c) == job[c].inquiry
Exists(i) == inquiry[i] \notin {Absent, Gone}
HasReply(i, r) == answer[i] # NoAnswer /\ answer[i].id = r

(* Row locks.  An update of the status locks the inquiry, an answer keeps   *)
(* it from being deleted, a deletion keeps off everybody.                   *)
Others(c, places) == \E d \in Calls \ {c} : pc[d] \in places /\ On(d) = On(c)
InquiryBusy(c) == Others(c, {"answered", "reopened", "cascading"})
InquiryKept(c) == Others(c, {"answering"})
AnswerInserted(c) == Others(c, {"answering", "answered"})
AnswerDeleted(c) == Others(c, {"reopening", "reopened"})

Init ==
    /\ pc = [c \in Calls |-> "idle"]
    /\ job = [c \in Calls |-> NoJob]
    /\ earlier = [c \in Calls |-> {}]
    /\ inquiry = [i \in Inquiries |-> Absent]
    /\ answer = [i \in Inquiries |-> NoAnswer]
    /\ announced = {}

Goto(c, label) == pc' = [pc EXCEPT ![c] = label]
End(c, label) == Goto(c, label) /\ UNCHANGED <<job, earlier>>

--------------------------------------------------------------------------------
(* ProductsRepository.createInquiry: one transaction of inserts, that       *)
(* nobody sees before it commits.                                           *)
Ask(i) ==
    /\ inquiry[i] = Absent
    /\ inquiry' = [inquiry EXCEPT ![i] = [status |-> "WaitingAnswer", text |-> First]]
    /\ UNCHANGED <<pc, job, earlier, answer, announced>>

(* A request is read, and checked against the rows: whose they are and      *)
(* `allowed'.                                                               *)
Begin(c, j, allowed, label) ==
    /\ pc[c] = "idle"
    /\ job' = [job EXCEPT ![c] = j]
    /\ earlier' = [earlier EXCEPT ![c] = announced]
    /\ \E own \in BOOLEAN : Goto(c, IF allowed /\ own THEN label ELSE "rejected")
    /\ UNCHANGED rows

Open(i) == Exists(i) /\ inquiry[i].status = "WaitingAnswer" /\ answer[i] = NoAnswer

(* Mutant of BeginEdit: the answer is not looked at.                        *)
BeginEditAlways(c) ==
    \E i \in Inquiries : Begin(c, [kind |-> "edit", inquiry |-> i], Exists(i), "editing")

BeginEdit(c) ==
    \E i \in Inquiries : Begin(c, [kind |-> "edit", inquiry |-> i], Open(i), "editing")

BeginRemove(c) ==
    \E i \in Inquiries : Begin(c, [kind |-> "remove", inquiry |-> i], Exists(i), "removing")

BeginReply(c) ==
    \E i \in Inquiries : Begin(c, [kind |-> "reply", inquiry |-> i], Open(i), "replying")

BeginRewrite(c) ==
    \E i \in Inquiries, r \in Calls :
        Begin(c, [kind |-> "rewrite", inquiry |-> i, reply |-> r], HasReply(i, r), "rewriting")

BeginRetract(c) ==
    \E i \in Inquiries, r \in Calls :
        Begin(c, [kind |-> "retract", inquiry |-> i, reply |-> r], HasReply(i, r), "retracting")

--------------------------------------------------------------------------------
(* UPDATE of the inquiry by id.                                             *)
EditInquiry(c) ==
    /\ pc[c] = "editing" /\ ~ InquiryBusy(c)
    /\ IF Exists(On(c))
       THEN End(c, "done") /\ inquiry' = [inquiry EXCEPT ![On(c)].text = c]
       ELSE End(c, "failed") /\ UNCHANGED inquiry
    /\ UNCHANGED <<answer, announced>>

(* DELETE of the inquiry by id: it locks the row, then waits for the answer *)
(* it cascades to.                                                          *)
LockInquiry(c) ==
    /\ pc[c] = "removing" /\ ~ InquiryBusy(c) /\ ~ InquiryKept(c)
    /\ End(c, IF Exists(On(c)) THEN "cascading" ELSE "failed")
    /\ UNCHANGED rows

RemoveInquiry(c) ==
    /\ pc[c] = "cascading" /\ ~ AnswerDeleted(c)
    /\ End(c, "done")
    /\ inquiry' = [inquiry EXCEPT ![On(c)] = Gone]
    /\ answer' = [answer EXCEPT ![On(c)] = NoAnswer]
    /\ UNCHANGED announced

(* Mutant of InsertAnswer: an insert the unique key refuses is tried again. *)
InsertUntilFree(c) ==
    /\ pc[c] = "replying"
    /\ ~ AnswerInserted(c) /\ ~ AnswerDeleted(c) /\ ~ Others(c, {"cascading"})
    /\ Exists(On(c)) => answer[On(c)] = NoAnswer
    /\ End(c, IF Exists(On(c)) THEN "answering" ELSE "failed")
    /\ UNCHANGED rows

(* createReply: the insert waits for another one of the unique key and for  *)
(* a deletion of the inquiry, and fails on an answer or without an inquiry. *)
InsertAnswer(c) ==
    /\ pc[c] = "replying"
    /\ ~ AnswerInserted(c) /\ ~ AnswerDeleted(c) /\ ~ Others(c, {"cascading"})
    /\ End(c, IF Exists(On(c)) /\ answer[On(c)] = NoAnswer THEN "answering" ELSE "failed")
    /\ UNCHANGED rows

(* Mutant of CompleteStatus: the update is not part of the transaction.     *)
CompleteOutsideTx(c) ==
    /\ pc[c] = "answering" /\ ~ InquiryBusy(c)
    /\ End(c, "answered")
    /\ inquiry' = [inquiry EXCEPT ![On(c)].status = "CompletedAnswer"]
    /\ UNCHANGED <<answer, announced>>

(* The inquiry is marked as answered in the same transaction.               *)
CompleteStatus(c) ==
    /\ pc[c] = "answering" /\ ~ InquiryBusy(c)
    /\ End(c, "answered")
    /\ UNCHANGED rows

CommitReply(c) ==
    /\ pc[c] = "answered"
    /\ End(c, "done")
    /\ inquiry' = [inquiry EXCEPT ![On(c)].status = "CompletedAnswer"]
    /\ answer' = [answer EXCEPT ![On(c)] = [id |-> c, text |-> c]]
    /\ announced' = announced \cup {c}

--------------------------------------------------------------------------------
(* UPDATE of the answer by id.                                              *)
RewriteAnswer(c) ==
    /\ pc[c] = "rewriting" /\ ~ AnswerDeleted(c)
    /\ IF HasReply(On(c), job[c].reply)
       THEN End(c, "done") /\ answer' = [answer EXCEPT ![On(c)].text = c]
       ELSE End(c, "failed") /\ UNCHANGED answer
    /\ UNCHANGED <<inquiry, announced>>

(* deleteReply: the answer is deleted by id, then the inquiry updated.      *)
DeleteAnswer(c) ==
    /\ pc[c] = "retracting" /\ ~ AnswerDeleted(c)
    /\ End(c, IF HasReply(On(c), job[c].reply) THEN "reopening" ELSE "failed")
    /\ UNCHANGED rows

ReopenStatus(c) ==
    /\ pc[c] = "reopening" /\ ~ InquiryBusy(c)
    /\ End(c, "reopened")
    /\ UNCHANGED rows

(* Mutant of CommitRetract: only the answer is deleted.                     *)
RetractAnswerOnly(c) ==
    /\ pc[c] = "reopened"
    /\ End(c, "done")
    /\ answer' = [answer EXCEPT ![On(c)] = NoAnswer]
    /\ UNCHANGED <<inquiry, announced>>

CommitRetract(c) ==
    /\ pc[c] = "reopened"
    /\ End(c, "done")
    /\ inquiry' = [inquiry EXCEPT ![On(c)].status = "WaitingAnswer"]
    /\ answer' = [answer EXCEPT ![On(c)] = NoAnswer]
    /\ UNCHANGED announced

--------------------------------------------------------------------------------
(* A deletion of the reply waits for the inquiry and a deletion of the      *)
(* inquiry for the reply: the database ends one of them.                    *)
DeadlockAbort(c) ==
    /\ \/ pc[c] = "reopening" /\ Others(c, {"cascading"})
       \/ pc[c] = "cascading" /\ Others(c, {"reopening"})
    /\ End(c, "failed")
    /\ UNCHANGED rows

Fail(c) ==
    /\ pc[c] \in Active
    /\ End(c, "failed")
    /\ UNCHANGED rows

Proceed(c) ==
    \/ EditInquiry(c)
    \/ LockInquiry(c)
    \/ RemoveInquiry(c)
    \/ InsertAnswer(c)
    \/ CompleteStatus(c)
    \/ CommitReply(c)
    \/ RewriteAnswer(c)
    \/ DeleteAnswer(c)
    \/ ReopenStatus(c)
    \/ CommitRetract(c)
    \/ DeadlockAbort(c)

Rest == (\A c \in Calls : pc[c] \in {"idle"} \cup Final) /\ UNCHANGED vars

Next ==
    \/ \E i \in Inquiries : Ask(i)
    \/ \E c \in Calls :
        \/ BeginEdit(c)
        \/ BeginRemove(c)
        \/ BeginReply(c)
        \/ BeginRewrite(c)
        \/ BeginRetract(c)
        \/ Proceed(c)
        \/ Fail(c)
    \/ Rest

(* A request that was let in is carried on; nothing forces one to be sent.  *)
Spec == Init /\ [][Next]_vars /\ \A c \in Calls : WF_vars(Proceed(c))

--------------------------------------------------------------------------------
TypeOK ==
    /\ pc \in [Calls -> PC]
    /\ job \in [Calls -> Job \cup {NoJob}]
    /\ earlier \in [Calls -> SUBSET Calls]
    /\ inquiry \in [Inquiries -> Asked \cup {Absent, Gone}]
    /\ answer \in [Inquiries -> Answered \cup {NoAnswer}]
    /\ announced \in SUBSET Calls

(* An inquiry is marked as answered exactly if it has an answer, and an     *)
(* answer has an inquiry, whatever replies, deletions of replies and of     *)
(* inquiries cross (inquiry.repository.ts:113-171, 204-228).                *)
StatusTellsAnswer ==
    \A i \in Inquiries :
        IF Exists(i)
        THEN inquiry[i].status = "CompletedAnswer" <=> answer[i] # NoAnswer
        ELSE answer[i] = NoAnswer

(* An edit changes an answered inquiry only if the answer came after the    *)
(* edit was let in (inquiry.service.ts:73).                                 *)
EditsOnlyOvertake ==
    [][\A i \in Inquiries, c \in Calls :
          pc[c] = "editing" /\ pc'[c] = "done" /\ On(c) = i /\ answer[i] # NoAnswer
          => answer[i].id \notin earlier[c]]_vars

(* Inquiry and answer change together, and a reply is announced with the    *)
(* step that gives it (module Thread).                                      *)
Conversation == INSTANCE Thread WITH Replies <- Calls
ChangesTogether == Conversation!Spec

(* Every request ends although deletions wait for each other.               *)
Ends == \A c \in Calls : pc[c] \in Active ~> pc[c] \in Final
================================================================================
