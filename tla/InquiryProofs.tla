------------------------------ MODULE InquiryProofs ------------------------------
(***************************************************************************)
(* Theorems about Inquiry for any set of requests and inquiries: its       *)
(* invariants, and that it implements Thread.  The last part is about the  *)
(* stream that sends notifications (Feed).                                 *)
(***************************************************************************)
EXTENDS Inquiry, Feed, TLAPS

USE DEF Goto, End

--------------------------------------------------------------------------------
(* The inductive invariant: what a request is, from where it is.           *)
KindAt == [editing |-> "edit", removing |-> "remove", cascading |-> "remove",
           replying |-> "reply", answering |-> "reply", answered |-> "reply",
           rewriting |-> "rewrite", retracting |-> "retract", reopening |-> "retract",
           reopened |-> "retract"]

Begun(c) == pc[c] \in Active => job[c] \in Job /\ job[c].kind = KindAt[pc[c]]

(* What it has locked is there, and is as it was when it was locked.       *)
Inserted(c) == pc[c] \in {"answering", "answered"}
Deleted(c) == pc[c] \in {"reopening", "reopened"}

Holds(c) ==
    /\ Inserted(c) => Exists(On(c)) /\ answer[On(c)] = NoAnswer
    /\ Deleted(c) => Exists(On(c)) /\ HasReply(On(c), job[c].reply)
    /\ pc[c] = "cascading" => Exists(On(c))

(* Who changes the answer of an inquiry, and who deletes the inquiry, does  *)
(* so alone; a deletion and an uncommitted deletion of the reply may meet   *)
(* until one of them ends.                                                  *)
Apart(c, d) ==
    /\ ~ (Inserted(c) \/ Deleted(c)) \/ ~ (Inserted(d) \/ Deleted(d))
    /\ ~ (pc[c] = "cascading" /\ pc[d] \in {"cascading", "answering", "answered", "reopened"})

(* Replies are announced at their commit, edits let in before the answer.   *)
InOrder(c) ==
    /\ earlier[c] \subseteq announced
    /\ c \in announced => pc[c] = "done"
    /\ pc[c] = "editing" /\ answer[On(c)] # NoAnswer => answer[On(c)].id \notin earlier[c]

CallInv(c) == Begun(c) /\ Holds(c) /\ InOrder(c)

IInv ==
    /\ TypeOK
    /\ StatusTellsAnswer
    /\ \A c \in Calls : CallInv(c)
    /\ \A c, d \in Calls : c # d /\ On(c) = On(d) => Apart(c, d)

--------------------------------------------------------------------------------
LEMMA JobTypes ==
    ASSUME NEW c \in Calls, job[c] \in Job
    PROVE  /\ On(c) \in Inquiries
           /\ job[c].kind \in {"rewrite", "retract"} => job[c].reply \in Calls
BY DEF Job, ToInquiry, ToReply, On

LEMMA RowTypes ==
    ASSUME TypeOK, NEW i \in Inquiries
    PROVE  /\ Exists(i) => inquiry[i] \in Asked
           /\ ~ Exists(i) => inquiry[i] \in {Absent, Gone}
           /\ answer[i] # NoAnswer => answer[i] \in Answered
BY InquiryAssumption DEF TypeOK, Exists

LEMMA InitInv ==
    ASSUME Init
    PROVE  IInv
<1>1. TypeOK
  BY DEF Init, TypeOK, PC
<1>2. StatusTellsAnswer
  BY DEF Init, StatusTellsAnswer, Exists
<1>3. ASSUME NEW c \in Calls PROVE CallInv(c)
  BY DEF Init, CallInv, Begun, Holds, InOrder, Inserted, Deleted, Active
<1>4. ASSUME NEW c \in Calls, NEW d \in Calls PROVE Apart(c, d)
  BY DEF Init, Apart, Inserted, Deleted
<1> QED
  BY <1>1, <1>2, <1>3, <1>4 DEF IInv

(* A step by one request that changes no row.                              *)
LEMMA Quiet ==
    ASSUME IInv, NEW c \in Calls, NEW label \in PC, pc' = [pc EXCEPT ![c] = label],
           UNCHANGED <<job, earlier, rows>>,
           CallInv(c)',
           \A d \in Calls \ {c} : On(d) = On(c) => Apart(c, d)' /\ Apart(d, c)'
    PROVE  IInv'
<1>1. TypeOK' /\ StatusTellsAnswer'
  BY DEF IInv, TypeOK, StatusTellsAnswer, Exists, rows
<1>2. ASSUME NEW d \in Calls, d # c PROVE CallInv(d)'
  BY <1>2 DEF IInv, TypeOK, CallInv, Begun, Holds, InOrder, Inserted, Deleted, On, Exists, HasReply, rows
<1>3. ASSUME NEW x \in Calls, NEW y \in Calls, x # y, (On(x) = On(y))' PROVE Apart(x, y)'
  <2>1. On(x) = On(y)
    BY <1>3 DEF On
  <2>2. CASE c \in {x, y}
    BY <1>3, <2>1, <2>2
  <2>3. CASE c \notin {x, y}
    BY <1>3, <2>1, <2>3 DEF IInv, TypeOK, Apart, Inserted, Deleted
  <2> QED
    BY <2>2, <2>3
<1> QED
  BY <1>1, <1>2, <1>3 DEF IInv

(* One that ends, and has changed no row.                                  *)
LEMMA Ending ==
    ASSUME IInv, NEW c \in Calls, NEW label \in {"done", "rejected", "failed"}, pc[c] # "done",
           End(c, label), UNCHANGED rows
    PROVE  IInv'
<1>1. CallInv(c)'
  BY DEF IInv, TypeOK, CallInv, Begun, Active, Holds, InOrder, Inserted, Deleted, rows
<1>2. ASSUME NEW d \in Calls \ {c} PROVE Apart(c, d)' /\ Apart(d, c)'
  BY DEF IInv, TypeOK, Apart, Inserted, Deleted
<1> QED
  BY <1>1, <1>2, Quiet DEF PC, Final

--------------------------------------------------------------------------------
LEMMA BeginStep ==
    ASSUME IInv, NEW c \in Calls,
           \/ BeginEdit(c) \/ BeginRemove(c) \/ BeginReply(c) \/ BeginRewrite(c) \/ BeginRetract(c)
    PROVE  IInv'
<1>1. PICK j \in Job, label \in {"editing", "removing", "replying", "rewriting", "retracting", "rejected"} :
          /\ pc[c] = "idle" /\ pc' = [pc EXCEPT ![c] = label]
          /\ job' = [job EXCEPT ![c] = j] /\ earlier' = [earlier EXCEPT ![c] = announced]
          /\ UNCHANGED rows
          /\ label # "rejected" => j.kind = KindAt[label]
          /\ label = "editing" => answer[j.inquiry] = NoAnswer
  <2>1. CASE BeginEdit(c)
    BY <2>1 DEF BeginEdit, Begin, Open, Job, ToInquiry, KindAt
  <2>2. CASE BeginRemove(c)
    BY <2>2 DEF BeginRemove, Begin, Job, ToInquiry, KindAt
  <2>3. CASE BeginReply(c)
    BY <2>3 DEF BeginReply, Begin, Job, ToInquiry, KindAt
  <2>4. CASE BeginRewrite(c)
    BY <2>4 DEF BeginRewrite, Begin, Job, ToReply, KindAt
  <2>5. CASE BeginRetract(c)
    BY <2>5 DEF BeginRetract, Begin, Job, ToReply, KindAt
  <2> QED
    BY <2>1, <2>2, <2>3, <2>4, <2>5
<1>2. TypeOK' /\ StatusTellsAnswer'
  BY <1>1 DEF IInv, TypeOK, StatusTellsAnswer, Exists, rows, PC, Active, Final
<1>3. CallInv(c)'
  BY <1>1 DEF IInv, TypeOK, CallInv, Begun, Active, Holds, Inserted, Deleted, InOrder, On, rows
<1>4. ASSUME NEW d \in Calls, d # c PROVE CallInv(d)'
  BY <1>1, <1>4 DEF IInv, TypeOK, CallInv, Begun, Holds, InOrder, Inserted, Deleted, On, Exists,
      HasReply, rows
<1>5. ASSUME NEW x \in Calls, NEW y \in Calls, x # y, (On(x) = On(y))' PROVE Apart(x, y)'
  <2>1. CASE c \in {x, y}
    BY <1>1, <1>5, <2>1 DEF IInv, TypeOK, Apart, Inserted, Deleted
  <2>2. CASE c \notin {x, y}
    BY <1>1, <1>5, <2>2 DEF IInv, TypeOK, Apart, Inserted, Deleted, On
  <2> QED
    BY <2>1, <2>2
<1> QED
  BY <1>2, <1>3, <1>4, <1>5 DEF IInv

(* Taking a lock.                                                          *)
LEMMA LockStep ==
    ASSUME IInv, NEW c \in Calls,
           \/ LockInquiry(c) \/ InsertAnswer(c) \/ CompleteStatus(c)
           \/ DeleteAnswer(c) \/ ReopenStatus(c)
    PROVE  IInv'
<1>1. ASSUME LockInquiry(c) PROVE IInv'
  <2> USE <1>1 DEF LockInquiry
  <2>1. CASE ~ Exists(On(c))
    BY <2>1, Ending
  <2>2. CASE Exists(On(c))
    <3>1. CallInv(c)'
      BY <2>2 DEF IInv, TypeOK, CallInv, Begun, KindAt, Active, Holds, Inserted, Deleted, InOrder,
          On, Exists, rows
    <3>2. ASSUME NEW d \in Calls \ {c}, On(d) = On(c) PROVE Apart(c, d)' /\ Apart(d, c)'
      BY <3>2 DEF IInv, TypeOK, Apart, Inserted, Deleted, InquiryBusy, InquiryKept, Others
    <3> QED
      BY <2>2, <3>1, <3>2, Quiet DEF PC, Active
  <2> QED
    BY <2>1, <2>2
<1>2. ASSUME InsertAnswer(c) PROVE IInv'
  <2> USE <1>2 DEF InsertAnswer
  <2>1. CASE ~ (Exists(On(c)) /\ answer[On(c)] = NoAnswer)
    BY <2>1, Ending
  <2>2. CASE Exists(On(c)) /\ answer[On(c)] = NoAnswer
    <3>1. CallInv(c)'
      BY <2>2 DEF IInv, TypeOK, CallInv, Begun, KindAt, Active, Holds, Inserted, Deleted, InOrder,
          On, Exists, rows
    <3>2. ASSUME NEW d \in Calls \ {c}, On(d) = On(c) PROVE Apart(c, d)' /\ Apart(d, c)'
      BY <3>2 DEF IInv, TypeOK, Apart, Inserted, Deleted, AnswerInserted, AnswerDeleted, Others
    <3> QED
      BY <2>2, <3>1, <3>2, Quiet DEF PC, Active
  <2> QED
    BY <2>1, <2>2
<1>3. ASSUME CompleteStatus(c) PROVE IInv'
  <2> USE <1>3 DEF CompleteStatus
  <2>1. CallInv(c)'
    BY DEF IInv, TypeOK, CallInv, Begun, KindAt, Active, Holds, Inserted, Deleted, InOrder,
        On, Exists, rows
  <2>2. ASSUME NEW d \in Calls \ {c}, On(d) = On(c) PROVE Apart(c, d)' /\ Apart(d, c)'
    BY <2>2 DEF IInv, TypeOK, Apart, Inserted, Deleted
  <2> QED
    BY <2>1, <2>2, Quiet DEF PC, Active
<1>4. ASSUME DeleteAnswer(c) PROVE IInv'
  <2> USE <1>4 DEF DeleteAnswer
  <2>1. CASE ~ HasReply(On(c), job[c].reply)
    BY <2>1, Ending
  <2>2. CASE HasReply(On(c), job[c].reply)
    <3>1. On(c) \in Inquiries /\ Exists(On(c)) /\ answer[On(c)] # NoAnswer
      BY <2>2, JobTypes DEF IInv, CallInv, Begun, Active, HasReply, StatusTellsAnswer
    <3>2. CallInv(c)'
      BY <2>2, <3>1 DEF IInv, TypeOK, CallInv, Begun, KindAt, Active, Holds, Inserted, Deleted, InOrder,
          On, Exists, HasReply, rows
    <3>3. ASSUME NEW d \in Calls \ {c}, On(d) = On(c) PROVE Apart(c, d)' /\ Apart(d, c)'
      BY <3>1, <3>3 DEF IInv, TypeOK, CallInv, Holds, Apart, Inserted, Deleted, AnswerDeleted, Others
    <3> QED
      BY <2>2, <3>2, <3>3, Quiet DEF PC, Active
  <2> QED
    BY <2>1, <2>2
<1>5. ASSUME ReopenStatus(c) PROVE IInv'
  <2> USE <1>5 DEF ReopenStatus
  <2>1. CallInv(c)'
    BY DEF IInv, TypeOK, CallInv, Begun, KindAt, Active, Holds, Inserted, Deleted, InOrder,
        On, Exists, HasReply, rows
  <2>2. ASSUME NEW d \in Calls \ {c}, On(d) = On(c) PROVE Apart(c, d)' /\ Apart(d, c)'
    BY <2>2 DEF IInv, TypeOK, Apart, Inserted, Deleted, InquiryBusy, Others
  <2> QED
    BY <2>1, <2>2, Quiet DEF PC, Active
<1> QED
  BY <1>1, <1>2, <1>3, <1>4, <1>5
--------------------------------------------------------------------------------
(* A step that writes the rows of one inquiry and ends the request.        *)
LEMMA RowStep ==
    ASSUME IInv, NEW c \in Calls, pc[c] \in Active, End(c, "done"), TypeOK', StatusTellsAnswer',
           \A i \in Inquiries \ {On(c)} : inquiry'[i] = inquiry[i] /\ answer'[i] = answer[i],
           announced' \in {announced, announced \cup {c}},
           \A d \in Calls \ {c} : On(d) = On(c) =>
               /\ Holds(d)'
               /\ pc[d] = "editing" /\ answer'[On(c)] # NoAnswer => answer'[On(c)].id \notin earlier[d]
    PROVE  IInv'
<1>1. /\ job' = job /\ earlier' = earlier /\ pc'[c] = "done"
      /\ \A d \in Calls \ {c} : pc'[d] = pc[d]
      /\ \A d \in Calls : On(d)' = On(d)
  BY DEF IInv, TypeOK, On
<1>2. CallInv(c)'
  BY <1>1 DEF IInv, CallInv, Begun, Active, Holds, Inserted, Deleted, InOrder
<1>3. ASSUME NEW d \in Calls \ {c} PROVE CallInv(d)'
  <2>1. Begun(d)'
    BY <1>1, <1>3 DEF IInv, CallInv, Begun
  <2>2. Holds(d)'
    <3>1. CASE On(d) = On(c)
      BY <3>1
    <3>2. CASE On(d) # On(c)
      <4>1. CASE pc[d] \in Active
        <5>1. On(d) \in Inquiries
          BY <4>1, JobTypes DEF IInv, CallInv, Begun
        <5> QED
          BY <1>1, <1>3, <3>2, <5>1 DEF IInv, CallInv, Holds, Inserted, Deleted, Exists, HasReply
      <4>2. CASE pc[d] \notin Active
        BY <1>1, <1>3, <4>2 DEF Holds, Inserted, Deleted, Active
      <4> QED
        BY <4>1, <4>2
    <3> QED
      BY <3>1, <3>2
  <2>3. InOrder(d)'
    <3>1. earlier[d] \subseteq announced' /\ (d \in announced' => pc[d] = "done")
      BY <1>3 DEF IInv, CallInv, InOrder
    <3>2. ASSUME pc[d] = "editing", answer'[On(d)] # NoAnswer
          PROVE  answer'[On(d)].id \notin earlier[d]
      <4>1. On(d) \in Inquiries
        BY <3>2, JobTypes DEF IInv, CallInv, Begun, Active
      <4> QED
        BY <3>2, <4>1 DEF IInv, CallInv, InOrder
    <3> QED
      BY <1>1, <1>3, <3>1, <3>2 DEF InOrder
  <2> QED
    BY <2>1, <2>2, <2>3 DEF CallInv
<1>4. ASSUME NEW x \in Calls, NEW y \in Calls, x # y, On(x) = On(y) PROVE Apart(x, y)'
  BY <1>1, <1>4 DEF IInv, Apart, Inserted, Deleted
<1> QED
  BY <1>1, <1>2, <1>3, <1>4 DEF IInv

LEMMA AskStep ==
    ASSUME IInv, NEW i \in Inquiries, Ask(i)
    PROVE  IInv'
<1> USE DEF Ask
<1>1. TypeOK' /\ StatusTellsAnswer'
  BY InquiryAssumption DEF IInv, TypeOK, StatusTellsAnswer, Exists, Asked, Texts
<1>2. ASSUME NEW c \in Calls PROVE CallInv(c)'
  <2>1. CASE pc[c] \in Active
    <3>1. On(c) \in Inquiries
      BY <2>1, JobTypes DEF IInv, CallInv, Begun
    <3>2. Exists(On(c)) => Exists(On(c))'
      BY <3>1 DEF IInv, TypeOK, Exists, On
    <3> QED
      BY <3>2 DEF IInv, CallInv, Begun, Holds, Inserted, Deleted, InOrder, On, HasReply
  <2>2. CASE pc[c] \notin Active
    BY <2>2 DEF IInv, CallInv, Begun, Holds, Inserted, Deleted, InOrder, On, Active
  <2> QED
    BY <2>1, <2>2
<1>3. ASSUME NEW c \in Calls, NEW d \in Calls, c # d, On(c) = On(d) PROVE Apart(c, d)'
  BY <1>3 DEF IInv, Apart, Inserted, Deleted
<1> QED
  BY <1>1, <1>2, <1>3 DEF IInv, On

LEMMA EditStep ==
    ASSUME IInv, NEW c \in Calls, EditInquiry(c)
    PROVE  IInv'
<1> USE DEF EditInquiry
<1>1. On(c) \in Inquiries /\ pc[c] \in Active
  BY JobTypes DEF IInv, CallInv, Begun, Active
<1>2. CASE ~ Exists(On(c))
  BY <1>2, Ending DEF rows
<1>3. CASE Exists(On(c))
  <2>1. inquiry[On(c)] \in Asked
    BY <1>1, <1>3, RowTypes DEF IInv
  <2>2. /\ inquiry'[On(c)] = [inquiry[On(c)] EXCEPT !.text = c]
        /\ inquiry'[On(c)] \in Asked
        /\ \A i \in Inquiries \ {On(c)} : inquiry'[i] = inquiry[i]
    BY <1>1, <1>3, <2>1 DEF IInv, TypeOK, Asked, Texts
  <2>3. TypeOK'
    BY <1>1, <1>3, <2>1, <2>2 DEF IInv, TypeOK, PC, Final, Asked, Texts
  <2>4. inquiry'[On(c)] \notin {Absent, Gone}
    BY <2>2, InquiryAssumption
  <2>5. inquiry'[On(c)].status = inquiry[On(c)].status
    BY <2>1, <2>2 DEF Asked
  <2>6. StatusTellsAnswer'
    <3> SUFFICES ASSUME NEW i \in Inquiries
                 PROVE  IF Exists(i)' THEN inquiry'[i].status = "CompletedAnswer" <=> answer'[i] # NoAnswer
                        ELSE answer'[i] = NoAnswer
      BY DEF StatusTellsAnswer
    <3>1. CASE i = On(c)
      BY <1>3, <2>4, <2>5, <3>1 DEF IInv, StatusTellsAnswer, Exists
    <3>2. CASE i # On(c)
      BY <2>2, <3>2 DEF IInv, StatusTellsAnswer, Exists
    <3> QED
      BY <3>1, <3>2
  <2>7. ASSUME NEW d \in Calls \ {c}, On(d) = On(c)
        PROVE  /\ Holds(d)'
               /\ pc[d] = "editing" /\ answer'[On(c)] # NoAnswer => answer'[On(c)].id \notin earlier[d]
    BY <1>3, <2>4, <2>7 DEF IInv, TypeOK, CallInv, Holds, Inserted, Deleted, InOrder, On, HasReply, Exists
  <2> QED
    BY <1>1, <1>3, <2>2, <2>3, <2>6, <2>7, RowStep
<1> QED
  BY <1>2, <1>3

LEMMA RewriteStep ==
    ASSUME IInv, NEW c \in Calls, RewriteAnswer(c)
    PROVE  IInv'
<1> USE DEF RewriteAnswer
<1>1. On(c) \in Inquiries /\ pc[c] \in Active
  BY JobTypes DEF IInv, CallInv, Begun, Active
<1>2. CASE ~ HasReply(On(c), job[c].reply)
  BY <1>2, Ending DEF rows
<1>3. CASE HasReply(On(c), job[c].reply)
  <2>1. answer[On(c)] # NoAnswer /\ answer[On(c)] \in Answered
    BY <1>1, <1>3, RowTypes DEF IInv, HasReply
  <2>2. /\ answer'[On(c)] = [answer[On(c)] EXCEPT !.text = c]
        /\ answer'[On(c)] \in Answered
        /\ answer'[On(c)].id = answer[On(c)].id
        /\ \A i \in Inquiries \ {On(c)} : answer'[i] = answer[i]
        /\ answer'[On(c)] # NoAnswer
    BY <1>1, <1>3, <2>1, InquiryAssumption DEF IInv, TypeOK, Answered, Texts
  <2>3. TypeOK'
    BY <1>1, <1>3, <2>1, <2>2 DEF IInv, TypeOK, PC, Final, Answered, Texts
  <2>4. StatusTellsAnswer'
    BY <1>1, <2>1, <2>2, <1>3 DEF IInv, StatusTellsAnswer, Exists
  <2>5. ASSUME NEW d \in Calls \ {c}, On(d) = On(c)
        PROVE  /\ Holds(d)'
               /\ pc[d] = "editing" /\ answer'[On(c)] # NoAnswer => answer'[On(c)].id \notin earlier[d]
    BY <1>3, <2>1, <2>2, <2>5 DEF IInv, TypeOK, CallInv, Holds, Inserted, Deleted, InOrder, On,
        HasReply, Exists
  <2> QED
    BY <1>1, <1>3, <2>2, <2>3, <2>4, <2>5, RowStep
<1> QED
  BY <1>2, <1>3

(* The three commits that change inquiry and answer together.              *)
LEMMA CommitReplyStep ==
    ASSUME IInv, NEW c \in Calls, CommitReply(c)
    PROVE  IInv'
<1> USE DEF CommitReply
<1>1. /\ On(c) \in Inquiries /\ pc[c] \in Active
      /\ Exists(On(c)) /\ answer[On(c)] = NoAnswer /\ inquiry[On(c)] \in Asked
  BY JobTypes, RowTypes DEF IInv, CallInv, Begun, Active, Holds, Inserted
<1>2. /\ inquiry'[On(c)] \in Asked /\ inquiry'[On(c)] \notin {Absent, Gone}
      /\ inquiry'[On(c)].status = "CompletedAnswer"
      /\ answer'[On(c)] = [id |-> c, text |-> c] /\ answer'[On(c)] # NoAnswer
      /\ \A i \in Inquiries \ {On(c)} : inquiry'[i] = inquiry[i] /\ answer'[i] = answer[i]
  BY <1>1, InquiryAssumption DEF IInv, TypeOK, Asked, Answered, Texts
<1>3. TypeOK'
  BY <1>1, <1>2 DEF IInv, TypeOK, PC, Final, Asked, Answered, Texts
<1>4. StatusTellsAnswer'
  BY <1>1, <1>2 DEF IInv, StatusTellsAnswer, Exists
<1>5. ASSUME NEW d \in Calls \ {c}, On(d) = On(c)
      PROVE  /\ Holds(d)'
             /\ pc[d] = "editing" /\ answer'[On(c)] # NoAnswer => answer'[On(c)].id \notin earlier[d]
  <2>1. ~ Inserted(d) /\ ~ Deleted(d) /\ pc[d] # "cascading"
    BY <1>5 DEF IInv, Apart, Inserted, Deleted
  <2>2. c \notin announced /\ earlier[d] \subseteq announced
    BY DEF IInv, CallInv, InOrder
  <2> QED
    BY <1>2, <2>1, <2>2 DEF IInv, TypeOK, Holds, Inserted, Deleted
<1> QED
  BY <1>1, <1>2, <1>3, <1>4, <1>5, RowStep

LEMMA CommitRetractStep ==
    ASSUME IInv, NEW c \in Calls, CommitRetract(c)
    PROVE  IInv'
<1> USE DEF CommitRetract
<1>1. /\ On(c) \in Inquiries /\ pc[c] \in Active
      /\ Exists(On(c)) /\ inquiry[On(c)] \in Asked
  BY JobTypes, RowTypes DEF IInv, CallInv, Begun, Active, Holds, Deleted
<1>2. /\ inquiry'[On(c)] \in Asked /\ inquiry'[On(c)] \notin {Absent, Gone}
      /\ inquiry'[On(c)].status = "WaitingAnswer"
      /\ answer'[On(c)] = NoAnswer
      /\ \A i \in Inquiries \ {On(c)} : inquiry'[i] = inquiry[i] /\ answer'[i] = answer[i]
  BY <1>1, InquiryAssumption DEF IInv, TypeOK, Asked, Answered, Texts
<1>3. TypeOK'
  BY <1>1, <1>2 DEF IInv, TypeOK, PC, Final, Asked, Answered, Texts
<1>4. StatusTellsAnswer'
  BY <1>1, <1>2 DEF IInv, StatusTellsAnswer, Exists
<1>5. ASSUME NEW d \in Calls \ {c}, On(d) = On(c)
      PROVE  Holds(d)'
  <2>1. ~ Inserted(d) /\ ~ Deleted(d) /\ pc[d] # "cascading"
    BY <1>5 DEF IInv, Apart, Inserted, Deleted
  <2> QED
    BY <2>1 DEF IInv, TypeOK, Holds, Inserted, Deleted
<1> QED
  BY <1>1, <1>2, <1>3, <1>4, <1>5, RowStep

LEMMA RemoveStep ==
    ASSUME IInv, NEW c \in Calls, RemoveInquiry(c)
    PROVE  IInv'
<1> USE DEF RemoveInquiry
<1>1. On(c) \in Inquiries /\ pc[c] \in Active
  BY JobTypes DEF IInv, CallInv, Begun, Active
<1>2. /\ inquiry'[On(c)] = Gone /\ answer'[On(c)] = NoAnswer
      /\ \A i \in Inquiries \ {On(c)} : inquiry'[i] = inquiry[i] /\ answer'[i] = answer[i]
  BY <1>1 DEF IInv, TypeOK
<1>3. TypeOK'
  BY <1>1 DEF IInv, TypeOK, PC, Final
<1>4. StatusTellsAnswer'
  BY <1>1, <1>2 DEF IInv, StatusTellsAnswer, Exists
<1>5. ASSUME NEW d \in Calls \ {c}, On(d) = On(c)
      PROVE  Holds(d)'
  <2>1. ~ Inserted(d) /\ ~ Deleted(d) /\ pc[d] # "cascading"
    BY <1>5 DEF IInv, Apart, Inserted, Deleted, AnswerDeleted, Others
  <2> QED
    BY <2>1 DEF IInv, TypeOK, Holds, Inserted, Deleted
<1> QED
  BY <1>1, <1>2, <1>3, <1>4, <1>5, RowStep

LEMMA StepInv ==
    ASSUME IInv, [Next]_vars
    PROVE  IInv'
<1>1. ASSUME UNCHANGED vars PROVE IInv'
  BY <1>1 DEF vars, rows, IInv, TypeOK, StatusTellsAnswer, Exists, CallInv, Begun, Holds, InOrder,
      Inserted, Deleted, On, HasReply, Apart
<1>2. ASSUME NEW c \in Calls, DeadlockAbort(c) \/ Fail(c)
      PROVE  IInv'
  BY <1>2, Ending DEF DeadlockAbort, Fail, Active
<1>3. ASSUME NEW c \in Calls, Proceed(c)
      PROVE  IInv'
  BY <1>2, <1>3, EditStep, LockStep, RemoveStep, CommitReplyStep, RewriteStep, CommitRetractStep DEF Proceed
<1> QED
  BY <1>1, <1>2, <1>3, AskStep, BeginStep DEF Next, Rest

LEMMA Invariance == Spec => []IInv
<1>1. Init => IInv
  BY InitInv
<1>2. IInv /\ [Next]_vars => IInv'
  BY StepInv
<1> QED
  BY <1>1, <1>2, PTL DEF Spec

(* The variables have their types.                                         *)
THEOREM TypeCorrect == Spec => []TypeOK
<1>1. IInv => TypeOK
  BY DEF IInv
<1> QED
  BY <1>1, Invariance, PTL

(* An inquiry is marked as answered exactly if it has an answer, and an     *)
(* answer has an inquiry, whatever replies and deletions cross              *)
(* (inquiry.repository.ts:113-171, 204-228).                                *)
THEOREM StatusMatchesAnswer == Spec => []StatusTellsAnswer
<1>1. IInv => StatusTellsAnswer
  BY DEF IInv
<1> QED
  BY <1>1, Invariance, PTL

(* An edit that goes through to an answered inquiry was let in before the   *)
(* answer was given (inquiry.service.ts:73).                                *)
THEOREM EditsOvertakeOnly == Spec => EditsOnlyOvertake
<1> DEFINE Overtakes ==
        \A i \in Inquiries, c \in Calls :
            pc[c] = "editing" /\ pc'[c] = "done" /\ On(c) = i /\ answer[i] # NoAnswer
            => answer[i].id \notin earlier[c]
<1>1. IInv /\ [Next]_vars => [Overtakes]_vars
  BY DEF IInv, CallInv, InOrder
<1> QED
  BY <1>1, Invariance, PTL DEF Spec, EditsOnlyOvertake

--------------------------------------------------------------------------------
(* Which step of Thread the requests' steps are.                            *)
LEMMA WritesAreConversation ==
    ASSUME IInv, NEW c \in Calls,
           EditInquiry(c) \/ RewriteAnswer(c) \/ CommitReply(c) \/ CommitRetract(c) \/ RemoveInquiry(c)
    PROVE  Conversation!Next \/ UNCHANGED rows
<1>1. On(c) \in Inquiries /\ c \in Texts
  BY JobTypes DEF IInv, CallInv, Begun, Active, EditInquiry, RewriteAnswer, CommitReply, CommitRetract,
      RemoveInquiry, Texts
<1>2. CASE EditInquiry(c)
  <2>1. Conversation!Edit(On(c), c) \/ UNCHANGED rows
    BY <1>2 DEF EditInquiry, Conversation!Edit, Exists, rows
  <2> QED
    BY <1>1, <2>1 DEF Conversation!Next, Conversation!Edit
<1>3. CASE RewriteAnswer(c)
  <2>1. Conversation!Rewrite(On(c), c) \/ UNCHANGED rows
    BY <1>3 DEF RewriteAnswer, Conversation!Rewrite, HasReply, rows
  <2> QED
    BY <1>1, <2>1 DEF Conversation!Next, Conversation!Rewrite
<1>4. CASE CommitReply(c)
  <2>1. Exists(On(c)) /\ answer[On(c)] = NoAnswer /\ inquiry[On(c)] \in Asked
    BY <1>1, <1>4, RowTypes DEF CommitReply, IInv, CallInv, Holds, Inserted
  <2>2. inquiry[On(c)].status = "WaitingAnswer"
    BY <1>1, <2>1 DEF IInv, StatusTellsAnswer, Asked
  <2>3. Conversation!Answer(On(c), c, c)
    BY <1>4, <2>1, <2>2 DEF CommitReply, Conversation!Answer, Exists
  <2> QED
    BY <1>1, <2>3 DEF Conversation!Next, Conversation!Answer
<1>5. CASE CommitRetract(c)
  <2>1. Exists(On(c)) /\ answer[On(c)] # NoAnswer
    BY <1>5 DEF CommitRetract, IInv, CallInv, Holds, Deleted, HasReply
  <2>2. inquiry[On(c)].status = "CompletedAnswer"
    BY <1>1, <2>1 DEF IInv, StatusTellsAnswer
  <2>3. Conversation!Retract(On(c))
    BY <1>5, <2>1, <2>2 DEF CommitRetract, Conversation!Retract, Exists
  <2> QED
    BY <1>1, <2>3 DEF Conversation!Next, Conversation!Retract
<1>6. CASE RemoveInquiry(c)
  <2>1. Exists(On(c))
    BY <1>6 DEF RemoveInquiry, IInv, CallInv, Holds
  <2>2. Conversation!Remove(On(c))
    BY <1>6, <2>1 DEF RemoveInquiry, Conversation!Remove, Exists
  <2> QED
    BY <1>1, <2>2 DEF Conversation!Next, Conversation!Remove
<1> QED
  BY <1>2, <1>3, <1>4, <1>5, <1>6

LEMMA StepIsConversation ==
    ASSUME IInv, [Next]_vars
    PROVE  [Conversation!Next]_rows
<1>1. ASSUME NEW i \in Inquiries, Ask(i)
      PROVE  Conversation!Next
  <2>1. Conversation!Ask(i, First) /\ First \in Texts
    BY <1>1 DEF Ask, Conversation!Ask, Texts
  <2> QED
    BY <2>1 DEF Conversation!Next, Conversation!Ask
<1>2. ASSUME NEW c \in Calls,
             \/ BeginEdit(c) \/ BeginRemove(c) \/ BeginReply(c) \/ BeginRewrite(c) \/ BeginRetract(c)
             \/ LockInquiry(c) \/ InsertAnswer(c) \/ CompleteStatus(c) \/ DeleteAnswer(c)
             \/ ReopenStatus(c) \/ DeadlockAbort(c) \/ Fail(c)
      PROVE  UNCHANGED rows
  BY <1>2 DEF BeginEdit, BeginRemove, BeginReply, BeginRewrite, BeginRetract, Begin, LockInquiry,
      InsertAnswer, CompleteStatus, DeleteAnswer, ReopenStatus, DeadlockAbort, Fail
<1>3. ASSUME UNCHANGED vars PROVE UNCHANGED rows
  BY <1>3 DEF vars
<1> QED
  BY <1>1, <1>2, <1>3, WritesAreConversation DEF Next, Rest, Proceed

(* Inquiry implements Thread: inquiry and answer change together, and a     *)
(* reply is announced with the step that gives it.                          *)
THEOREM InquiryChangesTogether == Spec => ChangesTogether
<1>1. Init => Conversation!Init
  BY DEF Init, Conversation!Init
<1>2. IInv /\ [Next]_vars => [Conversation!Next]_rows
  BY StepIsConversation
<1> QED
  BY <1>1, <1>2, Invariance, PTL DEF Spec, ChangesTogether, Conversation!Spec, Conversation!vars, rows

--------------------------------------------------------------------------------
(***************************************************************************)
(* A theorem about Feed, for any set of requests, polls and notifications. *)
(* Feed shares no variable with Inquiry, and nothing below is about both.  *)
(***************************************************************************)
(* An alarm that was sent has been written, and one that is over stays so. *)
Over(a) == alarm[a] \in {"read", "gone"}
Written(a) == alarm[a] = "unread" \/ Over(a)

Slots == /\ alarm \in [Alarms -> {"none", "unread", "read", "gone"}]
         /\ poll \in [Polls -> [at : {"free", "typing", "listing", "answering"}, list : SUBSET Alarms]]
         /\ current \in Polls \cup {NoPoll}
         /\ event \subseteq Allowed /\ cleared \subseteq Alarms

(* The list that is to be sent next has all that is unread of what was     *)
(* sent last, and nothing that was cleared.                                *)
Follows(list) ==
    /\ list \subseteq Allowed /\ list \cap cleared = {}
    /\ \A a \in list : Written(a)
    /\ \A a \in event \ list : Over(a)

StreamInv ==
    /\ Slots
    /\ event \cap cleared = {}
    /\ \A a \in event : Written(a)
    /\ \A a \in cleared : Over(a)
    /\ current # NoPoll /\ poll[current].at = "answering" => Follows(poll[current].list)

USE DEF requests, polling, feedVars, Free, There, Unread

(* A step that sends nothing and reads no list keeps the invariant, as     *)
(* alarms go from unread to over and never back.                           *)
LEMMA AlarmsGoOn ==
    ASSUME StreamInv, Slots', event' = event, cleared' = cleared,
           \A a \in Alarms : (Written(a) => Written(a)') /\ (Over(a) => Over(a)'),
           current' # NoPoll /\ poll'[current'].at = "answering" =>
               current' = current /\ poll'[current'] = poll[current]
    PROVE  StreamInv'
BY FeedAssumption DEF StreamInv, Follows, Slots

LEMMA StreamStep ==
    ASSUME StreamInv, [FeedNext]_feedVars
    PROVE  StreamInv'
<1> USE FeedAssumption
<1>1. ASSUME NEW a \in Alarms, Notify(a) PROVE StreamInv'
  <2>1. Slots' /\ \A b \in Alarms : (Written(b) => Written(b)') /\ (Over(b) => Over(b)')
    BY <1>1 DEF Notify, StreamInv, Slots, Written, Over
  <2> QED
    BY <1>1, <2>1, AlarmsGoOn DEF Notify
<1>2. ASSUME NEW c \in Checks,
             BeginCheck(c) \/ FindType(c) \/ MarkRead(c) \/ FailCheck(c)
      PROVE  StreamInv'
  <2>1. Slots' /\ \A b \in Alarms : (Written(b) => Written(b)') /\ (Over(b) => Over(b)')
    BY <1>2 DEF BeginCheck, FindType, MarkRead, FailCheck,
                StreamInv, Slots, Written, Over
  <2> QED
    BY <1>2, <2>1, AlarmsGoOn DEF BeginCheck, FindType, MarkRead, FailCheck
<1>3. CASE RemoveUser
  <2>1. Slots' /\ \A b \in Alarms : (Written(b) => Written(b)') /\ (Over(b) => Over(b)')
    BY <1>3 DEF RemoveUser, StreamInv, Slots, Written, Over
  <2> QED
    BY <1>3, <2>1, AlarmsGoOn DEF RemoveUser
<1>4. CASE Subscribe \/ Tick \/ Close
  <2>1. Slots' /\ (current' # NoPoll => poll'[current'].at # "answering")
    BY <1>4 DEF Subscribe, Tick, Close, StartPoll, StreamInv, Slots
  <2>2. event' = event /\ cleared' = cleared /\ alarm' = alarm
    BY <1>4 DEF Subscribe, Tick, Close
  <2> QED
    BY <2>1, <2>2, AlarmsGoOn DEF Written, Over
<1>5. ASSUME NEW p \in Polls, FailPoll(p) \/ PollType(p) PROVE StreamInv'
  <2>1. Slots' /\ event' = event /\ cleared' = cleared /\ alarm' = alarm
    BY <1>5 DEF FailPoll, PollType, Break, StreamInv, Slots
  <2>2. current' # NoPoll /\ poll'[current'].at = "answering" =>
            current' = current /\ poll'[current'] = poll[current]
    BY <1>5 DEF FailPoll, PollType, Break, StreamInv, Slots
  <2> QED
    BY <2>1, <2>2, AlarmsGoOn DEF Written, Over
<1>6. ASSUME NEW p \in Polls, PollList(p) PROVE StreamInv'
  <2>1. Slots'
    BY <1>6 DEF PollList, StreamInv, Slots
  <2>2. CASE p = current
    <3>1. Follows(Unread \cap Allowed)
      BY DEF StreamInv, Slots, Follows, Written, Over
    <3> QED
      BY <1>6, <2>1, <2>2, <3>1 DEF PollList, StreamInv, Slots, Follows, Written, Over
  <2>3. CASE p # current
    BY <1>6, <2>1, <2>3, AlarmsGoOn DEF PollList, StreamInv, Slots, Written, Over
  <2> QED
    BY <2>2, <2>3
<1>7. ASSUME NEW p \in Polls, Answer(p) PROVE StreamInv'
  <2>1. CASE p = current
    <3>1. Follows(poll[p].list) /\ p # NoPoll
      BY <1>7, <2>1 DEF Answer, StreamInv
    <3>2. Slots'
      BY <1>7, <2>1, <3>1 DEF Answer, Sent, StreamInv, Slots, Follows
    <3> QED
      BY <1>7, <2>1, <3>1, <3>2 DEF Answer, Sent, StreamInv, Follows, Written, Over
  <2>2. CASE p # current
    <3>1. Slots'
      BY <1>7, <2>2 DEF Answer, StreamInv, Slots
    <3> QED
      BY <1>7, <2>2, <3>1, AlarmsGoOn DEF Answer, StreamInv, Slots, Written, Over
  <2> QED
    BY <2>1, <2>2
<1>8. CASE UNCHANGED feedVars
  BY <1>8 DEF StreamInv, Slots, Follows, Written, Over
<1> QED
  BY <1>1, <1>2, <1>3, <1>4, <1>5, <1>6, <1>7, <1>8 DEF FeedNext, Poll, FeedRest

(* A notification that was in an event and not in a later one never comes   *)
(* back, though polls overtake each other, streams are opened again and     *)
(* reads cross them (notifications.controller.ts:38-44).                    *)
THEOREM NothingOldIsSentAgain == FeedSpec => []NothingComesBack
<1>1. FeedInit => StreamInv
  BY FeedAssumption DEF FeedInit, StreamInv, Slots
<1>2. StreamInv => NothingComesBack
  BY DEF StreamInv, NothingComesBack
<1>3. StreamInv /\ [FeedNext]_feedVars => StreamInv'
  BY StreamStep
<1> QED
  BY <1>1, <1>2, <1>3, PTL DEF FeedSpec
================================================================================
