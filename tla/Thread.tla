--------------------------------- MODULE Thread ---------------------------------
(***************************************************************************)
(* What the inquiries promise: an inquiry and its answer change together.  *)
(* It is marked as answered in the step that gives it an answer and        *)
(* announces it, and as waiting in the step that takes the answer away; it *)
(* goes together with its answer, and for good.  Inquiry implements it.    *)
(***************************************************************************)
CONSTANTS Inquiries, Replies, Texts, Absent, Gone, NoAnswer

VARIABLES
    inquiry,    \* id -> [status, text], or Absent before and Gone after
    answer,     \* id -> [id, text], or NoAnswer
    announced   \* the replies the asker was notified of

vars == <<inquiry, answer, announced>>

Init ==
    /\ inquiry = [i \in Inquiries |-> Absent]
    /\ answer = [i \in Inquiries |-> NoAnswer]
    /\ announced = {}

Ask(i, t) ==
    /\ inquiry[i] = Absent
    /\ inquiry' = [inquiry EXCEPT ![i] = [status |-> "WaitingAnswer", text |-> t]]
    /\ UNCHANGED <<answer, announced>>

Edit(i, t) ==
    /\ inquiry[i] \notin {Absent, Gone}
    /\ inquiry' = [inquiry EXCEPT ![i].text = t]
    /\ UNCHANGED <<answer, announced>>

Answer(i, r, t) ==
    /\ inquiry[i] \notin {Absent, Gone} /\ inquiry[i].status = "WaitingAnswer"
    /\ answer[i] = NoAnswer
    /\ inquiry' = [inquiry EXCEPT ![i].status = "CompletedAnswer"]
    /\ answer' = [answer EXCEPT ![i] = [id |-> r, text |-> t]]
    /\ announced' = announced \cup {r}

Rewrite(i, t) ==
    /\ answer[i] # NoAnswer
    /\ answer' = [answer EXCEPT ![i].text = t]
    /\ UNCHANGED <<inquiry, announced>>

Retract(i) ==
    /\ inquiry[i] \notin {Absent, Gone} /\ inquiry[i].status = "CompletedAnswer"
    /\ answer[i] # NoAnswer
    /\ inquiry' = [inquiry EXCEPT ![i].status = "WaitingAnswer"]
    /\ answer' = [answer EXCEPT ![i] = NoAnswer]
    /\ UNCHANGED announced

Remove(i) ==
    /\ inquiry[i] \notin {Absent, Gone}
    /\ inquiry' = [inquiry EXCEPT ![i] = Gone]
    /\ answer' = [answer EXCEPT ![i] = NoAnswer]
    /\ UNCHANGED announced

Next ==
    \E i \in Inquiries :
        \/ \E t \in Texts : Ask(i, t) \/ Edit(i, t) \/ Rewrite(i, t)
        \/ \E r \in Replies, t \in Texts : Answer(i, r, t)
        \/ Retract(i)
        \/ Remove(i)

Spec == Init /\ [][Next]_vars
================================================================================
