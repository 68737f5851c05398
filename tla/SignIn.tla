--------------------------------- MODULE SignIn ---------------------------------
(***************************************************************************)
(* What accounts and sessions promise: a profile changes field by field, a *)
(* session is opened for an account that is there, its token is replaced by*)
(* the one that presents it, and it ends with the account or with a logout *)
(* of it, for good.  Accounts implements it.                               *)
(***************************************************************************)
CONSTANTS Emails, Ids, Fields, Nobody, Absent

VARIABLES
    user,       \* email -> [id, profile], or Nobody
    session     \* id -> [user, token, state], or Absent before it is opened

vars == <<user, session>>

Init ==
    /\ user \in [Emails -> [id : Ids, profile : [Fields -> Ids]] \cup {Nobody}]
    /\ session \in [Ids -> [user : Ids, token : Ids, state : {"valid"}] \cup {Absent}]

Registered(u) == \E e \in Emails : user[e] # Nobody /\ user[e].id = u

Register(e, u) ==
    /\ user[e] = Nobody /\ ~ Registered(u)
    /\ user' = [user EXCEPT ![e] = [id |-> u, profile |-> [f \in Fields |-> u]]]
    /\ UNCHANGED session

Change(e, sent, value) ==
    /\ user[e] # Nobody
    /\ user' = [user EXCEPT ![e].profile =
                   [f \in Fields |-> IF f \in sent THEN value ELSE user[e].profile[f]]]
    /\ UNCHANGED session

Closed(u) ==
    [s \in Ids |-> IF session[s] # Absent /\ session[s].user = u
                   THEN [session[s] EXCEPT !.state = "deleted"]
                   ELSE session[s]]

Leave(e) ==
    /\ user[e] # Nobody
    /\ user' = [user EXCEPT ![e] = Nobody]
    /\ session' = Closed(user[e].id)

Open(s, u) ==
    /\ session[s] = Absent /\ Registered(u)
    /\ session' = [session EXCEPT ![s] = [user |-> u, token |-> s, state |-> "valid"]]
    /\ UNCHANGED user

Renew(s, token) ==
    /\ session[s] # Absent /\ session[s].state # "deleted"
    /\ \A r \in Ids : session[r] # Absent => session[r].token # token
    /\ session' = [session EXCEPT ![s].token = token, ![s].state = "valid"]
    /\ UNCHANGED user

Expire(s) ==
    /\ session[s] # Absent /\ session[s].state = "valid"
    /\ session' = [session EXCEPT ![s].state = "expired"]
    /\ UNCHANGED user

Logout(u) ==
    /\ session' = Closed(u)
    /\ UNCHANGED user

Next ==
    \/ \E e \in Emails, u \in Ids : Register(e, u)
    \/ \E e \in Emails, sent \in SUBSET Fields, value \in Ids : Change(e, sent, value)
    \/ \E e \in Emails : Leave(e)
    \/ \E s \in Ids, u \in Ids : Open(s, u) \/ Renew(s, u)
    \/ \E s \in Ids : Expire(s)
    \/ \E u \in Ids : Logout(u)

Spec == Init /\ [][Next]_vars
================================================================================
