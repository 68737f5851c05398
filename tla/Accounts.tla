-------------------------------- MODULE Accounts --------------------------------
(***************************************************************************)
(* Accounts and sessions (src/users, src/auth) under concurrent requests:  *)
(* sign-up, change of the profile, removal, login, token refresh, logout.  *)
(*                                                                         *)
(* A step is one await, and every statement is a transaction of its own.   *)
(* Ids of accounts and sessions, tokens and the values of fields are the   *)
(* request that made them, or First.  A deleted session keeps its row here,*)
(* so that its last token can be told.  Whether a password that is sent is *)
(* the right one is a free choice.                                         *)
(***************************************************************************)
CONSTANTS
    Calls, First,       \* requests; what made the account there is at first
    Emails,             \* addresses in lower case
    Spellings,          \* addresses as they are typed
    Lower,              \* Spellings -> Emails: toLowerCase
    Browsers, Fields,
    Nobody, Absent, NoCookie, NoJob

Ids == Calls \cup {First}
User == [id : Ids, profile : [Fields -> Ids]]
Session == [user : Ids, token : Ids, state : {"valid", "expired", "deleted"}]
SignUp == [kind : {"signup"}, email : Spellings]
Update == [kind : {"update"}, user : Ids, sent : SUBSET Fields]
Remove == [kind : {"remove"}, user : Ids]
Logout == [kind : {"logout"}, user : Ids, browser : Browsers]
Login == [kind : {"login"}, email : Spellings, browser : Browsers]
Refresh == [kind : {"refresh"}, token : Ids \cup {NoCookie}, browser : Browsers]
Job == SignUp \cup Update \cup Remove \cup Logout \cup Login \cup Refresh

ASSUME AccountsAssumption ==
    /\ First \notin Calls
    /\ Emails \subseteq Spellings /\ Lower \in [Spellings -> Emails]
    /\ \A e \in Emails : Lower[e] = e
    /\ Nobody \notin User /\ Absent \notin Session
    /\ NoCookie \notin Ids /\ NoJob \notin Job

VARIABLES
    pc, job,
    found,      \* the account a login or a refresh has read
    earlier,    \* history: the sessions there were when a logout came
    user,       \* email -> row, or Nobody
    session,    \* id -> row, or Absent before it is opened
    cookie      \* browser -> refresh token, or NoCookie

rows == <<user, session>>
vars == <<pc, job, found, earlier, rows, cookie>>

Final == {"done", "rejected", "failed", "lost"}
Told == {"answered", "done", "lost"}
Active == {"registering", "updating", "writing", "removing", "deleting", "leaving",
           "opening", "looking", "owning", "discarding", "rotating"}
PC == {"idle", "answered"} \cup Active \cup Final

HasId(e, u) == user[e] # Nobody /\ user[e].id = u
Registered(u) == \E e \in Emails : HasId(e, u)
HasToken(s, t) == session[s] # Absent /\ session[s].state # "deleted" /\ session[s].token = t

Init ==
    /\ pc = [c \in Calls |-> "idle"]
    /\ job = [c \in Calls |-> NoJob]
    /\ found = [c \in Calls |-> First]
    /\ earlier = [c \in Calls |-> {}]
    /\ \E home \in Emails :
          user = [e \in Emails |-> IF e = home
                                   THEN [id |-> First, profile |-> [f \in Fields |-> First]]
                                   ELSE Nobody]
    /\ session = [s \in Ids |-> IF s = First
                                THEN [user |-> First, token |-> First, state |-> "valid"]
                                ELSE Absent]
    /\ \E b \in Browsers : cookie = [x \in Browsers |-> IF x = b THEN First ELSE NoCookie]

Goto(c, label) == pc' = [pc EXCEPT ![c] = label]
Step(c, label) == Goto(c, label) /\ UNCHANGED <<job, found, earlier, cookie>>

Begin(c, j, label) ==
    /\ pc[c] = "idle"
    /\ Goto(c, label)
    /\ job' = [job EXCEPT ![c] = j]
    /\ UNCHANGED <<found, earlier, rows, cookie>>

--------------------------------------------------------------------------------
(* create: only here the address is put into lower case.                    *)
BeginSignUp(c) ==
    \E a \in Spellings :
        Begin(c, [kind |-> "signup", email |-> a],
              IF user[Lower[a]] = Nobody THEN "registering" ELSE "rejected")

(* The unique key on the address decides between two that found it free.    *)
Register(c) ==
    LET e == Lower[job[c].email] IN
    /\ pc[c] = "registering"
    /\ IF user[e] = Nobody
       THEN Step(c, "done") /\
            user' = [user EXCEPT ![e] = [id |-> c, profile |-> [f \in Fields |-> c]]]
       ELSE Step(c, "failed") /\ UNCHANGED user
    /\ UNCHANGED session

--------------------------------------------------------------------------------
(* An access token names an account, and outlives it.  It is had from the   *)
(* answer to a login or a refresh.                                          *)
HasAccess(u) ==
    \/ u = First
    \/ \E d \in Calls : /\ pc[d] = "done" /\ found[d] = u
                        /\ job[d].kind \in {"login", "refresh"}

(* JwtStrategy.validate reads the account before the handler runs.          *)
Guarded(u, label) == IF Registered(u) THEN label ELSE "rejected"

BeginUpdate(c) ==
    \E u \in Ids, sent \in SUBSET Fields :
        /\ HasAccess(u)
        /\ Begin(c, [kind |-> "update", user |-> u, sent |-> sent], Guarded(u, "updating"))

(* findById, then the comparison with currentPassword.                      *)
CheckPassword(c) ==
    /\ pc[c] = "updating"
    /\ \E right \in BOOLEAN :
          Step(c, IF Registered(job[c].user) /\ right THEN "writing" ELSE "rejected")
    /\ UNCHANGED rows

(* updateById with the fields that were sent.                               *)
WriteProfile(c) ==
    /\ pc[c] = "writing"
    /\ Step(c, IF Registered(job[c].user) THEN "done" ELSE "failed")
    /\ user' = [e \in Emails |->
                   IF HasId(e, job[c].user)
                   THEN [user[e] EXCEPT !.profile =
                           [f \in Fields |-> IF f \in job[c].sent THEN c ELSE @[f]]]
                   ELSE user[e]]
    /\ UNCHANGED session

(* The sessions of an account, deleted.                                     *)
Closed(u) ==
    [s \in Ids |-> IF session[s] # Absent /\ session[s].user = u
                   THEN [session[s] EXCEPT !.state = "deleted"]
                   ELSE session[s]]

BeginRemove(c) ==
    \E u \in Ids :
        HasAccess(u) /\ Begin(c, [kind |-> "remove", user |-> u], Guarded(u, "removing"))

FindSelf(c) ==
    /\ pc[c] = "removing"
    /\ Step(c, IF Registered(job[c].user) THEN "deleting" ELSE "rejected")
    /\ UNCHANGED rows

(* deleteById cascades to the sessions.                                     *)
DeleteUser(c) ==
    /\ pc[c] = "deleting"
    /\ Step(c, IF Registered(job[c].user) THEN "done" ELSE "failed")
    /\ user' = [e \in Emails |-> IF HasId(e, job[c].user) THEN Nobody ELSE user[e]]
    /\ session' = IF Registered(job[c].user) THEN Closed(job[c].user) ELSE session

BeginLogout(c) ==
    \E u \in Ids, b \in Browsers :
        /\ pc[c] = "idle" /\ HasAccess(u)
        /\ Goto(c, Guarded(u, "leaving"))
        /\ job' = [job EXCEPT ![c] = [kind |-> "logout", user |-> u, browser |-> b]]
        /\ earlier' = [earlier EXCEPT ![c] = {s \in Ids : session[s] # Absent}]
        /\ UNCHANGED <<found, rows, cookie>>

(* Mutant of DeleteSessions: only the session whose token is in the cookie. *)
DeleteOwnSession(c) ==
    /\ pc[c] = "leaving"
    /\ Step(c, "answered")
    /\ session' = [s \in Ids |-> IF HasToken(s, cookie[job[c].browser])
                                 THEN [session[s] EXCEPT !.state = "deleted"]
                                 ELSE session[s]]
    /\ UNCHANGED user

DeleteSessions(c) ==
    /\ pc[c] = "leaving"
    /\ Step(c, "answered")
    /\ session' = Closed(job[c].user)
    /\ UNCHANGED user

--------------------------------------------------------------------------------
(* login looks the address up as it is typed.                               *)
BeginLogin(c) ==
    \E a \in Spellings, b \in Browsers, right \in BOOLEAN :
        LET known == a \in Emails /\ user[a] # Nobody /\ right IN
        /\ pc[c] = "idle"
        /\ Goto(c, IF known THEN "opening" ELSE "rejected")
        /\ job' = [job EXCEPT ![c] = [kind |-> "login", email |-> a, browser |-> b]]
        /\ found' = IF known THEN [found EXCEPT ![c] = user[a].id] ELSE found
        /\ UNCHANGED <<earlier, rows, cookie>>

(* issueTokens: the insert needs the account it refers to.                  *)
OpenSession(c) ==
    /\ pc[c] = "opening"
    /\ IF Registered(found[c])
       THEN Step(c, "answered") /\
            session' = [session EXCEPT ![c] = [user |-> found[c], token |-> c, state |-> "valid"]]
       ELSE Step(c, "failed") /\ UNCHANGED session
    /\ UNCHANGED user

--------------------------------------------------------------------------------
BeginRefresh(c) ==
    \E b \in Browsers :
        Begin(c, [kind |-> "refresh", token |-> cookie[b], browser |-> b],
              IF cookie[b] = NoCookie THEN "rejected" ELSE "looking")

FindSession(c) ==
    /\ pc[c] = "looking"
    /\ \/ \E s \in Ids :
             /\ HasToken(s, job[c].token) /\ session[s].state = "valid"
             /\ Goto(c, "owning")
             /\ found' = [found EXCEPT ![c] = session[s].user]
       \/ /\ \A s \in Ids : HasToken(s, job[c].token) => session[s].state # "valid"
          /\ Goto(c, "rejected")
          /\ UNCHANGED found
    /\ UNCHANGED <<job, earlier, rows, cookie>>

FindOwner(c) ==
    /\ pc[c] = "owning"
    /\ Step(c, IF Registered(found[c]) THEN "rotating" ELSE "discarding")
    /\ UNCHANGED rows

(* session.delete by token, which fails if the row has gone with its user.  *)
Discard(c) ==
    /\ pc[c] = "discarding"
    /\ Step(c, IF \E s \in Ids : HasToken(s, job[c].token) THEN "rejected" ELSE "failed")
    /\ session' = [s \in Ids |-> IF HasToken(s, job[c].token)
                                 THEN [session[s] EXCEPT !.state = "deleted"]
                                 ELSE session[s]]
    /\ UNCHANGED user

(* Mutant of Rotate: the row is addressed by its account.                   *)
RotateByUser(c) ==
    /\ pc[c] = "rotating"
    /\ \E s \in Ids :
          /\ session[s] # Absent /\ session[s].state # "deleted" /\ session[s].user = found[c]
          /\ Step(c, "answered")
          /\ session' = [session EXCEPT ![s].token = c, ![s].state = "valid"]
    /\ UNCHANGED user

(* Mutant of Rotate: a row that has gone is made again.                     *)
RotateOrCreate(c) ==
    /\ pc[c] = "rotating"
    /\ Step(c, "answered")
    /\ session' = [s \in Ids |-> IF session[s] # Absent /\ session[s].token = job[c].token
                                 THEN [session[s] EXCEPT !.token = c, !.state = "valid"]
                                 ELSE session[s]]
    /\ UNCHANGED user

(* session.update by token: a new token, and a new time to live.            *)
Rotate(c) ==
    /\ pc[c] = "rotating"
    /\ Step(c, IF \E s \in Ids : HasToken(s, job[c].token) THEN "answered" ELSE "failed")
    /\ session' = [s \in Ids |-> IF HasToken(s, job[c].token)
                                 THEN [session[s] EXCEPT !.token = c, !.state = "valid"]
                                 ELSE session[s]]
    /\ UNCHANGED user

--------------------------------------------------------------------------------
(* Mutant of Receive: the token that was presented is set again.            *)
ReceiveOldToken(c) ==
    /\ pc[c] = "answered"
    /\ Goto(c, "done")
    /\ cookie' = [cookie EXCEPT ![job[c].browser] =
                     CASE job[c].kind = "logout" -> NoCookie
                       [] job[c].kind = "login" -> c
                       [] job[c].kind = "refresh" -> job[c].token]
    /\ UNCHANGED <<job, found, earlier, rows>>

(* The answer reaches the browser, which sets or clears its cookie.         *)
Receive(c) ==
    /\ pc[c] = "answered"
    /\ Goto(c, "done")
    /\ cookie' = [cookie EXCEPT ![job[c].browser] =
                     IF job[c].kind = "logout" THEN NoCookie ELSE c]
    /\ UNCHANGED <<job, found, earlier, rows>>

(* The answer is lost, or the process that was about to give it.            *)
Lose(c) == pc[c] = "answered" /\ Step(c, "lost") /\ UNCHANGED rows

Fail(c) == pc[c] \in Active /\ Step(c, "failed") /\ UNCHANGED rows

Expire(s) ==
    /\ session[s] # Absent /\ session[s].state = "valid"
    /\ session' = [session EXCEPT ![s].state = "expired"]
    /\ UNCHANGED <<pc, job, found, earlier, user, cookie>>

Handle(c) ==
    \/ Register(c)
    \/ CheckPassword(c)
    \/ WriteProfile(c)
    \/ FindSelf(c)
    \/ DeleteUser(c)
    \/ DeleteSessions(c)
    \/ OpenSession(c)
    \/ FindSession(c)
    \/ FindOwner(c)
    \/ Discard(c)
    \/ Rotate(c)

Rest == (\A c \in Calls : pc[c] \in Final) /\ UNCHANGED vars

Next ==
    \/ \E c \in Calls :
        \/ BeginSignUp(c)
        \/ BeginUpdate(c)
        \/ BeginRemove(c)
        \/ BeginLogout(c)
        \/ BeginLogin(c)
        \/ BeginRefresh(c)
        \/ Handle(c)
        \/ Receive(c)
        \/ Lose(c)
        \/ Fail(c)
    \/ \E s \in Ids : Expire(s)
    \/ Rest

Spec == Init /\ [][Next]_vars

--------------------------------------------------------------------------------
TypeOK ==
    /\ pc \in [Calls -> PC]
    /\ job \in [Calls -> Job \cup {NoJob}]
    /\ found \in [Calls -> Ids]
    /\ earlier \in [Calls -> SUBSET Ids]
    /\ user \in [Emails -> User \cup {Nobody}]
    /\ session \in [Ids -> Session \cup {Absent}]
    /\ cookie \in [Browsers -> Ids \cup {NoCookie}]

Rotated(c) == pc[c] \in Told /\ job[c].kind = "refresh"

(* Of the requests that present one refresh token at most one gets a new    *)
(* one, however their lookups and updates cross (auth.service.ts:114, 134). *)
OneRotationPerToken ==
    \A c, d \in Calls :
        Rotated(c) /\ Rotated(d) /\ job[c].token = job[d].token => c = d

(* A logout that was answered has ended every session its account had when  *)
(* it came, and no refresh in flight brings one back (auth.service.ts:152). *)
LogoutEndsSessions ==
    \A c \in Calls, s \in Ids :
        /\ pc[c] \in Told /\ job[c].kind = "logout"
        /\ s \in earlier[c] /\ session[s].user = job[c].user
        => session[s].state = "deleted"

(* A browser's cookie is the last token of its session, unless the answer   *)
(* with the next one is still on its way or was lost, whatever requests of  *)
(* the browser overlap (auth.controller.ts:90-94).                          *)
CookieFollowsRotation ==
    \A b \in Browsers :
        \/ cookie[b] = NoCookie
        \/ \E s \in Ids : session[s] # Absent /\ session[s].token = cookie[b]
        \/ \E c \in Calls : /\ Rotated(c) /\ pc[c] # "done"
                            /\ job[c].token = cookie[b]

(* Accounts, profiles and sessions change as SignIn says: fields that were  *)
(* not sent stay, a session ends with its account, and for good.            *)
Promise == INSTANCE SignIn
SessionsKeepPromise == Promise!Spec
================================================================================
