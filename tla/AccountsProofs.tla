----------------------------- MODULE AccountsProofs -----------------------------
(***************************************************************************)
(* Theorems about Accounts for any set of requests, addresses and browsers:*)
(* its invariants, and that it implements SignIn.                          *)
(***************************************************************************)
EXTENDS Accounts, TLAPS

USE DEF Goto, Step

--------------------------------------------------------------------------------
(* The inductive invariant.  An account's id and a token in a cookie are    *)
(* those of requests that have been answered, a token in a row that of one  *)
(* that has at least an answer: what a request still makes is new.          *)
Heard(u) == u = First \/ (u \in Calls /\ pc[u] = "done")
Issued(t) == t = First \/ (t \in Calls /\ pc[t] \in Told)

UsersApart ==
    /\ \A e \in Emails : user[e] # Nobody => Heard(user[e].id)
    /\ \A e, g \in Emails :
          user[e] # Nobody /\ user[g] # Nobody /\ user[e].id = user[g].id => e = g

SessionInv(s) ==
    session[s] # Absent =>
        /\ Issued(s) /\ Issued(session[s].token) /\ Heard(session[s].user)
        /\ session[s].state # "deleted" => Registered(session[s].user)

TokensApart ==
    \A r, s \in Ids :
        session[r] # Absent /\ session[s] # Absent /\ session[r].token = session[s].token => r = s

CookiesApart ==
    /\ \A b \in Browsers : cookie[b] # NoCookie => Heard(cookie[b])
    /\ \A b, d \in Browsers : cookie[b] # NoCookie /\ cookie[b] = cookie[d] => b = d

(* What a request is, from where it is.                                     *)
Presents(c) == job[c] \in Refresh /\ job[c].token \in Ids

Begun(c) ==
    /\ pc[c] = "registering" => job[c] \in SignUp
    /\ pc[c] \in {"updating", "writing"} => job[c] \in Update
    /\ pc[c] \in {"removing", "deleting"} => job[c] \in Remove
    /\ pc[c] = "leaving" => job[c] \in Logout
    /\ pc[c] = "opening" => job[c] \in Login
    /\ pc[c] \in {"looking", "owning", "discarding", "rotating"} => Presents(c)
    /\ pc[c] = "answered" => job[c] \in Logout \/ job[c] \in Login \/ Presents(c)
    /\ pc[c] # "idle" => job[c] \in Job
    /\ Rotated(c) => Presents(c)

(* The token it presents came from the cookie of its browser, and from no   *)
(* other.                                                                   *)
Presented(c) ==
    pc[c] # "idle" /\ Presents(c) =>
        /\ Heard(job[c].token)
        /\ \A b \in Browsers : cookie[b] = job[c].token => job[c].browser = b

(* The session it has found belongs to the account it has found.            *)
Owned(c) ==
    /\ Heard(found[c])
    /\ pc[c] \in {"owning", "discarding", "rotating"} =>
          \A s \in Ids : session[s] # Absent /\ session[s].token = job[c].token
                         => session[s].user = found[c]
    /\ pc[c] = "discarding" => ~ Registered(found[c])

(* An answer on its way carries the last token of a session; a token that   *)
(* was exchanged is no session's any more.                                  *)
Exchanged(c) ==
    /\ pc[c] = "answered" /\ job[c].kind # "logout" =>
          \E s \in Ids : session[s] # Absent /\ session[s].token = c
    /\ Rotated(c) => \A s \in Ids : session[s] # Absent => session[s].token # job[c].token

Ended(c) ==
    /\ \A s \in earlier[c] : session[s] # Absent
    /\ pc[c] \in Told /\ job[c].kind = "logout" =>
          \A s \in earlier[c] : session[s].user = job[c].user => session[s].state = "deleted"

CallInv(c) == Begun(c) /\ Presented(c) /\ Owned(c) /\ Exchanged(c) /\ Ended(c)

IInv ==
    /\ TypeOK
    /\ UsersApart
    /\ \A s \in Ids : SessionInv(s)
    /\ TokensApart
    /\ CookiesApart
    /\ CookieFollowsRotation
    /\ \A c \in Calls : CallInv(c)
    /\ OneRotationPerToken

--------------------------------------------------------------------------------
LEMMA JobTypes ==
    ASSUME NEW j
    PROVE  /\ j \in SignUp => j \in Job /\ j.kind = "signup" /\ j.email \in Spellings
           /\ j \in Update => j \in Job /\ j.kind = "update" /\ j.user \in Ids /\ j.sent \in SUBSET Fields
           /\ j \in Remove => j \in Job /\ j.kind = "remove" /\ j.user \in Ids
           /\ j \in Logout => j \in Job /\ j.kind = "logout" /\ j.user \in Ids /\ j.browser \in Browsers
           /\ j \in Login => j \in Job /\ j.kind = "login" /\ j.browser \in Browsers
           /\ j \in Refresh => j \in Job /\ j.kind = "refresh" /\ j.browser \in Browsers
BY DEF Job, SignUp, Update, Remove, Logout, Login, Refresh

LEMMA RowTypes ==
    ASSUME TypeOK
    PROVE  /\ \A e \in Emails : user[e] # Nobody => user[e] \in User
           /\ \A s \in Ids : session[s] # Absent => session[s] \in Session
BY DEF TypeOK

LEMMA InitInv ==
    ASSUME Init
    PROVE  IInv
<1>1. First \in Ids /\ [id |-> First, profile |-> [f \in Fields |-> First]] \in User
      /\ [user |-> First, token |-> First, state |-> "valid"] \in Session
  BY DEF Ids, User, Session
<1>2. TypeOK
  BY <1>1 DEF Init, TypeOK, PC
<1>3. UsersApart /\ TokensApart /\ CookiesApart
  BY <1>1, AccountsAssumption DEF Init, UsersApart, TokensApart, CookiesApart, Heard
<1>4. ASSUME NEW s \in Ids PROVE SessionInv(s)
  BY <1>1, AccountsAssumption DEF Init, SessionInv, Heard, Issued, Registered, HasId
<1>5. CookieFollowsRotation
  BY <1>1, AccountsAssumption DEF Init, CookieFollowsRotation
<1>6. ASSUME NEW c \in Calls PROVE CallInv(c) /\ ~ Rotated(c)
  BY <1>1, AccountsAssumption DEF Init, CallInv, Begun, Presented, Owned, Exchanged, Ended, Rotated, Told, Heard
<1> QED
  BY <1>2, <1>3, <1>4, <1>5, <1>6 DEF IInv, OneRotationPerToken

(* A step by one request that changes no row and no cookie.  One that was   *)
(* answered can only lose its answer.                                       *)
LEMMA Quiet ==
    ASSUME IInv, NEW c \in Calls, NEW label \in PC, pc' = [pc EXCEPT ![c] = label],
           pc[c] \notin Final, label \in Told <=> pc[c] = "answered",
           label \in Told => label = "lost" /\ job' = job,
           UNCHANGED <<rows, cookie>>, TypeOK',
           \A d \in Calls \ {c} : job'[d] = job[d] /\ found'[d] = found[d] /\ earlier'[d] = earlier[d],
           CallInv(c)'
    PROVE  IInv'
<1>1. ASSUME NEW u PROVE (Heard(u) => Heard(u)') /\ (Issued(u) => Issued(u)')
  BY DEF IInv, TypeOK, Heard, Issued, Final, Told
<1>2. UsersApart' /\ TokensApart' /\ CookiesApart' /\ \A s \in Ids : SessionInv(s)'
  BY <1>1 DEF IInv, UsersApart, TokensApart, CookiesApart, SessionInv, Registered, HasId, rows
<1>3. ASSUME NEW d \in Calls PROVE Rotated(d)' <=> Rotated(d)
  BY DEF IInv, TypeOK, CallInv, Begun, Presents, Rotated, Told, Final
<1>4. ASSUME NEW d \in Calls, Rotated(d) PROVE job'[d] = job[d] /\ (pc[d] # "done" => pc'[d] # "done")
  BY <1>4 DEF IInv, TypeOK, Rotated, Told, Final
<1>5. CookieFollowsRotation' /\ OneRotationPerToken'
  BY <1>3, <1>4 DEF IInv, CookieFollowsRotation, OneRotationPerToken, rows
<1>6. ASSUME NEW d \in Calls, d # c PROVE CallInv(d)'
  <2>1. pc'[d] = pc[d] /\ job'[d] = job[d] /\ found'[d] = found[d] /\ earlier'[d] = earlier[d]
    BY <1>6 DEF IInv, TypeOK
  <2>2. CallInv(d)
    BY DEF IInv
  <2>3. Begun(d)' /\ Exchanged(d)' /\ Ended(d)'
    BY <2>1, <2>2 DEF CallInv, Begun, Exchanged, Ended, Rotated, Presents, rows
  <2>4. Presented(d)' /\ Owned(d)'
    BY <1>1, <2>1, <2>2 DEF CallInv, Presented, Owned, Presents, Registered, HasId, rows
  <2> QED
    BY <2>3, <2>4 DEF CallInv
<1> QED
  BY <1>2, <1>5, <1>6 DEF IInv

--------------------------------------------------------------------------------
LEMMA BeginStep ==
    ASSUME IInv, NEW c \in Calls,
           \/ BeginSignUp(c) \/ BeginUpdate(c) \/ BeginRemove(c) \/ BeginLogout(c)
           \/ BeginLogin(c) \/ BeginRefresh(c)
    PROVE  IInv'
<1>1. PICK label \in PC, j \in Job :
          /\ pc[c] = "idle" /\ UNCHANGED <<rows, cookie>>
          /\ pc' = [pc EXCEPT ![c] = label] /\ job' = [job EXCEPT ![c] = j]
          /\ label # "answered" /\ label \notin Told
          /\ j \in Refresh => \E b \in Browsers : j.browser = b /\ j.token = cookie[b]
          /\ \/ label = "rejected"
             \/ label = "registering" /\ j \in SignUp
             \/ label = "updating" /\ j \in Update
             \/ label = "removing" /\ j \in Remove
             \/ label = "leaving" /\ j \in Logout
             \/ label = "opening" /\ j \in Login
             \/ label = "looking" /\ j \in Refresh /\ j.token # NoCookie
          /\ \/ found' = found
             \/ \E e \in Emails : user[e] # Nobody /\ found' = [found EXCEPT ![c] = user[e].id]
          /\ \/ earlier' = earlier
             \/ earlier' = [earlier EXCEPT ![c] = {s \in Ids : session[s] # Absent}]
  <2>1. CASE BeginSignUp(c)
    BY <2>1 DEF BeginSignUp, Begin, PC, Told, Final, Active, Job, SignUp, Refresh
  <2>2. CASE BeginUpdate(c)
    BY <2>2 DEF BeginUpdate, Guarded, Begin, PC, Told, Final, Active, Job, Update, Refresh
  <2>3. CASE BeginRemove(c)
    BY <2>3 DEF BeginRemove, Guarded, Begin, PC, Told, Final, Active, Job, Remove, Refresh
  <2>4. CASE BeginLogout(c)
    BY <2>4 DEF BeginLogout, Guarded, PC, Told, Final, Active, Job, Logout, Refresh
  <2>5. CASE BeginLogin(c)
    BY <2>5 DEF BeginLogin, PC, Told, Final, Active, Job, Login, Refresh
  <2>6. CASE BeginRefresh(c)
    <3>1. \A b \in Browsers : cookie[b] \in Ids \cup {NoCookie}
      BY DEF IInv, TypeOK
    <3> QED
      BY <2>6, <3>1 DEF BeginRefresh, Begin, PC, Told, Final, Active, Job, Refresh
  <2> QED
    BY <2>1, <2>2, <2>3, <2>4, <2>5, <2>6
<1>2. TypeOK'
  BY <1>1, RowTypes DEF IInv, TypeOK, User, rows
<1>3. label \notin {"answered", "done", "lost"} /\ pc'[c] = label /\ job'[c] = j /\ ~ Rotated(c)'
  BY <1>1 DEF IInv, TypeOK, Told, Rotated
<1>4. ASSUME NEW u, Heard(u) PROVE Heard(u)'
  BY <1>1, <1>4 DEF IInv, TypeOK, Heard
<1>5. Begun(c)'
  BY <1>1, <1>3, JobTypes DEF Begun, Presents, Told, Refresh, Ids
<1>6. Presented(c)'
  <2>1. CASE ~ Presents(c)'
    BY <2>1 DEF Presented
  <2>2. CASE Presents(c)'
    <3>1. PICK b \in Browsers : j.browser = b /\ j.token = cookie[b]
      BY <1>1, <1>3, <2>2 DEF Presents
    <3>2. cookie[b] # NoCookie
      BY <1>3, <2>2, <3>1, AccountsAssumption DEF Presents
    <3>3. Heard(cookie[b]) /\ \A d \in Browsers : cookie[d] = cookie[b] => d = b
      BY <3>2 DEF IInv, CookiesApart
    <3> QED
      BY <1>1, <1>3, <1>4, <3>1, <3>3 DEF Presented
  <2> QED
    BY <2>1, <2>2
<1>7. Owned(c)'
  <2>1. Heard(found'[c])
    BY <1>1 DEF IInv, TypeOK, UsersApart, CallInv, Owned
  <2> QED
    BY <1>1, <1>3, <1>4, <2>1 DEF Owned
<1>8. Exchanged(c)' /\ Ended(c)'
  BY <1>1, <1>3 DEF IInv, TypeOK, CallInv, Exchanged, Ended, Told, rows
<1>9. CallInv(c)'
  BY <1>5, <1>6, <1>7, <1>8 DEF CallInv
<1>10. \A d \in Calls \ {c} : job'[d] = job[d] /\ found'[d] = found[d] /\ earlier'[d] = earlier[d]
  BY <1>1 DEF IInv, TypeOK
<1> QED
  BY <1>1, <1>2, <1>3, <1>9, <1>10, Quiet DEF Final, Told

(* The steps of a request that has begun, up to its write.                 *)
LEMMA ReadStep ==
    ASSUME IInv, NEW c \in Calls, CheckPassword(c) \/ FindSelf(c) \/ FindOwner(c) \/ Lose(c) \/ Fail(c)
    PROVE  IInv'
<1>1. PICK label \in PC :
          /\ pc' = [pc EXCEPT ![c] = label]
          /\ UNCHANGED <<job, found, earlier, rows, cookie>>
          /\ \/ label \in {"failed", "rejected"} /\ pc[c] \in Active
             \/ label = "writing" /\ pc[c] = "updating"
             \/ label = "deleting" /\ pc[c] = "removing"
             \/ label = "rotating" /\ pc[c] = "owning"
             \/ label = "discarding" /\ pc[c] = "owning" /\ ~ Registered(found[c])
             \/ label = "lost" /\ pc[c] = "answered"
  BY DEF CheckPassword, FindSelf, FindOwner, Lose, Fail, PC, Active, Final
<1>2. TypeOK'
  BY <1>1 DEF IInv, TypeOK, rows
<1>3. pc'[c] = label /\ CallInv(c)
  BY <1>1 DEF IInv, TypeOK
<1>4. ASSUME NEW u, Heard(u) PROVE Heard(u)'
  BY <1>1, <1>4 DEF IInv, TypeOK, Heard, Active
<1>5. Begun(c)'
  BY <1>1, <1>3, JobTypes DEF CallInv, Begun, Presents, Rotated, Told, Active
<1>6. Presented(c)'
  BY <1>1, <1>3, <1>4 DEF CallInv, Presented, Presents, Active
<1>7. Owned(c)'
  BY <1>1, <1>3, <1>4 DEF CallInv, Owned, Registered, HasId, rows
<1>8. Exchanged(c)' /\ Ended(c)'
  BY <1>1, <1>3 DEF CallInv, Exchanged, Ended, Rotated, Told, rows
<1>9. CallInv(c)'
  BY <1>5, <1>6, <1>7, <1>8 DEF CallInv
<1> QED
  BY <1>1, <1>2, <1>9, Quiet DEF Final, Told, Active

LEMMA FindSessionStep ==
    ASSUME IInv, NEW c \in Calls, FindSession(c)
    PROVE  IInv'
<1>1. PICK label \in {"owning", "rejected"} :
          /\ pc[c] = "looking" /\ pc' = [pc EXCEPT ![c] = label]
          /\ UNCHANGED <<job, earlier, rows, cookie>>
          /\ label = "rejected" => found' = found
          /\ label = "owning" => \E s \in Ids : /\ HasToken(s, job[c].token)
                                               /\ found' = [found EXCEPT ![c] = session[s].user]
  BY DEF FindSession
<1>2. TypeOK'
  BY <1>1, RowTypes DEF IInv, TypeOK, Session, HasToken, rows, PC, Active, Final
<1>3. pc'[c] = label /\ CallInv(c)
  BY <1>1 DEF IInv, TypeOK
<1>4. ASSUME NEW u, Heard(u) PROVE Heard(u)'
  BY <1>1, <1>4 DEF IInv, TypeOK, Heard
<1>5. Begun(c)' /\ Presented(c)' /\ Exchanged(c)' /\ Ended(c)'
  BY <1>1, <1>3, <1>4 DEF CallInv, Begun, Presented, Exchanged, Ended, Presents, Rotated, Told, rows
<1>6. Owned(c)'
  <2>1. CASE label = "rejected"
    BY <1>1, <1>3, <1>4, <2>1 DEF CallInv, Owned
  <2>2. CASE label = "owning"
    <3>1. PICK s \in Ids : HasToken(s, job[c].token) /\ found' = [found EXCEPT ![c] = session[s].user]
      BY <1>1, <2>2
    <3>2. found'[c] = session[s].user /\ Heard(session[s].user)
      BY <3>1 DEF IInv, TypeOK, SessionInv, HasToken
    <3>3. \A r \in Ids : session[r] # Absent /\ session[r].token = job[c].token => r = s
      BY <3>1 DEF IInv, TokensApart, HasToken
    <3> QED
      BY <1>1, <1>3, <1>4, <2>2, <3>2, <3>3 DEF Owned, rows
  <2> QED
    BY <2>1, <2>2
<1>7. CallInv(c)'
  BY <1>5, <1>6 DEF CallInv
<1>8. \A d \in Calls \ {c} : found'[d] = found[d]
  BY <1>1 DEF IInv, TypeOK
<1> QED
  BY <1>1, <1>2, <1>7, <1>8, Quiet DEF Final, Told, PC, Active

--------------------------------------------------------------------------------
(* Steps that change accounts, or end sessions: no row gets another token   *)
(* or another account, and no deleted one comes back.                       *)
Fading ==
    \A s \in Ids :
        /\ session'[s] = Absent <=> session[s] = Absent
        /\ session[s] # Absent =>
              /\ session'[s].user = session[s].user /\ session'[s].token = session[s].token
              /\ session[s].state = "deleted" => session'[s].state = "deleted"

LEMMA FadingStep ==
    ASSUME IInv, TypeOK', Fading, NEW pcs, pcs \subseteq Calls,
           \A d \in Calls \ pcs : pc'[d] = pc[d],
           \A d \in pcs : pc[d] \notin Final \cup {"answered"} /\ pc'[d] \in Told,
           \A d \in pcs : ~ Rotated(d)' /\ CallInv(d)',
           UNCHANGED <<job, found, earlier, cookie>>,
           UsersApart',
           \A u \in Ids : Registered(u)' => Registered(u) \/ ~ Heard(u),
           \A s \in Ids : session[s] # Absent /\ session'[s].state # "deleted"
                          => Registered(session[s].user)'
    PROVE  IInv'
<1>1. ASSUME NEW u PROVE (Heard(u) => Heard(u)') /\ (Issued(u) => Issued(u)')
  BY DEF Heard, Issued, Final, Told
<1>2. ASSUME NEW s \in Ids PROVE SessionInv(s)'
  BY <1>1 DEF IInv, SessionInv, Fading
<1>3. TokensApart'
  BY DEF IInv, TokensApart, Fading
<1>4. CookiesApart'
  BY <1>1 DEF IInv, CookiesApart
<1>5. ASSUME NEW d \in Calls PROVE Rotated(d)' <=> Rotated(d)
  BY DEF IInv, CallInv, Rotated, Told, Final
<1>6. ASSUME NEW d \in Calls, Rotated(d) PROVE pc'[d] = pc[d]
  BY <1>6 DEF Rotated, Told, Final
<1>7. CookieFollowsRotation'
  BY <1>5, <1>6 DEF IInv, CookieFollowsRotation, Fading
<1>8. OneRotationPerToken'
  BY <1>5 DEF IInv, OneRotationPerToken
<1>9. ASSUME NEW d \in Calls \ pcs PROVE CallInv(d)'
  <2>1. pc'[d] = pc[d] /\ CallInv(d)
    BY DEF IInv
  <2>2. Begun(d)' /\ Presented(d)'
    BY <1>1, <2>1 DEF CallInv, Begun, Presented, Presents, Rotated
  <2>3. Exchanged(d)'
    BY <2>1, <1>5 DEF CallInv, Exchanged, Fading
  <2>4. Ended(d)'
    BY <2>1 DEF CallInv, Ended, Fading, IInv, TypeOK
  <2>5. Owned(d)'
    <3>1. found[d] \in Ids
      BY DEF IInv, TypeOK
    <3> QED
      BY <1>1, <2>1, <3>1 DEF CallInv, Owned, Fading
  <2> QED
    BY <2>2, <2>3, <2>4, <2>5 DEF CallInv
<1> QED
  BY <1>2, <1>3, <1>4, <1>7, <1>8, <1>9 DEF IInv

LEMMA RegisterStep ==
    ASSUME IInv, NEW c \in Calls, Register(c)
    PROVE  IInv'
<1> DEFINE e == Lower[job[c].email]
<1>1. pc[c] = "registering" /\ job[c] \in SignUp /\ e \in Emails /\ CallInv(c)
  BY JobTypes, AccountsAssumption DEF Register, IInv, CallInv, Begun
<1>2. CASE user[e] # Nobody
  <2>1. Fail(c)
    BY <1>1, <1>2 DEF Register, Fail, Active, rows
  <2> QED
    BY <2>1, ReadStep
<1>3. CASE user[e] = Nobody
  <2>1. /\ pc' = [pc EXCEPT ![c] = "done"] /\ UNCHANGED <<job, found, earlier, cookie, session>>
        /\ user' = [user EXCEPT ![e] = [id |-> c, profile |-> [f \in Fields |-> c]]]
    BY <1>3 DEF Register
  <2>2. c \in Ids /\ [id |-> c, profile |-> [f \in Fields |-> c]] \in User
    BY DEF Ids, User
  <2>3. TypeOK' /\ pc'[c] = "done" /\ \A d \in Calls \ {c} : pc'[d] = pc[d]
    BY <1>1, <2>1, <2>2 DEF IInv, TypeOK, PC, Final
  <2>4. /\ user'[e] # Nobody /\ user'[e].id = c
        /\ \A g \in Emails : g # e => user'[g] = user[g]
    BY <1>1, <2>1, <2>2, AccountsAssumption DEF IInv, TypeOK
  <2>5. \A u : Heard(u) => u # c
    BY <1>1, AccountsAssumption DEF Heard
  <2>6. UsersApart'
    BY <2>3, <2>4, <2>5 DEF IInv, UsersApart, Heard
  <2>7. \A u \in Ids : (Registered(u) => Registered(u)') /\ (Registered(u)' => Registered(u) \/ ~ Heard(u))
    BY <1>1, <1>3, <2>4, <2>5 DEF Registered, HasId
  <2>8. \A s \in Ids : session[s] # Absent /\ session'[s].state # "deleted" => Registered(session[s].user)'
    BY <2>1, <2>7, RowTypes DEF IInv, SessionInv, Session
  <2>9. job[c].kind = "signup" /\ ~ Presents(c)
    BY <1>1, JobTypes DEF Presents
  <2>10. CallInv(c)' /\ ~ Rotated(c)'
    <3>1. \A u : Heard(u) => Heard(u)'
      BY <1>1, <2>3 DEF Heard
    <3>2. Begun(c)' /\ ~ Rotated(c)' /\ Presented(c)'
      BY <1>1, <2>1, <2>3, <2>9 DEF CallInv, Begun, Presented, Rotated, Presents
    <3>3. Owned(c)' /\ Exchanged(c)' /\ Ended(c)'
      BY <1>1, <2>1, <2>3, <2>9, <3>1 DEF CallInv, Owned, Exchanged, Ended, Rotated
    <3> QED
      BY <3>2, <3>3 DEF CallInv
  <2>11. Fading
    BY <2>1 DEF Fading
  <2> DEFINE pcs == {c}
  <2>12. /\ pcs \subseteq Calls /\ \A d \in Calls \ pcs : pc'[d] = pc[d]
         /\ \A d \in pcs : pc[d] \notin Final \cup {"answered"} /\ pc'[d] \in Told
         /\ \A d \in pcs : ~ Rotated(d)' /\ CallInv(d)'
    BY <1>1, <2>3, <2>10 DEF Final, Told
  <2> HIDE DEF pcs
  <2> QED
    BY <2>1, <2>3, <2>6, <2>7, <2>8, <2>11, <2>12, FadingStep
<1> QED
  BY <1>2, <1>3

LEMMA ProfileStep ==
    ASSUME IInv, NEW c \in Calls, WriteProfile(c)
    PROVE  IInv'
<1>1. pc[c] = "writing" /\ job[c] \in Update /\ job[c].user \in Ids /\ CallInv(c)
  BY JobTypes DEF WriteProfile, IInv, CallInv, Begun
<1>2. CASE ~ Registered(job[c].user)
  <2>1. user' = user
    BY <1>2 DEF WriteProfile, Registered, IInv, TypeOK
  <2>2. Fail(c)
    BY <1>1, <1>2, <2>1 DEF WriteProfile, Fail, Active, rows
  <2> QED
    BY <2>2, ReadStep
<1>3. CASE Registered(job[c].user)
  <2>1. pc' = [pc EXCEPT ![c] = "done"] /\ UNCHANGED <<job, found, earlier, cookie, session>>
    BY <1>3 DEF WriteProfile
  <2>2. /\ \A e \in Emails : user'[e] \in User \cup {Nobody}
        /\ \A e \in Emails : (user'[e] = Nobody) = (user[e] = Nobody)
        /\ \A e \in Emails : user[e] # Nobody => user'[e].id = user[e].id
    <3>1. c \in Ids
      BY DEF Ids
    <3>2. ASSUME NEW e \in Emails, HasId(e, job[c].user)
          PROVE  user'[e] \in User /\ user'[e].id = user[e].id
      <4>1. user[e] \in User
        BY <3>2, RowTypes DEF IInv, HasId
      <4>2. user'[e] = [user[e] EXCEPT !.profile =
                           [f \in Fields |-> IF f \in job[c].sent THEN c ELSE @[f]]]
        BY <3>2 DEF WriteProfile
      <4> QED
        BY <3>1, <4>1, <4>2 DEF User
    <3> QED
      BY <3>2, AccountsAssumption DEF WriteProfile, HasId, IInv, TypeOK
  <2>3. TypeOK' /\ pc'[c] = "done" /\ \A d \in Calls \ {c} : pc'[d] = pc[d]
    <3>1. user' = [e \in Emails |-> user'[e]]
      BY DEF WriteProfile
    <3>2. user' \in [Emails -> User \cup {Nobody}]
      <4>1. \A e \in Emails : user'[e] \in User \cup {Nobody}
        BY <2>2
      <4> QED
        BY <3>1, <4>1
    <3> QED
      BY <2>1, <3>2 DEF IInv, TypeOK, PC, Final
  <2>4. \A u \in Ids : Registered(u)' <=> Registered(u)
    <3>1. \A e \in Emails, u \in Ids : HasId(e, u)' <=> HasId(e, u)
      BY <2>2 DEF HasId
    <3> QED
      BY <3>1 DEF Registered
  <2>5. \A u : Heard(u) => Heard(u)'
    BY <1>1, <2>3 DEF Heard
  <2>6. UsersApart'
    BY <2>2, <2>5 DEF IInv, UsersApart
  <2>7. \A s \in Ids : session[s] # Absent /\ session'[s].state # "deleted" => Registered(session[s].user)'
    BY <2>1, <2>4, RowTypes DEF IInv, SessionInv, Session
  <2>8. job[c].kind = "update" /\ ~ Presents(c)
    BY <1>1, JobTypes DEF Presents
  <2>9. CallInv(c)' /\ ~ Rotated(c)'
    <3>1. Begun(c)' /\ ~ Rotated(c)' /\ Presented(c)'
      BY <1>1, <2>1, <2>3, <2>8 DEF CallInv, Begun, Presented, Rotated, Presents
    <3>2. Owned(c)' /\ Exchanged(c)' /\ Ended(c)'
      BY <1>1, <2>1, <2>3, <2>5, <2>8 DEF CallInv, Owned, Exchanged, Ended, Rotated
    <3> QED
      BY <3>1, <3>2 DEF CallInv
  <2>10. Fading
    BY <2>1 DEF Fading
  <2> DEFINE pcs == {c}
  <2>11. /\ pcs \subseteq Calls /\ \A d \in Calls \ pcs : pc'[d] = pc[d]
         /\ \A d \in pcs : pc[d] \notin Final \cup {"answered"} /\ pc'[d] \in Told
         /\ \A d \in pcs : ~ Rotated(d)' /\ CallInv(d)'
    BY <1>1, <2>3, <2>9 DEF Final, Told
  <2> HIDE DEF pcs
  <2> QED
    BY <2>1, <2>3, <2>4, <2>6, <2>7, <2>10, <2>11, FadingStep
<1> QED
  BY <1>2, <1>3

LEMMA ClosedFacts ==
    ASSUME TypeOK, NEW u \in Ids, session' = Closed(u)
    PROVE  /\ session' \in [Ids -> Session \cup {Absent}] /\ Fading
           /\ \A s \in Ids : session[s] # Absent /\ session[s].user = u => session'[s].state = "deleted"
           /\ \A s \in Ids : session[s] # Absent /\ session[s].user # u => session'[s] = session[s]
<1>1. ASSUME NEW s \in Ids, session[s] # Absent, session[s].user = u
      PROVE  /\ session'[s] \in Session /\ session'[s].state = "deleted"
             /\ session'[s].user = session[s].user /\ session'[s].token = session[s].token
  BY <1>1, RowTypes DEF Closed, Session
<1>2. ASSUME NEW s \in Ids, session[s] = Absent \/ session[s].user # u
      PROVE  session'[s] = session[s]
  BY <1>2 DEF Closed
<1>3. session' = [s \in Ids |-> session'[s]]
  BY DEF Closed
<1>4. \A s \in Ids : session'[s] \in Session \cup {Absent}
  BY <1>1, <1>2 DEF TypeOK
<1> QED
  BY <1>1, <1>2, <1>3, <1>4, AccountsAssumption DEF Fading

LEMMA DeleteStep ==
    ASSUME IInv, NEW c \in Calls, DeleteUser(c)
    PROVE  IInv'
<1> DEFINE u == job[c].user
<1>1. pc[c] = "deleting" /\ job[c] \in Remove /\ u \in Ids /\ CallInv(c)
  BY JobTypes DEF DeleteUser, IInv, CallInv, Begun
<1>2. CASE ~ Registered(u)
  <2>1. user' = user
    BY <1>2 DEF DeleteUser, Registered, IInv, TypeOK
  <2>2. Fail(c)
    BY <1>1, <1>2, <2>1 DEF DeleteUser, Fail, Active, rows
  <2> QED
    BY <2>2, ReadStep
<1>3. CASE Registered(u)
  <2>1. /\ pc' = [pc EXCEPT ![c] = "done"] /\ UNCHANGED <<job, found, earlier, cookie>>
        /\ user' = [e \in Emails |-> IF HasId(e, u) THEN Nobody ELSE user[e]]
        /\ session' = Closed(u)
    BY <1>3 DEF DeleteUser
  <2>2. TypeOK' /\ pc'[c] = "done" /\ \A d \in Calls \ {c} : pc'[d] = pc[d]
    BY <1>1, <2>1, ClosedFacts DEF IInv, TypeOK, PC, Final
  <2>3. \A v : Heard(v) => Heard(v)'
    BY <1>1, <2>2 DEF Heard
  <2>4. UsersApart'
    BY <2>1, <2>3 DEF IInv, UsersApart
  <2>5. /\ \A v \in Ids : Registered(v)' => Registered(v)
        /\ \A v \in Ids : Registered(v) /\ v # u => Registered(v)'
    <3>1. \A e \in Emails, v \in Ids : HasId(e, v)' <=> HasId(e, v) /\ v # u
      BY <2>1 DEF HasId
    <3> QED
      BY <3>1 DEF Registered
  <2>6. ASSUME NEW s \in Ids, session[s] # Absent, session'[s].state # "deleted"
        PROVE  Registered(session[s].user)'
    <3>1. session[s].user # u /\ session'[s] = session[s] /\ session[s].user \in Ids
      BY <1>1, <2>1, <2>6, ClosedFacts, RowTypes DEF IInv, Session
    <3> QED
      BY <2>5, <2>6, <3>1 DEF IInv, SessionInv
  <2>7. job[c].kind = "remove" /\ ~ Presents(c)
    BY <1>1, JobTypes DEF Presents
  <2>8. Fading
    BY <1>1, <2>1, ClosedFacts DEF IInv
  <2>9. CallInv(c)' /\ ~ Rotated(c)'
    <3>1. Begun(c)' /\ ~ Rotated(c)' /\ Presented(c)'
      BY <1>1, <2>1, <2>2, <2>7 DEF CallInv, Begun, Presented, Rotated, Presents
    <3>2. Owned(c)' /\ Exchanged(c)'
      BY <1>1, <2>1, <2>2, <2>3, <3>1 DEF CallInv, Owned, Exchanged
    <3>3. Ended(c)'
      BY <1>1, <2>1, <2>2, <2>7, <2>8 DEF CallInv, Ended, Fading, IInv, TypeOK
    <3> QED
      BY <3>1, <3>2, <3>3 DEF CallInv
  <2> DEFINE pcs == {c}
  <2>10. /\ pcs \subseteq Calls /\ \A d \in Calls \ pcs : pc'[d] = pc[d]
         /\ \A d \in pcs : pc[d] \notin Final \cup {"answered"} /\ pc'[d] \in Told
         /\ \A d \in pcs : ~ Rotated(d)' /\ CallInv(d)'
    BY <1>1, <2>2, <2>9 DEF Final, Told
  <2> HIDE DEF pcs
  <2> QED
    <3>1. \A v \in Ids : Registered(v)' => Registered(v) \/ ~ Heard(v)
      BY <2>5
    <3>2. \A s \in Ids : session[s] # Absent /\ session'[s].state # "deleted"
                         => Registered(session[s].user)'
      BY <2>6
    <3> QED
      BY <2>1, <2>2, <2>4, <2>8, <2>10, <3>1, <3>2, FadingStep
<1> QED
  BY <1>2, <1>3

LEMMA LogoutStep ==
    ASSUME IInv, NEW c \in Calls, DeleteSessions(c)
    PROVE  IInv'
<1>1. pc[c] = "leaving" /\ job[c] \in Logout /\ job[c].user \in Ids /\ CallInv(c)
  BY JobTypes DEF DeleteSessions, IInv, CallInv, Begun
<1>2. /\ pc' = [pc EXCEPT ![c] = "answered"] /\ UNCHANGED <<job, found, earlier, cookie, user>>
      /\ session' = Closed(job[c].user)
  BY DEF DeleteSessions
<1>3. TypeOK' /\ pc'[c] = "answered" /\ \A d \in Calls \ {c} : pc'[d] = pc[d]
  BY <1>1, <1>2, ClosedFacts DEF IInv, TypeOK, PC
<1>4. \A v : Heard(v) => Heard(v)'
  BY <1>1, <1>3 DEF Heard
<1>5. UsersApart' /\ \A v \in Ids : Registered(v)' <=> Registered(v)
  BY <1>2, <1>4 DEF IInv, UsersApart, Registered, HasId
<1>6. Fading
  BY <1>1, <1>2, ClosedFacts DEF IInv
<1>7. \A s \in Ids : session[s] # Absent /\ session'[s].state # "deleted" => Registered(session[s].user)'
  BY <1>5, <1>6, RowTypes DEF IInv, SessionInv, Fading, Session
<1>8. job[c].kind = "logout" /\ ~ Presents(c) /\ job[c] \in Job
  BY <1>1, JobTypes DEF Presents
<1>9. CallInv(c)' /\ ~ Rotated(c)'
  <2>1. Begun(c)' /\ ~ Rotated(c)' /\ Presented(c)'
    BY <1>1, <1>2, <1>3, <1>8 DEF CallInv, Begun, Presented, Rotated, Presents
  <2>2. Owned(c)' /\ Exchanged(c)'
    BY <1>1, <1>2, <1>3, <1>4, <1>8, <2>1 DEF CallInv, Owned, Exchanged
  <2>3. Ended(c)'
    <3>1. \A s \in earlier[c] : s \in Ids /\ session[s] # Absent
      BY <1>1 DEF IInv, TypeOK, CallInv, Ended
    <3>2. \A s \in earlier[c] : session'[s].user = session[s].user /\ session'[s] # Absent
      BY <1>6, <3>1 DEF Fading
    <3>3. \A s \in earlier[c] : session[s].user = job[c].user => session'[s].state = "deleted"
      BY <1>1, <1>2, <3>1, ClosedFacts DEF IInv
    <3> QED
      BY <1>2, <3>2, <3>3 DEF Ended
  <2> QED
    BY <2>1, <2>2, <2>3 DEF CallInv
<1> DEFINE pcs == {c}
<1>10. /\ pcs \subseteq Calls /\ \A d \in Calls \ pcs : pc'[d] = pc[d]
       /\ \A d \in pcs : pc[d] \notin Final \cup {"answered"} /\ pc'[d] \in Told
       /\ \A d \in pcs : ~ Rotated(d)' /\ CallInv(d)'
  BY <1>1, <1>3, <1>9 DEF Final, Told
<1> HIDE DEF pcs
<1> QED
  BY <1>2, <1>3, <1>5, <1>6, <1>7, <1>10, FadingStep

LEMMA ExpireStep ==
    ASSUME IInv, NEW s \in Ids, Expire(s)
    PROVE  IInv'
<1>1. /\ session[s] \in Session /\ session' = [session EXCEPT ![s].state = "expired"]
      /\ session[s].state = "valid" /\ UNCHANGED <<pc, job, found, earlier, user, cookie>>
  BY RowTypes DEF Expire, IInv
<1>2. session'[s] \in Session /\ session'[s].user = session[s].user
      /\ session'[s].token = session[s].token /\ \A r \in Ids \ {s} : session'[r] = session[r]
  BY <1>1 DEF IInv, TypeOK, Session
<1>3. TypeOK'
  BY <1>1, <1>2 DEF IInv, TypeOK
<1>4. Fading
  BY <1>1, <1>2, AccountsAssumption DEF Fading
<1>5. UsersApart' /\ \A v \in Ids : Registered(v)' <=> Registered(v)
  BY <1>1 DEF IInv, UsersApart, Registered, HasId, Heard
<1>6. \A r \in Ids : session[r] # Absent /\ session'[r].state # "deleted" => Registered(session[r].user)'
  BY <1>1, <1>2, <1>4, <1>5, RowTypes DEF IInv, SessionInv, Fading, Session
<1> DEFINE pcs == {}
<1>7. /\ pcs \subseteq Calls /\ \A d \in Calls \ pcs : pc'[d] = pc[d]
      /\ \A d \in pcs : pc[d] \notin Final \cup {"answered"} /\ pc'[d] \in Told
      /\ \A d \in pcs : ~ Rotated(d)' /\ CallInv(d)'
  BY <1>1
<1> HIDE DEF pcs
<1> QED
  BY <1>1, <1>3, <1>4, <1>5, <1>6, <1>7, FadingStep

--------------------------------------------------------------------------------
(* A session gets the token its request makes: a new session by a login, or *)
(* the one that had the token that was presented.                           *)
LEMMA GrantStep ==
    ASSUME IInv, TypeOK', NEW c \in Calls, pc[c] \in Active, pc' = [pc EXCEPT ![c] = "answered"],
           UNCHANGED <<job, found, earlier, cookie, user>>,
           NEW n \in Ids, NEW row \in Session, session' = [session EXCEPT ![n] = row],
           row.token = c, Registered(row.user), Heard(row.user),
           n = c \/ session[n] # Absent,
           session[n] # Absent => /\ session[n].state # "deleted" /\ row.user = session[n].user
                                  /\ Presents(c) /\ session[n].token = job[c].token,
           job[c] \in Login \/ (Presents(c) /\ session[n] # Absent)
    PROVE  IInv'
<1>1. /\ pc'[c] = "answered" /\ \A d \in Calls \ {c} : pc'[d] = pc[d]
      /\ pc[c] \notin Told /\ pc[c] # "idle" /\ CallInv(c)
  BY DEF IInv, TypeOK, Active, Told
<1>2. session'[n] = row /\ row # Absent /\ \A s \in Ids \ {n} : session'[s] = session[s]
  BY AccountsAssumption DEF IInv, TypeOK
<1>3. /\ ~ Heard(c) /\ ~ Issued(c) /\ Issued(c)'
      /\ \A u : (Heard(u) => Heard(u)') /\ (Issued(u) => Issued(u)')
  BY <1>1, AccountsAssumption DEF Heard, Issued, Told
<1>4. UsersApart' /\ CookiesApart' /\ \A u \in Ids : Registered(u)' <=> Registered(u)
  BY <1>3 DEF IInv, UsersApart, CookiesApart, Registered, HasId
<1>5. ASSUME NEW s \in Ids PROVE SessionInv(s)'
  <2>1. CASE s = n
    <3>1. Issued(n)'
      BY <1>3 DEF IInv, SessionInv
    <3> QED
      BY <1>2, <1>3, <1>4, <2>1, <3>1 DEF SessionInv, Session
  <2>2. CASE s # n
    <3>1. session[s] # Absent => session[s].user \in Ids
      BY RowTypes DEF IInv, Session
    <3> QED
      BY <1>2, <1>3, <1>4, <2>2, <3>1 DEF IInv, SessionInv
  <2> QED
    BY <2>1, <2>2
<1>6. \A s \in Ids : session[s] # Absent => session[s].token # c
  BY <1>3 DEF IInv, SessionInv
<1>7. TokensApart'
  BY <1>2, <1>6 DEF IInv, TokensApart
<1>8. ASSUME NEW d \in Calls, d # c PROVE Rotated(d)' <=> Rotated(d)
  BY <1>1, <1>8 DEF Rotated
<1>9. Presents(c) => Rotated(c)'
  BY <1>1, JobTypes DEF Presents, Rotated, Told
<1>10. CookieFollowsRotation'
  <2>1. ASSUME NEW b \in Browsers, NEW s \in Ids, session[s] # Absent, session[s].token = cookie[b]
        PROVE  \/ \E r \in Ids : session'[r] # Absent /\ session'[r].token = cookie[b]
               \/ Rotated(c)' /\ job[c].token = cookie[b]
    BY <1>2, <1>9, <2>1
  <2>2. ASSUME NEW b \in Browsers, NEW d \in Calls, Rotated(d), pc[d] # "done", job[d].token = cookie[b]
        PROVE  Rotated(d)' /\ pc'[d] # "done"
    BY <1>1, <1>8, <2>2 DEF Rotated
  <2> QED
    BY <1>1, <2>1, <2>2 DEF IInv, CookieFollowsRotation
<1>11. \A d \in Calls : pc[d] # "idle" /\ Presents(d) => job[d].token # c
  BY <1>3 DEF IInv, CallInv, Presented
<1>12. ASSUME NEW d \in Calls, d # c PROVE CallInv(d)'
  <2>1. pc'[d] = pc[d] /\ CallInv(d)
    BY <1>1, <1>12 DEF IInv
  <2>2. Begun(d)' /\ Presented(d)'
    BY <1>3, <2>1 DEF CallInv, Begun, Presented, Presents, Rotated
  <2>3. Owned(d)'
    BY <1>2, <1>3, <1>4, <1>11, <2>1 DEF CallInv, Begun, Owned, IInv, TypeOK
  <2>4. Exchanged(d)'
    <3>1. ASSUME pc[d] = "answered", NEW s \in Ids, session[s] # Absent, session[s].token = d
          PROVE  s # n
      <4>1. ~ Heard(d)
        BY <3>1, AccountsAssumption DEF Heard
      <4> QED
        BY <1>1, <3>1, <4>1 DEF CallInv, Presented
    <3> QED
      BY <1>2, <1>8, <1>11, <1>12, <2>1, <3>1 DEF CallInv, Begun, Exchanged, Rotated, Told
  <2>5. Ended(d)'
    BY <1>2, <2>1 DEF CallInv, Ended, IInv, TypeOK
  <2> QED
    BY <2>2, <2>3, <2>4, <2>5 DEF CallInv
<1>13. CallInv(c)'
  <2>1. job[c].kind # "logout" /\ job[c] \in Job /\ (Rotated(c)' => Presents(c) /\ session[n] # Absent)
    BY JobTypes DEF Presents, Rotated
  <2>2. Begun(c)' /\ Presented(c)'
    BY <1>1, <1>3, <2>1 DEF CallInv, Begun, Presented, Presents, Rotated
  <2>3. Owned(c)'
    BY <1>1, <1>3 DEF CallInv, Owned
  <2>4. Exchanged(c)'
    BY <1>1, <1>2, <1>11, <2>1 DEF IInv, TokensApart, Exchanged
  <2>5. Ended(c)'
    BY <1>1, <1>2, <2>1 DEF CallInv, Ended, IInv, TypeOK
  <2> QED
    BY <2>2, <2>3, <2>4, <2>5 DEF CallInv
<1>14. OneRotationPerToken'
  <2>1. ASSUME NEW d \in Calls, d # c, Rotated(d), Rotated(c)'
        PROVE  job[d].token # job[c].token
    BY <2>1, JobTypes DEF IInv, CallInv, Exchanged, Presents, Rotated
  <2> QED
    BY <1>8, <2>1 DEF IInv, OneRotationPerToken
<1> QED
  BY <1>4, <1>5, <1>7, <1>10, <1>12, <1>13, <1>14 DEF IInv

LEMMA OpenStep ==
    ASSUME IInv, NEW c \in Calls, OpenSession(c)
    PROVE  IInv'
<1>1. pc[c] = "opening" /\ job[c] \in Login /\ found[c] \in Ids /\ Heard(found[c]) /\ c \in Ids
  BY DEF OpenSession, IInv, TypeOK, CallInv, Begun, Owned, Ids
<1>2. CASE ~ Registered(found[c])
  <2>1. Fail(c)
    BY <1>1, <1>2 DEF OpenSession, Fail, Active, rows
  <2> QED
    BY <2>1, ReadStep
<1>3. CASE Registered(found[c])
  <2> DEFINE row == [user |-> found[c], token |-> c, state |-> "valid"]
  <2>1. /\ pc' = [pc EXCEPT ![c] = "answered"] /\ UNCHANGED <<job, found, earlier, cookie, user>>
        /\ session' = [session EXCEPT ![c] = row]
    BY <1>3 DEF OpenSession
  <2>2. row \in Session /\ row.user = found[c] /\ row.token = c
    BY <1>1 DEF Session
  <2>3. TypeOK'
    BY <1>1, <2>1, <2>2 DEF IInv, TypeOK, PC
  <2>4. session[c] = Absent
    BY <1>1, AccountsAssumption DEF IInv, SessionInv, Issued, Told
  <2> HIDE DEF row
  <2> QED
    BY <1>1, <1>3, <2>1, <2>2, <2>3, <2>4, GrantStep DEF Active
<1> QED
  BY <1>2, <1>3

LEMMA RotateStep ==
    ASSUME IInv, NEW c \in Calls, Rotate(c)
    PROVE  IInv'
<1>1. pc[c] = "rotating" /\ Presents(c) /\ CallInv(c) /\ c \in Ids
  BY DEF Rotate, IInv, CallInv, Begun, Ids
<1>2. CASE ~ \E s \in Ids : HasToken(s, job[c].token)
  <2>1. session' = session
    BY <1>2 DEF Rotate, IInv, TypeOK
  <2>2. Fail(c)
    BY <1>1, <1>2, <2>1 DEF Rotate, Fail, Active, rows
  <2> QED
    BY <2>2, ReadStep
<1>3. ASSUME NEW n \in Ids, HasToken(n, job[c].token) PROVE IInv'
  <2> DEFINE row == [session[n] EXCEPT !.token = c, !.state = "valid"]
  <2>1. /\ pc' = [pc EXCEPT ![c] = "answered"] /\ UNCHANGED <<job, found, earlier, cookie, user>>
        /\ session' = [s \in Ids |-> IF HasToken(s, job[c].token)
                                     THEN [session[s] EXCEPT !.token = c, !.state = "valid"]
                                     ELSE session[s]]
    BY <1>3 DEF Rotate
  <2>2. session[n] \in Session /\ session[n].state # "deleted" /\ session[n].token = job[c].token
    BY <1>3, RowTypes DEF HasToken, IInv
  <2>3. row \in Session /\ row.user = session[n].user /\ row.token = c /\ row.user \in Ids
    BY <1>1, <2>2 DEF Session
  <2>4. \A s \in Ids : HasToken(s, job[c].token) => s = n
    BY <1>3 DEF IInv, TokensApart, HasToken
  <2>5. session' = [session EXCEPT ![n] = row]
    BY <1>3, <2>1, <2>4 DEF IInv, TypeOK
  <2>6. TypeOK'
    BY <1>1, <2>1, <2>3, <2>5 DEF IInv, TypeOK, PC
  <2>7. Registered(row.user) /\ Heard(row.user) /\ session[n] # Absent
    BY <1>3, <2>2, <2>3 DEF IInv, SessionInv, HasToken
  <2> HIDE DEF row
  <2> QED
    BY <1>1, <2>1, <2>2, <2>3, <2>5, <2>6, <2>7, GrantStep DEF Active
<1> QED
  BY <1>2, <1>3

(* The account of a session that is there is there, too: the branch that    *)
(* deletes the session of a missing account finds none.                     *)
LEMMA DiscardFails ==
    ASSUME IInv, NEW c \in Calls, Discard(c)
    PROVE  Fail(c)
<1>1. pc[c] = "discarding" /\ CallInv(c)
  BY DEF Discard, IInv
<1>2. \A s \in Ids : ~ HasToken(s, job[c].token)
  BY <1>1 DEF IInv, CallInv, Owned, SessionInv, HasToken
<1>3. session' = session
  BY <1>2 DEF Discard, IInv, TypeOK
<1> QED
  BY <1>1, <1>2, <1>3 DEF Discard, Fail, Active, rows

LEMMA ReceiveStep ==
    ASSUME IInv, NEW c \in Calls, Receive(c)
    PROVE  IInv'
<1> DEFINE b == job[c].browser
<1>1. pc[c] = "answered" /\ CallInv(c) /\ b \in Browsers /\ c \in Ids /\ job[c] \in Job
  BY JobTypes DEF Receive, IInv, CallInv, Begun, Presents, Ids
<1>2. /\ pc'[c] = "done" /\ \A d \in Calls \ {c} : pc'[d] = pc[d]
      /\ cookie'[b] = (IF job[c].kind = "logout" THEN NoCookie ELSE c)
      /\ \A d \in Browsers \ {b} : cookie'[d] = cookie[d]
      /\ UNCHANGED <<job, found, earlier, rows>>
  BY <1>1 DEF Receive, IInv, TypeOK
<1>3. TypeOK'
  BY <1>1 DEF Receive, IInv, TypeOK, PC, Final, rows
<1>4. /\ ~ Heard(c) /\ Heard(c)' /\ c # NoCookie
      /\ \A u : (Heard(u) => Heard(u)') /\ (Issued(u) => Issued(u)')
  BY <1>1, <1>2, AccountsAssumption DEF Heard, Issued, Told
<1>5. UsersApart' /\ TokensApart' /\ \A s \in Ids : SessionInv(s)'
  BY <1>2, <1>4 DEF IInv, UsersApart, TokensApart, SessionInv, Registered, HasId, rows
<1>6. CookiesApart'
  BY <1>1, <1>2, <1>4 DEF IInv, CookiesApart
<1>7. ASSUME NEW d \in Calls PROVE Rotated(d)' <=> Rotated(d)
  BY <1>1, <1>2 DEF Rotated, Told
<1>8. CookieFollowsRotation'
  <2>1. ASSUME NEW x \in Browsers, cookie'[x] # NoCookie
        PROVE  \/ \E s \in Ids : session'[s] # Absent /\ session'[s].token = cookie'[x]
               \/ \E d \in Calls : Rotated(d)' /\ pc'[d] # "done" /\ job'[d].token = cookie'[x]
    <3>1. CASE x = b
      BY <1>1, <1>2, <2>1, <3>1 DEF CallInv, Exchanged, rows
    <3>2. CASE x # b
      <4>1. cookie'[x] = cookie[x]
        BY <1>2, <3>2
      <4>2. ~ (Rotated(c) /\ job[c].token = cookie[x])
        BY <1>1, <3>2 DEF CallInv, Begun, Presented
      <4>3. \A d \in Calls : Rotated(d) /\ pc[d] # "done" /\ job[d].token = cookie[x]
                             => Rotated(d)' /\ pc'[d] # "done"
        BY <1>2, <1>7, <4>2
      <4> QED
        BY <1>2, <2>1, <4>1, <4>3 DEF IInv, CookieFollowsRotation, rows
    <3> QED
      BY <3>1, <3>2
  <2> QED
    BY <2>1 DEF CookieFollowsRotation
<1>9. OneRotationPerToken'
  BY <1>2, <1>7 DEF IInv, OneRotationPerToken
<1>10. ASSUME NEW d \in Calls PROVE CallInv(d)'
  <2>1. CallInv(d)
    BY DEF IInv
  <2>2. Begun(d)' /\ Ended(d)'
    BY <1>1, <1>2, <1>7, <2>1 DEF CallInv, Begun, Ended, Presents, Told, rows
  <2>3. Presented(d)'
    <3>1. pc[d] # "idle" /\ Presents(d) => job[d].token \notin {c, NoCookie}
      BY <1>4, <2>1, AccountsAssumption DEF CallInv, Presented, Presents
    <3>2. (pc[d] # "idle" /\ Presents(d))' <=> pc[d] # "idle" /\ Presents(d)
      BY <1>1, <1>2 DEF Presents
    <3> QED
      BY <1>1, <1>2, <1>4, <2>1, <3>1, <3>2 DEF CallInv, Presented
  <2>4. Owned(d)' /\ Exchanged(d)'
    BY <1>1, <1>2, <1>4, <1>7, <2>1 DEF CallInv, Owned, Exchanged, Registered, HasId, rows
  <2> QED
    BY <2>2, <2>3, <2>4 DEF CallInv
<1> QED
  BY <1>3, <1>5, <1>6, <1>8, <1>9, <1>10 DEF IInv

--------------------------------------------------------------------------------
LEMMA StepInv ==
    ASSUME IInv, [Next]_vars
    PROVE  IInv'
<1>1. ASSUME UNCHANGED vars PROVE IInv'
  BY <1>1 DEF vars, rows, IInv, TypeOK, UsersApart, SessionInv, TokensApart, CookiesApart,
      CookieFollowsRotation, CallInv, OneRotationPerToken, Heard, Issued, Registered, HasId,
      Begun, Presents, Presented, Owned, Exchanged, Ended, Rotated
<1>2. ASSUME NEW c \in Calls, Handle(c)
      PROVE  IInv'
  BY <1>2, RegisterStep, ProfileStep, DeleteStep, LogoutStep, OpenStep, FindSessionStep, RotateStep,
     DiscardFails, ReadStep DEF Handle
<1> QED
  BY <1>1, <1>2, BeginStep, ReadStep, ReceiveStep, ExpireStep DEF Next, Rest

LEMMA Invariance == Spec => []IInv
<1>1. Init => IInv
  BY InitInv
<1>2. IInv /\ [Next]_vars => IInv'
  BY StepInv
<1> QED
  BY <1>1, <1>2, PTL DEF Spec

(* The variables have their types.                                         *)
THEOREM TypeCorrect == Spec => []TypeOK
<1>1. IInv => TypeOK
  BY DEF IInv
<1> QED
  BY <1>1, Invariance, PTL

(* Of the requests that present one refresh token at most one gets a new    *)
(* one (auth.service.ts:114, 134).                                          *)
THEOREM TokensRotateOnce == Spec => []OneRotationPerToken
<1>1. IInv => OneRotationPerToken
  BY DEF IInv
<1> QED
  BY <1>1, Invariance, PTL

(* An answered logout has ended every session its account had when it came, *)
(* and none comes back (auth.service.ts:152).                               *)
THEOREM LogoutsEndSessions == Spec => []LogoutEndsSessions
<1>1. IInv => LogoutEndsSessions
  BY DEF IInv, CallInv, Ended, LogoutEndsSessions
<1> QED
  BY <1>1, Invariance, PTL

(* A browser's cookie is the last token of its session, unless the answer   *)
(* with the next one is on its way or was lost (auth.controller.ts:90-94).  *)
THEOREM CookiesFollowRotation == Spec => []CookieFollowsRotation
<1>1. IInv => CookieFollowsRotation
  BY DEF IInv
<1> QED
  BY <1>1, Invariance, PTL

--------------------------------------------------------------------------------
(* Which step of SignIn the requests' steps are.                            *)
LEMMA AccountStepsKeepPromise ==
    ASSUME IInv, NEW c \in Calls, Register(c) \/ WriteProfile(c) \/ DeleteUser(c)
    PROVE  Promise!Next \/ UNCHANGED rows
<1>1. c \in Ids /\ CallInv(c)
  BY DEF IInv, Ids
<1>2. CASE Register(c)
  <2> DEFINE e == Lower[job[c].email]
  <2>1. e \in Emails
    BY <1>1, <1>2, JobTypes, AccountsAssumption DEF Register, CallInv, Begun
  <2>2. ~ Registered(c)
    BY <1>2, AccountsAssumption DEF Register, IInv, UsersApart, Registered, HasId, Heard
  <2>3. Promise!Register(e, c) \/ UNCHANGED rows
    BY <1>2, <2>2 DEF Register, Promise!Register, Promise!Registered, Registered, HasId, rows
  <2> QED
    BY <1>1, <2>1, <2>3 DEF Promise!Next
<1>3. CASE WriteProfile(c)
  <2>1. CASE ~ Registered(job[c].user)
    BY <1>3, <2>1 DEF WriteProfile, Registered, IInv, TypeOK, rows
  <2>2. ASSUME NEW e \in Emails, HasId(e, job[c].user) PROVE Promise!Next
    <3>1. \A g \in Emails : HasId(g, job[c].user) => g = e
      BY <2>2 DEF HasId, IInv, UsersApart
    <3>2. user[e] \in User
      BY <2>2, RowTypes DEF HasId, IInv
    <3> DEFINE profile == [f \in Fields |-> IF f \in job[c].sent THEN c ELSE user[e].profile[f]]
    <3>3. user' = [user EXCEPT ![e] = [user[e] EXCEPT !.profile = profile]]
      BY <1>3, <2>2, <3>1 DEF WriteProfile, IInv, TypeOK
    <3>4. user' = [user EXCEPT ![e].profile = profile]
      BY <3>3
    <3>5. Promise!Change(e, job[c].sent, c)
      BY <1>3, <2>2, <3>4 DEF WriteProfile, Promise!Change, HasId
    <3>6. job[c].sent \in SUBSET Fields
      BY <1>1, <1>3, JobTypes DEF WriteProfile, CallInv, Begun
    <3> QED
      BY <1>1, <3>5, <3>6 DEF Promise!Next
  <2> QED
    BY <2>1, <2>2 DEF Registered
<1>4. CASE DeleteUser(c)
  <2>1. CASE ~ Registered(job[c].user)
    BY <1>4, <2>1 DEF DeleteUser, Registered, IInv, TypeOK, rows
  <2>2. ASSUME NEW e \in Emails, HasId(e, job[c].user) PROVE Promise!Next
    <3>1. \A g \in Emails : HasId(g, job[c].user) => g = e
      BY <2>2 DEF HasId, IInv, UsersApart
    <3>2. user' = [user EXCEPT ![e] = Nobody]
      BY <1>4, <2>2, <3>1 DEF DeleteUser, IInv, TypeOK
    <3>3. Registered(job[c].user) /\ job[c].user = user[e].id
      BY <2>2 DEF Registered, HasId
    <3>4. session' = Promise!Closed(user[e].id)
      BY <1>4, <3>3 DEF DeleteUser, Closed, Promise!Closed
    <3>5. Promise!Leave(e)
      BY <2>2, <3>2, <3>4 DEF Promise!Leave, HasId
    <3> QED
      BY <3>5 DEF Promise!Next
  <2> QED
    BY <2>1, <2>2 DEF Registered
<1> QED
  BY <1>2, <1>3, <1>4

LEMMA SessionStepsKeepPromise ==
    ASSUME IInv, NEW c \in Calls, DeleteSessions(c) \/ OpenSession(c) \/ Rotate(c)
    PROVE  Promise!Next \/ UNCHANGED rows
<1>1. c \in Ids /\ CallInv(c)
  BY DEF IInv, Ids
<1>2. CASE DeleteSessions(c)
  <2>1. job[c].user \in Ids
    BY <1>1, <1>2, JobTypes DEF DeleteSessions, CallInv, Begun
  <2>2. Promise!Logout(job[c].user)
    BY <1>2 DEF DeleteSessions, Promise!Logout, Closed, Promise!Closed
  <2> QED
    BY <2>1, <2>2 DEF Promise!Next
<1>3. CASE OpenSession(c)
  <2>1. session[c] = Absent /\ found[c] \in Ids
    BY <1>1, <1>3, AccountsAssumption DEF OpenSession, IInv, TypeOK, SessionInv, Issued, Told
  <2>2. Promise!Open(c, found[c]) \/ UNCHANGED rows
    BY <1>3, <2>1 DEF OpenSession, Promise!Open, Promise!Registered, Registered, HasId, rows
  <2> QED
    BY <1>1, <2>1, <2>2 DEF Promise!Next
<1>4. CASE Rotate(c)
  <2>1. CASE ~ \E s \in Ids : HasToken(s, job[c].token)
    BY <1>4, <2>1 DEF Rotate, IInv, TypeOK, rows
  <2>2. ASSUME NEW s \in Ids, HasToken(s, job[c].token) PROVE Promise!Next
    <3>1. \A r \in Ids : HasToken(r, job[c].token) => r = s
      BY <2>2 DEF HasToken, IInv, TokensApart
    <3>2. session' = [session EXCEPT ![s] = [session[s] EXCEPT !.token = c, !.state = "valid"]]
      BY <1>4, <2>2, <3>1 DEF Rotate, IInv, TypeOK
    <3>3. session' = [session EXCEPT ![s].token = c, ![s].state = "valid"]
      BY <2>2, <3>2, RowTypes DEF IInv, TypeOK, HasToken, Session
    <3>4. \A r \in Ids : session[r] # Absent => session[r].token # c
      BY <1>4, AccountsAssumption DEF Rotate, IInv, SessionInv, Issued, Told
    <3>5. Promise!Renew(s, c)
      BY <1>4, <2>2, <3>3, <3>4 DEF Rotate, Promise!Renew, HasToken
    <3> QED
      BY <1>1, <3>5 DEF Promise!Next
  <2> QED
    BY <2>1, <2>2
<1> QED
  BY <1>2, <1>3, <1>4

LEMMA StepKeepsPromise ==
    ASSUME IInv, [Next]_vars
    PROVE  [Promise!Next]_rows
<1>1. ASSUME NEW c \in Calls,
             \/ BeginSignUp(c) \/ BeginUpdate(c) \/ BeginRemove(c) \/ BeginLogout(c) \/ BeginLogin(c)
             \/ BeginRefresh(c) \/ Receive(c) \/ Lose(c) \/ Fail(c)
             \/ CheckPassword(c) \/ FindSelf(c) \/ FindSession(c) \/ FindOwner(c)
      PROVE  UNCHANGED rows
  BY <1>1 DEF BeginSignUp, BeginUpdate, BeginRemove, BeginLogout, BeginLogin, BeginRefresh, Begin,
      Receive, Lose, Fail, CheckPassword, FindSelf, FindSession, FindOwner
<1>2. ASSUME NEW c \in Calls, Discard(c) PROVE UNCHANGED rows
  BY <1>2, DiscardFails DEF Fail
<1>3. ASSUME NEW s \in Ids, Expire(s) PROVE Promise!Next
  <2>1. Promise!Expire(s)
    BY <1>3 DEF Expire, Promise!Expire
  <2> QED
    BY <2>1 DEF Promise!Next
<1>4. ASSUME UNCHANGED vars PROVE UNCHANGED rows
  BY <1>4 DEF vars
<1> QED
  BY <1>1, <1>2, <1>3, <1>4, AccountStepsKeepPromise, SessionStepsKeepPromise DEF Next, Rest, Handle

(* Accounts implements SignIn: fields that were not sent stay, a session    *)
(* ends with its account, and for good.                                     *)
THEOREM AccountsKeepPromise == Spec => SessionsKeepPromise
<1>1. Init => Promise!Init
  <2>1. SUFFICES ASSUME Init PROVE Promise!Init
    OBVIOUS
  <2>2. TypeOK
    BY <2>1, InitInv DEF IInv
  <2>3. session \in [Ids -> [user : Ids, token : Ids, state : {"valid"}] \cup {Absent}]
    BY <2>1 DEF Init, Ids
  <2> QED
    BY <2>2, <2>3 DEF TypeOK, User, Promise!Init
<1>2. IInv /\ [Next]_vars => [Promise!Next]_rows
  BY StepKeepsPromise
<1> QED
  BY <1>1, <1>2, Invariance, PTL DEF Spec, SessionsKeepPromise, Promise!Spec, Promise!vars, rows
================================================================================
