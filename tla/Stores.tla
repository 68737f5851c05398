--------------------------------- MODULE Stores ---------------------------------
(***************************************************************************)
(* Stores and the users that marked them as favorites (src/store), under   *)
(* concurrent requests: opening a store, changing it, marking it and       *)
(* taking the mark back, the two detail pages with their figures, and the  *)
(* removal of users.                                                       *)
(*                                                                         *)
(* A step is one await, and every statement is a transaction of its own.   *)
(* A store's id and the value of a field are the request that wrote them.  *)
(* The figures on products and sales are left out: their queries run       *)
(* beside those on favorites and share nothing with them.                  *)
(***************************************************************************)
EXTENDS FiniteSets, Integers

CONSTANTS
    Calls, First,       \* requests; the store there is at first
    Users, Sellers,
    Fields,             \* of a store
    Absent, Gone, NoJob

Stores == Calls \cup {First}
Row == [seller : Sellers, form : [Fields -> Stores]]
Figure == {"favoriteCount", "monthFavoriteCount"}

ASSUME StoresAssumption ==
    /\ First \notin Calls /\ Sellers \subseteq Users /\ IsFiniteSet(Users)
    /\ Absent \notin Row \cup {Gone} /\ Gone \notin Row

VARIABLES
    at, job,
    figures,    \* call -> the figures it has counted
    torn,       \* history: calls about a store whose favorites changed meanwhile
    users,      \* users there are
    store,      \* id -> row, or Absent before and Gone after
    favorite,   \* pairs of a user and a store
    recent      \* those marked in the current month

marks == <<favorite, recent>>
rows == <<users, store, marks>>
storesVars == <<at, job, figures, torn, rows>>

Ended == {"done", "rejected", "failed"}
Active == {"creating", "updating", "seeking", "adding", "dropping", "counting"}
Places == {"idle"} \cup Active \cup Ended

Exists(s) == store[s] \notin {Absent, Gone}
Sells(u, s) == Exists(s) /\ store[s].seller = u
HasStore(u) == \E s \in Stores : Sells(u, s)

StoresInit ==
    /\ at = [c \in Calls |-> "idle"]
    /\ job = [c \in Calls |-> NoJob]
    /\ figures = [c \in Calls |-> << >>]
    /\ torn = {}
    /\ users = Users
    /\ \E u \in Sellers :
          store = [s \in Stores |-> IF s = First
                                    THEN [seller |-> u, form |-> [f \in Fields |-> First]]
                                    ELSE Absent]
    /\ \E fans \in SUBSET (Users \ {store[First].seller}) : favorite = fans \X {First}
    /\ recent \in SUBSET favorite

Move(c, label) == at' = [at EXCEPT ![c] = label]
End(c, label) == Move(c, label) /\ UNCHANGED <<job, figures>>

(* The guard has found the token's user; who is removed before the next     *)
(* await goes on all the same.  The first read of the handler and its       *)
(* checks decide whether the request goes on and is remembered.             *)
Begin(c, j, label) ==
    /\ at[c] = "idle"
    /\ Move(c, label)
    /\ job' = IF label = "rejected" THEN job ELSE [job EXCEPT ![c] = j]
    /\ UNCHANGED <<figures, torn, rows>>

(* Who is about a store whose favorites change.                             *)
Tear(changed) ==
    torn' = torn \cup {d \in Calls : at[d] = "counting" /\ job[d].store \in changed}

--------------------------------------------------------------------------------
(* createStore                                                              *)
BeginCreate(c) ==
    \E u \in Users :
        Begin(c, [kind |-> "create", user |-> u],
              IF u \in Sellers /\ ~ HasStore(u) THEN "creating" ELSE "rejected")

Opened(c) == store' = [store EXCEPT ![c] = [seller |-> job[c].user, form |-> [f \in Fields |-> c]]]

(* Mutant of CreateStore: no unique key on the seller.                      *)
CreateAlways(c) ==
    /\ at[c] = "creating"
    /\ IF job[c].user \in users
       THEN End(c, "done") /\ Opened(c)
       ELSE End(c, "failed") /\ UNCHANGED store
    /\ UNCHANGED <<torn, users, marks>>

(* The insert refers to the seller, and the unique key decides between two  *)
(* that found no store.                                                     *)
CreateStore(c) ==
    /\ at[c] = "creating"
    /\ IF job[c].user \in users /\ ~ HasStore(job[c].user)
       THEN End(c, "done") /\ Opened(c)
       ELSE End(c, "failed") /\ UNCHANGED store
    /\ UNCHANGED <<torn, users, marks>>

(* updateStore: the fields that were sent, the image among them, by id.     *)
BeginUpdate(c) ==
    \E u \in Users, s \in Stores, sent \in SUBSET Fields :
        Begin(c, [kind |-> "update", user |-> u, store |-> s, sent |-> sent],
              IF u \in Sellers /\ Sells(u, s) THEN "updating" ELSE "rejected")

UpdateStore(c) ==
    LET s == job[c].store IN
    /\ at[c] = "updating"
    /\ IF Exists(s)
       THEN End(c, "done") /\
            store' = [store EXCEPT ![s].form =
                         [f \in Fields |-> IF f \in job[c].sent THEN c ELSE @[f]]]
       ELSE End(c, "failed") /\ UNCHANGED store
    /\ UNCHANGED <<torn, users, marks>>

--------------------------------------------------------------------------------
(* Mutant of BeginRegister: one's own store is a store like any other.      *)
BeginRegisterAny(c) ==
    \E u \in Users, s \in Stores :
        Begin(c, [kind |-> "register", user |-> u, store |-> s],
              IF Exists(s) THEN "seeking" ELSE "rejected")

(* registerInterestStore                                                    *)
BeginRegister(c) ==
    \E u \in Users, s \in Stores :
        Begin(c, [kind |-> "register", user |-> u, store |-> s],
              IF Exists(s) /\ ~ Sells(u, s) THEN "seeking" ELSE "rejected")

(* The upsert is a select and an insert, at worst with others in between.   *)
SeekFavorite(c) ==
    /\ at[c] = "seeking"
    /\ End(c, IF <<job[c].user, job[c].store>> \in favorite THEN "done" ELSE "adding")
    /\ UNCHANGED <<torn, rows>>

AddFavorite(c) ==
    LET pair == <<job[c].user, job[c].store>> IN
    /\ at[c] = "adding"
    /\ IF pair \notin favorite /\ job[c].user \in users /\ Exists(job[c].store)
       THEN /\ End(c, "done") /\ Tear({job[c].store})
            /\ favorite' = favorite \cup {pair}
            /\ recent' = recent \cup {pair}
       ELSE End(c, "failed") /\ UNCHANGED <<torn, marks>>
    /\ UNCHANGED <<users, store>>

(* deleteInterestStore: the delete fails on a mark that is not there.       *)
BeginDrop(c) ==
    \E u \in Users, s \in Stores :
        Begin(c, [kind |-> "drop", user |-> u, store |-> s],
              IF Exists(s) THEN "dropping" ELSE "rejected")

DropFavorite(c) ==
    LET pair == <<job[c].user, job[c].store>> IN
    /\ at[c] = "dropping"
    /\ IF pair \in favorite THEN End(c, "done") /\ Tear({job[c].store})
                            ELSE End(c, "failed") /\ UNCHANGED torn
    /\ favorite' = favorite \ {pair}
    /\ recent' = recent \ {pair}
    /\ UNCHANGED <<users, store>>

--------------------------------------------------------------------------------
(* getMyStoreDetail asks for both figures at once, getStoreDetail for one.  *)
BeginMyDetail(c) ==
    \E u \in Users, s \in Stores :
        /\ HasStore(u) => Sells(u, s)
        /\ Begin(c, [kind |-> "detail", user |-> u, store |-> s, asks |-> Figure],
                 IF HasStore(u) THEN "counting" ELSE "rejected")

BeginDetail(c) ==
    \E u \in Users, s \in Stores :
        Begin(c, [kind |-> "detail", user |-> u, store |-> s, asks |-> {"favoriteCount"}],
              IF Exists(s) THEN "counting" ELSE "rejected")

(* Mutant of Marks: the queries' results are taken the wrong way round.     *)
MarksSwapped(figure, s) ==
    {m \in (IF figure = "favoriteCount" THEN recent ELSE favorite) : m[2] = s}

Marks(figure, s) ==
    {m \in (IF figure = "favoriteCount" THEN favorite ELSE recent) : m[2] = s}

Count(c, figure) ==
    LET known == DOMAIN figures[c] \cup {figure} IN
    /\ at[c] = "counting" /\ figure \in job[c].asks \ DOMAIN figures[c]
    /\ figures' = [figures EXCEPT ![c] =
                      [x \in known |-> IF x = figure
                                       THEN Cardinality(Marks(figure, job[c].store))
                                       ELSE figures[c][x]]]
    /\ Move(c, IF known = job[c].asks THEN "done" ELSE "counting")
    /\ UNCHANGED <<job, torn, rows>>

--------------------------------------------------------------------------------
(* deleteMe (module Accounts) cascades to the store and to the marks.       *)
RemoveUser(u) ==
    LET mine == {s \in Stores : Sells(u, s)}
        lost == {m \in favorite : m[1] = u \/ m[2] \in mine} IN
    /\ u \in users
    /\ users' = users \ {u}
    /\ store' = [s \in Stores |-> IF s \in mine THEN Gone ELSE store[s]]
    /\ favorite' = favorite \ lost
    /\ recent' = recent \ lost
    /\ Tear({m[2] : m \in lost})
    /\ UNCHANGED <<at, job, figures>>

TurnMonth ==
    /\ recent # {} /\ recent' = {}
    /\ UNCHANGED <<at, job, figures, torn, users, store, favorite>>

Fail(c) == at[c] \in Active /\ End(c, "failed") /\ UNCHANGED <<torn, rows>>

StoresRest ==
    /\ \A c \in Calls : at[c] \in Ended
    /\ UNCHANGED storesVars

StoresNext ==
    \/ \E c \in Calls :
        \/ BeginCreate(c) \/ CreateStore(c)
        \/ BeginUpdate(c) \/ UpdateStore(c)
        \/ BeginRegister(c) \/ SeekFavorite(c) \/ AddFavorite(c)
        \/ BeginDrop(c) \/ DropFavorite(c)
        \/ BeginMyDetail(c) \/ BeginDetail(c)
        \/ \E figure \in Figure : Count(c, figure)
        \/ Fail(c)
    \/ \E u \in Users : RemoveUser(u)
    \/ TurnMonth
    \/ StoresRest

StoresSpec == StoresInit /\ [][StoresNext]_storesVars

--------------------------------------------------------------------------------
(* A store comes to a seller that is there and has no other, is changed by  *)
(* its seller and in the fields that were sent, and goes with its seller,   *)
(* however the checks and the writes of the requests cross                  *)
(* (store.service.ts:37-51, 68-85; schema.prisma:108).                      *)
StoresBelongToSellers ==
    [][\A s \in Stores : store'[s] # store[s] =>
        \/ /\ store[s] = Absent
           /\ store'[s].seller \in users /\ ~ HasStore(store'[s].seller)
        \/ store'[s] = Gone /\ store[s].seller \notin users'
        \/ \E c \in Calls :
            /\ at[c] = "updating" /\ at'[c] = "done"
            /\ store'[s].seller = store[s].seller /\ job[c].user = store[s].seller
            /\ \A f \in Fields \ job[c].sent : store'[s].form[f] = store[s].form[f]]_storesVars

(* Every mark is a user's that is there on a store that is there, and never *)
(* the seller's own, whatever is removed or opened between the check and    *)
(* the insert (store.service.ts:266-277).                                   *)
FavoritesSound ==
    \A m \in favorite : m[1] \in users /\ Exists(m[2]) /\ ~ Sells(m[1], m[2])

(* A detail page never shows more favorites of this month than favorites,   *)
(* unless a mark came or went between its queries: they run one by one, in  *)
(* any order and in snapshots of their own (store.service.ts:135-141).      *)
FiguresAgreeUnlessTorn ==
    \A c \in Calls :
        at[c] = "done" /\ DOMAIN figures[c] = Figure /\ c \notin torn
        => figures[c]["monthFavoriteCount"] <= figures[c]["favoriteCount"]
================================================================================
