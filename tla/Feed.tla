---------------------------------- MODULE Feed ----------------------------------
(***************************************************************************)
(* The notifications of one user (src/notifications): the stream that      *)
(* sends the unread ones at every tick, and the requests that mark one as  *)
(* read.  Modules Checkout and Inquiry say when notifications are written. *)
(*                                                                         *)
(* A step is one await.  switchMap drops the poll before when a tick comes,*)
(* but cannot stop it: a dropped poll goes on and its answer is thrown     *)
(* away.  A tick is one of the ticker, startWith's at the subscription, or *)
(* the last one again, which shareReplay gives to who subscribes.          *)
(***************************************************************************)
EXTENDS Naturals

CONSTANTS
    Checks,         \* requests that mark a notification as read
    Polls,          \* slots: polls there are at a time, dropped ones included
    Alarms,
    Allowed,        \* those of a type that allowedByUserType lists
    Patience,       \* polls in a row that may take longer than a tick
    NoPoll, NoAlarm

ASSUME FeedAssumption ==
    /\ Allowed \subseteq Alarms /\ Patience \in Nat
    /\ NoPoll \notin Polls /\ NoAlarm \notin Alarms

VARIABLES
    marking, target, \* the requests, and what they mark
    alarm,          \* id -> "none", "unread", "read", or "gone" with its user
    stream,         \* "closed", "open", or "ended" by an error
    poll,           \* slot -> where it is, and the list it has read
    current,        \* the poll whose answer is awaited, or NoPoll
    late,           \* polls dropped since an event was sent
    event,          \* the list in the last event, as the client has it
    cleared         \* history: alarms an event had and a later one had not

requests == <<marking, target>>
polling == <<poll, current, late>>
feedVars == <<requests, alarm, stream, polling, event, cleared>>

Checking == {"typing", "marking"}
Free == [at |-> "free", list |-> {}]
There == \A a \in Alarms : alarm[a] # "gone"
Unread == {a \in Alarms : alarm[a] = "unread"}

FeedInit ==
    /\ marking = [c \in Checks |-> "idle"]
    /\ target = [c \in Checks |-> NoAlarm]
    /\ alarm = [a \in Alarms |-> "none"]
    /\ stream = "closed"
    /\ poll = [p \in Polls |-> Free]
    /\ current = NoPoll
    /\ late = 0
    /\ event = {}
    /\ cleared = {}

--------------------------------------------------------------------------------
Notify(a) ==
    /\ alarm[a] = "none"
    /\ alarm' = [alarm EXCEPT ![a] = "unread"]
    /\ UNCHANGED <<requests, stream, polling, event, cleared>>

(* check: findByIdAndUser, and what it read of isRead is looked at after    *)
(* the type of the user was read.                                           *)
BeginCheck(c) ==
    /\ marking[c] = "idle"
    /\ \E a \in Alarms :
        /\ marking' = [marking EXCEPT ![c] = IF alarm[a] = "unread" THEN "typing" ELSE "rejected"]
        /\ target' = [target EXCEPT ![c] = a]
    /\ UNCHANGED <<alarm, stream, polling, event, cleared>>

FindType(c) ==
    /\ marking[c] = "typing"
    /\ marking' = [marking EXCEPT ![c] = IF There THEN "marking" ELSE "failed"]
    /\ UNCHANGED <<target, alarm, stream, polling, event, cleared>>

MarkRead(c) ==
    /\ marking[c] = "marking"
    /\ marking' = [marking EXCEPT ![c] = IF There THEN "done" ELSE "failed"]
    /\ alarm' = IF There THEN [alarm EXCEPT ![target[c]] = "read"] ELSE alarm
    /\ UNCHANGED <<target, stream, polling, event, cleared>>

FailCheck(c) ==
    /\ marking[c] \in Checking
    /\ marking' = [marking EXCEPT ![c] = "failed"]
    /\ UNCHANGED <<target, alarm, stream, polling, event, cleared>>

(* Removal of the user (module Accounts).                                   *)
RemoveUser ==
    /\ There
    /\ alarm' = [a \in Alarms |-> "gone"]
    /\ UNCHANGED <<requests, stream, polling, event, cleared>>

--------------------------------------------------------------------------------
(* A poll is started, and takes the place of the one before.                *)
StartPoll ==
    \E p \in Polls :
        /\ poll[p] = Free
        /\ poll' = [poll EXCEPT ![p].at = "typing"]
        /\ current' = p

Subscribe ==
    /\ stream # "open" /\ There
    /\ stream' = "open" /\ late' = 0
    /\ StartPoll
    /\ UNCHANGED <<requests, alarm, event, cleared>>

Tick ==
    /\ stream = "open"
    /\ current # NoPoll => late < Patience
    /\ late' = IF current = NoPoll THEN late ELSE late + 1
    /\ StartPoll
    /\ UNCHANGED <<requests, alarm, stream, event, cleared>>

(* The client goes away.                                                    *)
Close ==
    /\ stream = "open"
    /\ stream' = "closed" /\ current' = NoPoll
    /\ UNCHANGED <<requests, alarm, poll, late, event, cleared>>

(* An error of the awaited poll ends the stream, one of a dropped poll is   *)
(* nobody's.                                                                *)
Break(p) ==
    /\ poll' = [poll EXCEPT ![p] = Free]
    /\ IF p = current THEN stream' = "ended" /\ current' = NoPoll
                      ELSE UNCHANGED <<stream, current>>
    /\ UNCHANGED <<requests, alarm, late, event, cleared>>

FailPoll(p) == poll[p] # Free /\ Break(p)

(* unread: findUserType, which throws without the user, ...                 *)
PollType(p) ==
    /\ poll[p].at = "typing"
    /\ \/ There /\ poll' = [poll EXCEPT ![p].at = "listing"]
                /\ UNCHANGED <<requests, alarm, stream, current, late, event, cleared>>
       \/ ~ There /\ Break(p)

(* Mutant of PollList: the types of the other kind of user.                 *)
PollOtherTypes(p) ==
    /\ poll[p].at = "listing"
    /\ poll' = [poll EXCEPT ![p] = [at |-> "answering", list |-> Unread \ Allowed]]
    /\ UNCHANGED <<requests, alarm, stream, current, late, event, cleared>>

(* ... and findMany of the unread ones of the allowed types.                *)
PollList(p) ==
    /\ poll[p].at = "listing"
    /\ poll' = [poll EXCEPT ![p] = [at |-> "answering", list |-> Unread \cap Allowed]]
    /\ UNCHANGED <<requests, alarm, stream, current, late, event, cleared>>

Sent(list) ==
    /\ event' = list
    /\ cleared' = cleared \cup (event \ list)

(* Mutant of Answer: mergeMap, every poll's answer is sent.                 *)
AnswerAny(p) ==
    /\ poll[p].at = "answering"
    /\ poll' = [poll EXCEPT ![p] = Free]
    /\ IF stream = "open"
       THEN Sent(poll[p].list) /\ late' = 0
            /\ current' = IF p = current THEN NoPoll ELSE current
       ELSE UNCHANGED <<current, late, event, cleared>>
    /\ UNCHANGED <<requests, alarm, stream>>

Answer(p) ==
    /\ poll[p].at = "answering"
    /\ poll' = [poll EXCEPT ![p] = Free]
    /\ IF p = current
       THEN Sent(poll[p].list) /\ late' = 0 /\ current' = NoPoll
       ELSE UNCHANGED <<current, late, event, cleared>>
    /\ UNCHANGED <<requests, alarm, stream>>

Poll(p) == PollType(p) \/ PollList(p) \/ Answer(p)

FeedRest == ~ There /\ stream # "open" /\ UNCHANGED feedVars

FeedNext ==
    \/ \E a \in Alarms : Notify(a)
    \/ \E c \in Checks : BeginCheck(c) \/ FindType(c) \/ MarkRead(c) \/ FailCheck(c)
    \/ RemoveUser
    \/ Subscribe \/ Tick \/ Close
    \/ \E p \in Polls : Poll(p) \/ FailPoll(p)
    \/ FeedRest

(* The ticker goes on, and every query is answered.                         *)
Fairness == WF_feedVars(Tick) /\ \A p \in Polls : WF_feedVars(Poll(p))

FeedSpec == FeedInit /\ [][FeedNext]_feedVars /\ Fairness

--------------------------------------------------------------------------------
(* An alarm that was in an event and not in a later one never comes back:   *)
(* polls that overtake each other, and streams that are opened again, do    *)
(* not show an older state after a newer one (notifications.controller.ts:  *)
(* 38-44).                                                                  *)
NothingComesBack == event \cap cleared = {}

(* While the stream is open, an unread notification of an allowed type is   *)
(* sent, unless it is read first (notifications.service.ts:15-28).  No more *)
(* than Patience polls in a row may take longer than the 30 s of a tick:    *)
(* switchMap would drop every one of them.                                  *)
UnreadIsSent ==
    \A a \in Allowed :
        alarm[a] = "unread" /\ stream = "open"
        ~> a \in event \/ alarm[a] # "unread" \/ stream # "open"
================================================================================
