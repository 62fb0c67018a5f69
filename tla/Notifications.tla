---------------------------- MODULE Notifications ----------------------------
(***************************************************************************)
(* The messages that the client shows for a while in a corner              *)
(* (Notifications.elm): each gets a number and a timer that dismisses the  *)
(* number.  A dismissal resets the model, so it takes everything off the   *)
(* screen and numbers start again: a later message may get the number of   *)
(* an earlier one whose timer still runs.                                  *)
(*                                                                         *)
(* The runtime delivers a timer's message when it is due, before the clock *)
(* goes on.                                                                *)
(*                                                                         *)
(* A definition that no action or property uses (AddUnnumbered, ...) is a  *)
(* faulty variant of the one that follows it.                              *)
(***************************************************************************)
EXTENDS Integers

CONSTANTS
    DismissIn,  \* how long a message is to be shown
    MaxTime,    \* bound of the clock
    MaxAdded    \* bound on the messages

NotificationsAssumption == DismissIn \in Nat \ {0} /\ MaxTime \in Nat /\ MaxAdded \in Nat

VARIABLES
    notifications,  \* those on the screen: number, and when it was added
    nextId,
    timers,         \* the sleeping tasks: number to dismiss, when, which message's
    now,
    added           \* the number of messages added so far

vars == <<notifications, nextId, timers, now, added>>

Notification == [id : Nat \ {0}, at : 0..MaxTime, message : 1..MaxAdded]
Timer        == [id : Nat \ {0}, due : Nat, message : 1..MaxAdded]

Init ==
    /\ notifications = {} /\ nextId = 1 /\ timers = {} /\ now = 0 /\ added = 0

Show ==
    notifications' = notifications \cup {[id |-> nextId, at |-> now, message |-> added + 1]}
Sleep(length) ==
    timers' = timers \cup {[id |-> nextId, due |-> now + length, message |-> added + 1]}

AddUnnumbered ==
    /\ added < MaxAdded
    /\ Show /\ Sleep(DismissIn)
    /\ added' = added + 1
    /\ UNCHANGED <<nextId, now>>

AddLate ==
    /\ added < MaxAdded
    /\ Show /\ Sleep(DismissIn + 1)
    /\ nextId' = nextId + 1
    /\ added' = added + 1
    /\ UNCHANGED now

Add ==
    /\ added < MaxAdded
    /\ Show /\ Sleep(DismissIn)
    /\ nextId' = nextId + 1
    /\ added' = added + 1
    /\ UNCHANGED now

FireNothing ==
    \E t \in timers :
        /\ t.due <= now
        /\ timers' = timers \ {t}
        /\ UNCHANGED <<notifications, nextId, now, added>>

\* Dismiss: the filtered list is computed and dropped, the answer is newModel.
Fire ==
    \E t \in timers :
        /\ t.due <= now
        /\ timers' = timers \ {t}
        /\ notifications' = {} /\ nextId' = 1
        /\ UNCHANGED <<now, added>>

Tick ==
    /\ now < MaxTime /\ \A t \in timers : t.due > now
    /\ now' = now + 1
    /\ UNCHANGED <<notifications, nextId, timers, added>>

Quiescent == now = MaxTime /\ added = MaxAdded /\ UNCHANGED vars

Next == Add \/ Fire \/ Tick \/ Quiescent

Spec == Init /\ [][Next]_vars

\* The runtime wakes the tasks, and time goes on.
FairSpec == Spec /\ WF_vars(Fire) /\ WF_vars(Tick)

-----------------------------------------------------------------------------
(***************************************************************************)
(* Properties.                                                             *)
(***************************************************************************)

\* Every variable has its type.
TypeOK ==
    /\ \A n \in notifications : n \in Notification
    /\ nextId \in 1..(MaxAdded + 1)
    /\ \A t \in timers : t \in Timer
    /\ now \in 0..MaxTime /\ added \in 0..MaxAdded

\* The messages on the screen have different numbers, and none has the number the
\* next one will get, although dismissals start the numbers again.
NumbersDiffer ==
    /\ \A m, n \in notifications : m.id = n.id => m = n
    /\ \A n \in notifications : n.id < nextId

\* No message stays longer than DismissIn: its own timer or that of an earlier one
\* takes it away.  (It may go sooner: the timer of any earlier message clears the
\* screen.)
GoneInTime ==
    \A n \in notifications : now - n.at <= DismissIn

\* A message on the screen has its timer still running, so that nothing is left
\* that would have to be dismissed by a reload.
ShownAreTimed ==
    \A n \in notifications : \E t \in timers : t.message = n.message /\ t.id = n.id

\* A message has a number and a timer of its own, and stays for its time at most.
MessagesAreTimed == NumbersDiffer /\ GoneInTime /\ ShownAreTimed

\* The screen becomes empty again and again, for as long as time goes on.
ScreenClears ==
    notifications # {} /\ now <= MaxTime - DismissIn ~> notifications = {}

=============================================================================
