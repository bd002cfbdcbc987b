------------------------------- MODULE Feed -------------------------------
(***************************************************************************)
(* What a Broadcaster promises to its callers, without its locks, loops,   *)
(* generations and timers: one poller feeds the members in the order of    *)
(* its ticks, never touches the feed of somebody it has closed it for, and *)
(* a shutdown closes every feed once the poller is gone.                   *)
(***************************************************************************)
EXTENDS Naturals, Sequences

CONSTANTS
  Conns,     \* consumers
  ChanCap    \* how much a consumer's inbox holds

VARIABLES
  place,     \* "outside", then "member", then "gone"
  closedFor, \* consumers whose feed has been closed
  inbox,     \* delivered and not yet taken: the ticks of the payloads
  last,      \* the latest tick delivered to a consumer
  polling,   \* the poller is running
  now,       \* the ticks of the poller so far
  phase      \* "up", then "stopping", then "down"

feedVars == <<place, closedFor, inbox, last, polling, now, phase>>

Init ==
  /\ place = [c \in Conns |-> "outside"]
  /\ closedFor = {}
  /\ inbox = [c \in Conns |-> <<>>]
  /\ last = [c \in Conns |-> 0]
  /\ polling = FALSE
  /\ now = 0
  /\ phase = "up"

\* A newcomer becomes a member; the first one may start the poller.
Join(c) ==
  /\ phase = "up"
  /\ place[c] = "outside"
  /\ place' = [place EXCEPT ![c] = "member"]
  /\ polling' \in {polling, TRUE}
  /\ UNCHANGED <<closedFor, inbox, last, now, phase>>

\* The poller starts (again) for the members there are.
Start ==
  /\ phase = "up"
  /\ ~polling
  /\ \E c \in Conns : place[c] = "member"
  /\ polling' = TRUE
  /\ UNCHANGED <<place, closedFor, inbox, last, now, phase>>

\* The poller stops: nobody is left, a fault, or a shutdown.
Halt ==
  /\ polling
  /\ polling' = FALSE
  /\ UNCHANGED <<place, closedFor, inbox, last, now, phase>>

Leave(c) ==
  /\ place[c] = "member"
  /\ place' = [place EXCEPT ![c] = "gone"]
  /\ UNCHANGED <<closedFor, inbox, last, polling, now, phase>>

\* During or after a shutdown: a newcomer, or a member that was still joining,
\* is turned away with a closed feed.
Refuse(c) ==
  /\ phase # "up"
  /\ place[c] \in {"outside", "member"}
  /\ place' = [place EXCEPT ![c] = "gone"]
  /\ closedFor' = closedFor \cup {c}
  /\ UNCHANGED <<inbox, last, polling, now, phase>>

Tick ==
  /\ polling
  /\ now' = now + 1
  /\ UNCHANGED <<place, closedFor, inbox, last, polling, phase>>

\* The payload of the current tick, at most once, to an open feed with room.
Deliver(c) ==
  /\ polling
  /\ place[c] # "outside"
  /\ c \notin closedFor
  /\ Len(inbox[c]) < ChanCap
  /\ last[c] < now
  /\ inbox' = [inbox EXCEPT ![c] = Append(@, now)]
  /\ last' = [last EXCEPT ![c] = now]
  /\ UNCHANGED <<place, closedFor, polling, now, phase>>

Take(c) ==
  /\ inbox[c] # <<>>
  /\ inbox' = [inbox EXCEPT ![c] = Tail(@)]
  /\ UNCHANGED <<place, closedFor, last, polling, now, phase>>

Stop ==
  /\ phase = "up"
  /\ phase' = "stopping"
  /\ UNCHANGED <<place, closedFor, inbox, last, polling, now>>

\* Every member's feed is closed, and only when the poller is gone.
CloseAll ==
  /\ phase = "stopping"
  /\ ~polling
  /\ closedFor' = closedFor \cup {c \in Conns : place[c] = "member"}
  /\ place' = [c \in Conns |-> IF place[c] = "member" THEN "gone"
                                                      ELSE place[c]]
  /\ phase' = "down"
  /\ UNCHANGED <<inbox, last, polling, now>>

Next ==
  \/ \E c \in Conns : Join(c) \/ Leave(c) \/ Refuse(c) \/ Deliver(c) \/ Take(c)
  \/ Start \/ Halt \/ Tick \/ Stop \/ CloseAll

Spec == Init /\ [][Next]_feedVars

=============================================================================
