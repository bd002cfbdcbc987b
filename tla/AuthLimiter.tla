---------------------------- MODULE AuthLimiter ----------------------------
(***************************************************************************)
(* simpleAuthRateLimit of middleware/auth.go: failures per client address, *)
(* a block of blockWindow once there are limit of them, and a table of     *)
(* bounded size.  The server has two of these, authLimiter for wrong       *)
(* credentials and noCredLimiter for missing ones.                         *)
(***************************************************************************)
EXTENDS Integers, FiniteSets, Functions

CONSTANTS
  Addrs,        \* client addresses
  FailLimit,    \* limit (5 for authLimiter, 30 for noCredLimiter)
  BlockWindow,  \* blockWindow (5 minutes, 1 minute)
  MaxTracked    \* maxTrackedIPs

VARIABLES
  now,     \* the clock
  states   \* address -> authState, for the addresses tracked

\* blockedAt is Zero (time.Time's zero value) while the address is not blocked.
Zero == -1
AuthState == [attempts : Nat, lastAttempt : Int, blockedAt : Int]
Known == DOMAIN states

StatesOK == /\ Known \subseteq Addrs
            /\ states \in [Known -> AuthState]

NoStates == states = [a \in {} |-> [attempts |-> 0, lastAttempt |-> Zero,
                                    blockedAt |-> Zero]]

HasBlock(a) == a \in Known /\ states[a].blockedAt # Zero
Expired(a) == now - states[a].blockedAt >= BlockWindow
Blocked(a) == HasBlock(a) /\ ~Expired(a)

\* isAuthBlocked: an expired block is forgotten, with its attempts, by the
\* first request that meets it.
IsAuthBlocked(a) == Blocked(a) /\ UNCHANGED states
\* A mistake: a block is not looked at.
BugNotBlocked(a) == UNCHANGED states
NotBlocked(a) ==
  /\ ~Blocked(a)
  /\ states' = IF HasBlock(a) THEN Restrict(states, Known \ {a}) ELSE states

\* A mistake: a late failure prolongs the block.
BugFail(st) == [attempts |-> st.attempts + 1, lastAttempt |-> now,
                blockedAt |-> IF st.attempts + 1 >= FailLimit THEN now
                              ELSE st.blockedAt]
\* The state of a after one more failure: a block that is set stays as it is.
Fail(st) == [attempts |-> st.attempts + 1, lastAttempt |-> now,
             blockedAt |-> IF st.attempts + 1 >= FailLimit /\ st.blockedAt = Zero
                           THEN now ELSE st.blockedAt]

\* A mistake: no room is made.
BugRoom == {Known}
\* A full table loses an entry chosen at random, blocked or not.
Room ==
  IF Cardinality(Known) < MaxTracked THEN {Known} ELSE {Known \ {v} : v \in Known}

RecordAuthFailure(a) ==
  \/ /\ a \in Known
     /\ states' = [states EXCEPT ![a] = Fail(@)]
  \/ /\ a \notin Known
     /\ \E kept \in Room :
          states' = [b \in kept \cup {a} |->
                       IF b = a THEN Fail([attempts |-> 0, lastAttempt |-> Zero,
                                           blockedAt |-> Zero])
                       ELSE states[b]]

\* cleanupRateLimiter.
Forgettable(a) ==
  \/ HasBlock(a) /\ Expired(a)
  \/ ~HasBlock(a) /\ now - states[a].lastAttempt >= BlockWindow

CleanupRateLimiter == states' = Restrict(states, {a \in Known : ~Forgettable(a)})

=============================================================================
