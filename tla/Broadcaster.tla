---------------------------- MODULE Broadcaster ----------------------------
(***************************************************************************)
(* sse/broadcaster.go: the lazily started polling loop, its fan-out to the *)
(* subscriber channels, the idle timer that stops the loop after the last  *)
(* subscriber has left, and Stop().                                        *)
(*                                                                         *)
(* Every field of the Broadcaster is read and written only under b.mu, so  *)
(* one critical section is one action; a step boundary is a place where    *)
(* the code holds no lock (a channel receive, a fetch, a send).            *)
(*                                                                         *)
(* Naming.  An element of Conns stands for one call of Subscribe and for   *)
(* the channel it makes.  A polling loop, with its stopCh and loopDone     *)
(* channels, is named after the call that started it, and an idle timer    *)
(* after the channel whose Unsubscribe armed it.  Each of these happens at *)
(* most once per call, so no name is used twice.                           *)
(***************************************************************************)
EXTENDS Naturals, Sequences

CONSTANTS
  Conns,          \* calls of Subscribe, each with its channel
  Data,           \* what a successful fetch may return
  Unmarshalable,  \* the part of Data that json.Marshal rejects
  Degraded,       \* the payload of degradedFn
  None,           \* nil
  ChanCap,        \* capacity of a subscriber channel (5 in the code)
  MaxErrors,      \* maxConsecutiveErrors (3 in the code)
  CallbacksPanic, \* whether enrichFn and degradedFn may panic
  MaxTicks        \* bound on the ticks of a behaviour

ASSUME BroadcasterAssumption ==
  /\ None \notin Conns
  /\ None \notin Data
  /\ Degraded \notin Data
  /\ Unmarshalable \subseteq Data
  /\ ChanCap \in Nat \ {0}
  /\ MaxErrors \in Nat \ {0}
  /\ CallbacksPanic \in BOOLEAN
  /\ MaxTicks \in Nat

VARIABLES
  \* the fields of Broadcaster
  subscribers, stopCh, loopDone, loopGen, stopped, idleTimer, lastBroadcast,
  \* the channels: queued payloads, closed subscriber channels, closed stopChs
  buf, closed, stopClosed,
  \* Subscribe calls: where they are, and the gen and done they captured
  subPc, subGen, subDone,
  \* the idle timers
  timer,
  \* the loop goroutines: where they are, and their local variables
  loopPc, tickAt, errs, prevJSON, msg, targets,
  \* the one execution of the body of Stop, and the loopDone it captured
  stopPc, stopWait,
  \* the clock, and the tick of the payload each consumer received last
  ticks, seen

fieldVars == <<subscribers, stopCh, loopDone, loopGen, stopped, idleTimer>>
chanVars == <<buf, closed, stopClosed>>
callVars == <<subPc, subGen, subDone>>
localVars == <<tickAt, errs, prevJSON, msg, targets>>
loopVars == <<loopPc, tickAt, errs, prevJSON, msg, targets>>
stopVars == <<stopPc, stopWait>>
vars == <<fieldVars, lastBroadcast, chanVars, callVars, timer, loopVars,
          stopVars, ticks, seen>>

\* A payload, with the tick that produced it; the fields enrichFn derives
\* are not represented.
Payload == [data : Data \cup {Degraded}, at : Nat]
NoPayload == [data |-> Degraded, at |-> 0]

LoopPcs == {"none", "select", "fetch", "snapshot", "send", "exited"}
SubPcs == {"idle", "waiting", "active", "left", "panicked"}

TypeOK ==
  /\ subscribers \subseteq Conns
  /\ stopCh \in Conns \cup {None}
  /\ loopDone \in Conns \cup {None}
  /\ loopGen \in Nat
  /\ stopped \in BOOLEAN
  /\ idleTimer \in Conns \cup {None}
  /\ lastBroadcast \in Payload
  /\ buf \in [Conns -> Seq(Payload)]
  /\ \A c \in Conns : Len(buf[c]) <= ChanCap
  /\ closed \subseteq Conns
  /\ stopClosed \subseteq Conns
  /\ subPc \in [Conns -> SubPcs]
  /\ subGen \in [Conns -> Nat]
  /\ subDone \in [Conns -> Conns \cup {None}]
  /\ timer \in [Conns -> {"off", "armed", "fired"}]
  /\ loopPc \in [Conns -> LoopPcs]
  /\ tickAt \in [Conns -> Nat]
  /\ errs \in [Conns -> Nat]
  /\ prevJSON \in [Conns -> Data \cup {None}]
  /\ msg \in [Conns -> Payload]
  /\ targets \in [Conns -> SUBSET Conns]
  /\ stopPc \in {"idle", "waiting", "done"}
  /\ stopWait \in Conns \cup {None}
  /\ ticks \in Nat
  /\ seen \in [Conns -> Nat]

Live(l) == loopPc[l] \notin {"none", "exited"}

\* A receive from loopDone channel l returns: its loop goroutine has ended.
DoneClosed(l) == loopPc[l] = "exited"

Init ==
  /\ subscribers = {}
  /\ stopCh = None
  /\ loopDone = None
  /\ loopGen = 0
  /\ stopped = FALSE
  /\ idleTimer = None
  /\ lastBroadcast = NoPayload
  /\ buf = [c \in Conns |-> <<>>]
  /\ closed = {}
  /\ stopClosed = {}
  /\ subPc = [c \in Conns |-> "idle"]
  /\ subGen = [c \in Conns |-> 0]
  /\ subDone = [c \in Conns |-> None]
  /\ timer = [c \in Conns |-> "off"]
  /\ loopPc = [l \in Conns |-> "none"]
  /\ tickAt = [l \in Conns |-> 0]
  /\ errs = [l \in Conns |-> 0]
  /\ prevJSON = [l \in Conns |-> None]
  /\ msg = [l \in Conns |-> NoPayload]
  /\ targets = [l \in Conns |-> {}]
  /\ stopPc = "idle"
  /\ stopWait = None
  /\ ticks = 0
  /\ seen = [c \in Conns |-> 0]

-----------------------------------------------------------------------------
(* The guards and the shared steps of the operations.  An operator named     *)
(* Bug... is the operator that follows it with a plausible mistake, used to  *)
(* confirm that the properties below tell the two apart.                     *)

BugAdmitted == TRUE

\* Subscribe goes past its check of b.stopped.
Admitted == ~stopped

BugCancelIdle ==
  /\ timer' = [t \in Conns |-> IF t = idleTimer /\ timer[t] = "armed"
                                 THEN "off" ELSE timer[t]]
  /\ UNCHANGED idleTimer

\* idleTimer.Stop() prevents a callback only while the timer has not fired.
CancelIdle ==
  /\ timer' = [t \in Conns |-> IF t = idleTimer /\ timer[t] = "armed"
                                 THEN "off" ELSE timer[t]]
  /\ idleTimer' = None

\* wasEmpty: nobody is subscribed and no loop has been asked for.
WasEmpty == subscribers = {} /\ stopCh = None

BugPreviousLoopGone(c) == TRUE

\* <-done returns: the loop this Subscribe waits for has closed loopDone.
PreviousLoopGone(c) == DoneClosed(subDone[c])

StartLoop(c) ==
  /\ stopCh' = c
  /\ loopDone' = c
  /\ loopPc' = [loopPc EXCEPT ![c] = "select"]

\* close(b.stopCh); b.stopCh = nil -- without the second, or the first
BugKeepStopCh ==
  /\ stopClosed' = IF stopCh # None THEN stopClosed \cup {stopCh}
                                    ELSE stopClosed
  /\ UNCHANGED stopCh
BugForgetStopCh ==
  /\ UNCHANGED stopClosed
  /\ stopCh' = None

\* if b.stopCh != nil { close(b.stopCh); b.stopCh = nil }
CloseStopCh ==
  /\ stopClosed' = IF stopCh # None THEN stopClosed \cup {stopCh}
                                    ELSE stopClosed
  /\ stopCh' = None

\* The last subscriber has left a running loop and no timer is pending.
ArmsIdle(remaining) == remaining = {} /\ stopCh # None /\ idleTimer = None

\* The callback without its test of the subscribers.
BugIdleCloses == ~stopped /\ stopCh # None

\* The idle callback stops the loop: still nobody there, and Stop has not run.
IdleCloses == ~stopped /\ subscribers = {} /\ stopCh # None

BugHasRoom(c) == Len(buf[c]) <= ChanCap

\* The non-blocking send finds a free place in the channel's buffer.
HasRoom(c) == Len(buf[c]) < ChanCap

BugStopMayClose == TRUE

\* Stop goes on to close the channels: the loop, if there was one, has exited.
StopMayClose == stopWait # None => DoneClosed(stopWait)

-----------------------------------------------------------------------------
(* Subscribe and Unsubscribe *)

\* After Stop, Subscribe returns a channel that is already closed.
SubscribeStopped(c) ==
  /\ subPc[c] = "idle"
  /\ ~Admitted
  /\ closed' = closed \cup {c}
  /\ subPc' = [subPc EXCEPT ![c] = "active"]
  /\ UNCHANGED <<fieldVars, lastBroadcast, buf, stopClosed, subGen, subDone,
                 timer, loopVars, stopVars, ticks, seen>>

\* A loop is running, or another Subscribe is about to start one.
SubscribeJoin(c) ==
  /\ subPc[c] = "idle"
  /\ Admitted
  /\ ~WasEmpty
  /\ CancelIdle
  /\ subscribers' = subscribers \cup {c}
  /\ subPc' = [subPc EXCEPT ![c] = "active"]
  /\ UNCHANGED <<stopCh, loopDone, loopGen, stopped, lastBroadcast, chanVars,
                 subGen, subDone, loopVars, stopVars, ticks, seen>>

\* The first loop of this Broadcaster: there is no earlier one to wait for.
SubscribeFirst(c) ==
  /\ subPc[c] = "idle"
  /\ Admitted
  /\ WasEmpty
  /\ loopDone = None
  /\ CancelIdle
  /\ subscribers' = subscribers \cup {c}
  /\ StartLoop(c)
  /\ subPc' = [subPc EXCEPT ![c] = "active"]
  /\ UNCHANGED <<loopGen, stopped, lastBroadcast, chanVars, subGen, subDone,
                 localVars, stopVars, ticks, seen>>

\* An earlier loop may still be running: capture gen and done, drop the lock.
SubscribeAwait(c) ==
  /\ subPc[c] = "idle"
  /\ Admitted
  /\ WasEmpty
  /\ loopDone # None
  /\ CancelIdle
  /\ subscribers' = subscribers \cup {c}
  /\ subGen' = [subGen EXCEPT ![c] = loopGen]
  /\ subDone' = [subDone EXCEPT ![c] = loopDone]
  /\ subPc' = [subPc EXCEPT ![c] = "waiting"]
  /\ UNCHANGED <<stopCh, loopDone, loopGen, stopped, lastBroadcast, chanVars,
                 loopVars, stopVars, ticks, seen>>

\* <-done returned and the lock is held again; the generation is unchanged,
\* so the new loop is started.
SubscribeRestart(c) ==
  /\ subPc[c] = "waiting"
  /\ PreviousLoopGone(c)
  /\ subGen[c] = loopGen
  /\ StartLoop(c)
  /\ subPc' = [subPc EXCEPT ![c] = "active"]
  /\ UNCHANGED <<subscribers, loopGen, stopped, idleTimer, lastBroadcast,
                 chanVars, subGen, subDone, timer, localVars, stopVars, ticks,
                 seen>>

\* The generation changed meanwhile.  If Stop ran, the channel is removed and
\* closed; close panics when Stop has closed it already (the deferred unlock
\* runs, and the caller never gets a channel).
SubscribeGiveUp(c) ==
  /\ subPc[c] = "waiting"
  /\ PreviousLoopGone(c)
  /\ subGen[c] # loopGen
  /\ subscribers' = IF stopped THEN subscribers \ {c} ELSE subscribers
  /\ closed' = IF stopped THEN closed \cup {c} ELSE closed
  /\ subPc' = [subPc EXCEPT ![c] = IF stopped /\ c \in closed
                                     THEN "panicked" ELSE "active"]
  /\ UNCHANGED <<stopCh, loopDone, loopGen, stopped, idleTimer, lastBroadcast,
                 buf, stopClosed, subGen, subDone, timer, loopVars, stopVars,
                 ticks, seen>>

\* The last subscriber to leave a running loop arms the idle timer.
Unsubscribe(c) ==
  LET remaining == subscribers \ {c}
      arms == ArmsIdle(remaining)
  IN  /\ subPc[c] = "active"
      /\ subscribers' = remaining
      /\ idleTimer' = IF arms THEN c ELSE idleTimer
      /\ timer' = IF arms THEN [timer EXCEPT ![c] = "armed"] ELSE timer
      /\ subPc' = [subPc EXCEPT ![c] = "left"]
      /\ UNCHANGED <<stopCh, loopDone, loopGen, stopped, lastBroadcast,
                     chanVars, subGen, subDone, loopVars, stopVars, ticks,
                     seen>>

\* The consumer takes the oldest queued payload.
Receive(c) ==
  /\ subPc[c] = "active"
  /\ buf[c] # <<>>
  /\ seen' = [seen EXCEPT ![c] = Head(buf[c]).at]
  /\ buf' = [buf EXCEPT ![c] = Tail(@)]
  /\ UNCHANGED <<fieldVars, lastBroadcast, closed, stopClosed, callVars, timer,
                 loopVars, stopVars, ticks>>

-----------------------------------------------------------------------------
(* The idle timer *)

\* broadcasterIdleTimeout elapses; the callback still has to take b.mu.
TimerFires(t) ==
  /\ timer[t] = "armed"
  /\ timer' = [timer EXCEPT ![t] = "fired"]
  /\ UNCHANGED <<fieldVars, lastBroadcast, chanVars, callVars, loopVars,
                 stopVars, ticks, seen>>

IdleCallback(t) ==
  /\ timer[t] = "fired"
  /\ timer' = [timer EXCEPT ![t] = "off"]
  /\ IF IdleCloses THEN CloseStopCh ELSE UNCHANGED <<stopCh, stopClosed>>
  /\ idleTimer' = None
  /\ UNCHANGED <<subscribers, loopDone, loopGen, stopped, lastBroadcast, buf,
                 closed, callVars, loopVars, stopVars, ticks, seen>>

-----------------------------------------------------------------------------
(* The loop goroutine *)

\* The goroutine ends: its locals are gone and loopDone is closed.
LoopExit(l) ==
  /\ loopPc' = [loopPc EXCEPT ![l] = "exited"]
  /\ tickAt' = [tickAt EXCEPT ![l] = 0]
  /\ errs' = [errs EXCEPT ![l] = 0]
  /\ prevJSON' = [prevJSON EXCEPT ![l] = None]
  /\ msg' = [msg EXCEPT ![l] = NoPayload]
  /\ targets' = [targets EXCEPT ![l] = {}]

\* select takes the stopCh case.
LoopStops(l) ==
  /\ loopPc[l] = "select"
  /\ l \in stopClosed
  /\ LoopExit(l)
  /\ UNCHANGED <<fieldVars, lastBroadcast, chanVars, callVars, timer, stopVars,
                 ticks, seen>>

\* select takes the ticker case, which it may do even when stopCh is closed.
Tick(l) ==
  /\ loopPc[l] = "select"
  /\ ticks < MaxTicks
  /\ ticks' = ticks + 1
  /\ tickAt' = [tickAt EXCEPT ![l] = ticks + 1]
  /\ loopPc' = [loopPc EXCEPT ![l] = "fetch"]
  /\ UNCHANGED <<fieldVars, lastBroadcast, chanVars, callVars, timer, errs,
                 prevJSON, msg, targets, stopVars, seen>>

\* fetchFn fails (or panics, which is turned into an error) and no degraded
\* event is due; or one is due and degradedFn panics.
FetchFails(l) ==
  /\ loopPc[l] = "fetch"
  /\ errs[l] + 1 # MaxErrors \/ CallbacksPanic
  /\ errs' = [errs EXCEPT ![l] = @ + 1]
  /\ loopPc' = [loopPc EXCEPT ![l] = "select"]
  /\ UNCHANGED <<fieldVars, lastBroadcast, chanVars, callVars, timer, tickAt,
                 prevJSON, msg, targets, stopVars, ticks, seen>>

\* The failure that reaches maxConsecutiveErrors: a degraded event is pushed.
FetchDegrades(l) ==
  /\ loopPc[l] = "fetch"
  /\ errs[l] + 1 = MaxErrors
  /\ errs' = [errs EXCEPT ![l] = @ + 1]
  /\ msg' = [msg EXCEPT ![l] = [data |-> Degraded, at |-> tickAt[l]]]
  /\ loopPc' = [loopPc EXCEPT ![l] = "snapshot"]
  /\ UNCHANGED <<fieldVars, lastBroadcast, chanVars, callVars, timer, tickAt,
                 prevJSON, targets, stopVars, ticks, seen>>

\* The payload is the one of the previous tick: nothing is broadcast.
FetchDuplicate(l) ==
  /\ loopPc[l] = "fetch"
  /\ prevJSON[l] # None
  /\ errs' = [errs EXCEPT ![l] = 0]
  /\ loopPc' = [loopPc EXCEPT ![l] = "select"]
  /\ UNCHANGED <<fieldVars, lastBroadcast, chanVars, callVars, timer, tickAt,
                 prevJSON, msg, targets, stopVars, ticks, seen>>

\* A new payload: it becomes prevJSON (nil when it cannot be marshaled) and
\* lastBroadcast, and will be sent.
FetchFresh(l, d) ==
  /\ loopPc[l] = "fetch"
  /\ d # prevJSON[l]
  /\ errs' = [errs EXCEPT ![l] = 0]
  /\ prevJSON' = [prevJSON EXCEPT ![l] = IF d \in Unmarshalable
                                           THEN None ELSE d]
  /\ msg' = [msg EXCEPT ![l] = [data |-> d, at |-> tickAt[l]]]
  /\ lastBroadcast' = [data |-> d, at |-> tickAt[l]]
  /\ loopPc' = [loopPc EXCEPT ![l] = "snapshot"]
  /\ UNCHANGED <<fieldVars, chanVars, callVars, timer, tickAt, targets,
                 stopVars, ticks, seen>>

\* The panic ends the goroutine without close(loopDone).
BugLoopPanics(l) ==
  /\ CallbacksPanic
  /\ loopPc[l] = "fetch"
  /\ loopPc' = [loopPc EXCEPT ![l] = "none"]
  /\ UNCHANGED <<fieldVars, lastBroadcast, chanVars, callVars, timer, localVars,
                 stopVars, ticks, seen>>

\* enrichFn panics: the loop recovers and returns; stopCh stays as it is.
LoopPanics(l) ==
  /\ CallbacksPanic
  /\ loopPc[l] = "fetch"
  /\ LoopExit(l)
  /\ UNCHANGED <<fieldVars, lastBroadcast, chanVars, callVars, timer, stopVars,
                 ticks, seen>>

\* The loop goes on sending while channels of the snapshot remain.
Remaining(l, T) ==
  /\ targets' = [targets EXCEPT ![l] = T]
  /\ loopPc' = [loopPc EXCEPT ![l] = IF T = {} THEN "select" ELSE "send"]

Snapshot(l) ==
  /\ loopPc[l] = "snapshot"
  /\ Remaining(l, subscribers)
  /\ UNCHANGED <<fieldVars, lastBroadcast, chanVars, callVars, timer, tickAt,
                 errs, prevJSON, msg, stopVars, ticks, seen>>

\* A blocking send: the loop waits for a slow client.
BugSend(l, c) ==
  /\ loopPc[l] = "send"
  /\ c \in targets[l] \ closed
  /\ HasRoom(c)
  /\ buf' = [buf EXCEPT ![c] = Append(@, msg[l])]
  /\ Remaining(l, targets[l] \ {c})
  /\ UNCHANGED <<tickAt, errs, prevJSON, msg>>
  /\ UNCHANGED <<fieldVars, lastBroadcast, closed, stopClosed, callVars, timer,
                 stopVars, ticks, seen>>

\* One non-blocking send, without the lock: a full channel drops the payload,
\* a closed one panics and ends the loop.
Send(l, c) ==
  /\ loopPc[l] = "send"
  /\ c \in targets[l]
  /\ IF c \in closed
       THEN LoopExit(l) /\ UNCHANGED buf
       ELSE /\ buf' = IF HasRoom(c)
                        THEN [buf EXCEPT ![c] = Append(@, msg[l])] ELSE buf
            /\ Remaining(l, targets[l] \ {c})
            /\ UNCHANGED <<tickAt, errs, prevJSON, msg>>
  /\ UNCHANGED <<fieldVars, lastBroadcast, closed, stopClosed, callVars, timer,
                 stopVars, ticks, seen>>

-----------------------------------------------------------------------------
(* Stop: the body runs once, in two critical sections *)

StopBegin ==
  /\ stopPc = "idle"
  /\ stopped' = TRUE
  /\ loopGen' = loopGen + 1
  /\ CancelIdle
  /\ CloseStopCh
  /\ stopWait' = loopDone
  /\ stopPc' = "waiting"
  /\ UNCHANGED <<subscribers, loopDone, lastBroadcast, buf, closed, callVars,
                 loopVars, ticks, seen>>

StopClose ==
  /\ stopPc = "waiting"
  /\ StopMayClose
  /\ closed' = closed \cup subscribers
  /\ subscribers' = {}
  /\ stopPc' = "done"
  /\ UNCHANGED <<stopCh, loopDone, loopGen, stopped, idleTimer, lastBroadcast,
                 buf, stopClosed, callVars, timer, loopVars, stopWait, ticks,
                 seen>>

-----------------------------------------------------------------------------
\* Everybody is done: the only way a behaviour may come to an end.
Finished ==
  /\ \A c \in Conns : /\ subPc[c] \in {"left", "panicked"}
                      /\ timer[c] = "off"
                      /\ ~Live(c)
  /\ stopPc = "done"
  /\ UNCHANGED vars

\* What a loop does once it has taken a tick, up to its next select.
LoopWork(l) ==
  \/ FetchFails(l)
  \/ FetchDegrades(l)
  \/ FetchDuplicate(l)
  \/ \E d \in Data : FetchFresh(l, d)
  \/ LoopPanics(l)
  \/ Snapshot(l)
  \/ \E c \in Conns : Send(l, c)

SubscribeReturns(c) == SubscribeRestart(c) \/ SubscribeGiveUp(c)

Next ==
  \/ \E c \in Conns :
       \/ SubscribeStopped(c)
       \/ SubscribeJoin(c)
       \/ SubscribeFirst(c)
       \/ SubscribeAwait(c)
       \/ SubscribeReturns(c)
       \/ Unsubscribe(c)
       \/ Receive(c)
       \/ TimerFires(c)
       \/ IdleCallback(c)
       \/ LoopStops(c)
       \/ Tick(c)
       \/ LoopWork(c)
  \/ StopBegin
  \/ StopClose
  \/ Finished

Spec == Init /\ [][Next]_vars

-----------------------------------------------------------------------------
(* Safety *)

\* The gate in Subscribe (<-done, then start) keeps two polling goroutines
\* from ever running together: no duplicate fetches and broadcasts.
AtMostOneLoop == \A l, m \in Conns : Live(l) /\ Live(m) => l = m

\* Stop waits for the loop before it closes the channels, and whoever is
\* registered has an open channel: no send of the loop, now or after its next
\* snapshot, can hit a closed channel.
NoSendOnClosed ==
  /\ \A l \in Conns : targets[l] \cap closed = {}
  /\ subscribers \cap closed = {}

\* b.stopCh is nil or an open channel that belongs to the newest loop: the
\* close in Stop and the close in the idle callback never hit a closed channel,
\* and never the channel of a loop other than the running one.
StopChOpen == stopCh # None => stopCh \notin stopClosed /\ stopCh = loopDone

\* After Stop has returned no loop runs or can be started, and every consumer
\* holds a closed channel, whatever Subscribe calls were in flight: no SSE
\* handler is left waiting for a payload that nobody will send.
ClosedAfterStop ==
  stopPc = "done" =>
    /\ \A c \in Conns : subPc[c] = "active" => c \in closed
    /\ \A l \in Conns : ~Live(l)
    /\ stopCh = None
    /\ subscribers = {}

\* While somebody is subscribed there is a loop that has not been told to
\* stop, or a Subscribe that is going to start one: a stale idle timer never
\* stops the loop under a client, and joining a restart in progress is safe.
\* (A loop ended by a panic of enrichFn keeps stopCh: it counts here.)
ServedOrStarting ==
  subscribers # {} /\ ~stopped =>
    \/ stopCh # None
    \/ \E c \in Conns : subPc[c] = "waiting"

\* A loop that nobody listens to has a timer that will end it, and a timer is
\* pending only while nobody listens: loops are not leaked.
IdleLoopHasTimer ==
  /\ subscribers = {} /\ stopCh # None => idleTimer # None
  /\ idleTimer # None => /\ subscribers = {}
                         /\ timer[idleTimer] \in {"armed", "fired"}

\* "Channel closing is handled exclusively by Stop()" (Unsubscribe's comment):
\* the close in Subscribe never hits a channel that Stop has closed.
NoCloseTwice == \A c \in Conns : subPc[c] # "panicked"

\* "the loop continues running for idleTimeout before stopping" (the comment of
\* Broadcaster): other than by Stop, the loop is stopped only by the expiry of
\* the timer armed by the latest departure.
IdleGraceHonoured ==
  [][stopCh # None /\ stopCh' = None /\ ~stopped'
       => idleTimer \in {t \in Conns : timer[t] = "fired"}]_vars

-----------------------------------------------------------------------------
(* The inductive invariant behind the safety properties *)

\* Loops: only the newest one may be running, b.stopCh is its stopCh, and a
\* call that has not started its loop has no loop to its name.
LoopsInv ==
  /\ loopDone # None => loopPc[loopDone] # "none"
  /\ stopCh # None => stopCh = loopDone /\ stopCh \notin stopClosed
  /\ \A l \in Conns :
       /\ Live(l) => loopDone = l
       /\ ~Live(l) => targets[l] = {}
       /\ loopPc[l] # "none" => subPc[l] \notin {"idle", "waiting"}
       /\ l \in stopClosed => loopPc[l] # "none"

\* Subscribe calls: at most one waits for the previous loop; it waits for the
\* newest loop, with the initial generation, and keeps its place unless Stop
\* takes it.
CallsInv ==
  /\ \A c \in Conns :
       /\ subPc[c] = "idle" => c \notin subscribers
       /\ subPc[c] = "active" => c \in subscribers \cup closed
       /\ subPc[c] = "waiting" => /\ subDone[c] = loopDone
                                  /\ loopDone # None
                                  /\ stopCh = None
                                  /\ subGen[c] = 0
                                  /\ ~stopped => c \in subscribers
  /\ \A c, d \in Conns :
       subPc[c] = "waiting" /\ subPc[d] = "waiting" => c = d

\* Channels: they are closed after Stop has begun, and the ones a loop still
\* has to send to were given out by a Subscribe and are open.
ChannelsInv ==
  /\ subscribers \cap closed = {}
  /\ \A c \in Conns : c \in closed => stopped /\ subPc[c] # "idle"
  /\ \A l \in Conns : /\ targets[l] \cap closed = {}
                      /\ \A c \in targets[l] : subPc[c] # "idle"

\* Stop: it runs once, waits for the newest loop, and leaves nothing behind.
StopInv ==
  /\ stopped <=> stopPc # "idle"
  /\ loopGen = IF stopped THEN 1 ELSE 0
  /\ stopped => stopCh = None
  /\ stopPc = "waiting" => stopWait = loopDone
  /\ stopPc = "done" => /\ subscribers = {}
                        /\ \A l \in Conns : ~Live(l)

IInv == /\ TypeOK
        /\ LoopsInv
        /\ CallsInv
        /\ ChannelsInv
        /\ StopInv
        /\ IdleLoopHasTimer
        /\ ServedOrStarting

-----------------------------------------------------------------------------
(* Liveness.  A fetch is bounded by its context's timeout and the other steps *)
(* of a tick do not block; a goroutine that can take b.mu gets it; a timer    *)
(* fires.  select chooses at random among its ready cases, so a loop whose    *)
(* stopCh is closed takes that case after finitely many ticks.  Nothing is    *)
(* assumed of the clients, of the ticker or of the caller of Stop.            *)

Fairness ==
  /\ \A c \in Conns : /\ WF_vars(LoopWork(c))
                      /\ SF_vars(LoopStops(c))
                      /\ WF_vars(SubscribeReturns(c))
                      /\ WF_vars(TimerFires(c))
                      /\ WF_vars(IdleCallback(c))
  /\ WF_vars(StopClose)

FairSpec == Spec /\ Fairness

\* Stop, once called, returns: the wait for loopDone comes to an end, so
\* Server.Shutdown is not held up by the broadcaster.
StopReturns == stopPc = "waiting" ~> stopPc = "done"

\* A Subscribe that waits for the previous loop returns to its handler.
SubscribeEnds == \A c \in Conns : subPc[c] = "waiting" ~> subPc[c] # "waiting"

\* A loop without clients stops, unless a client comes back.
IdleLoopEnds ==
  \A l \in Conns : Live(l) /\ subscribers = {} ~> ~Live(l) \/ subscribers # {}

\* Whoever is subscribed is served by a running loop that has not been told to
\* stop, until it leaves or Stop runs; only a loop that has died of a panic,
\* which leaves its stopCh in place, is not replaced.
Served ==
  \A c \in Conns :
    c \in subscribers ~>
      \/ c \notin subscribers
      \/ stopped
      \/ \E l \in Conns : Live(l) /\ l \notin stopClosed
      \/ \E l \in Conns : stopCh = l /\ DoneClosed(l)

-----------------------------------------------------------------------------
(* What the broadcaster promises (Feed) *)

\* The tick of the latest payload a consumer was sent.
LastSent(c) == IF buf[c] = <<>> THEN seen[c] ELSE buf[c][Len(buf[c])].at

\* The refinement mapping.
FeedPlace == [c \in Conns |-> IF subPc[c] = "idle" THEN "outside"
                              ELSE IF c \in subscribers THEN "member"
                                                        ELSE "gone"]
FeedInbox == [c \in Conns |-> [i \in 1..Len(buf[c]) |-> buf[c][i].at]]
FeedLast == [c \in Conns |-> LastSent(c)]
FeedPolling == \E l \in Conns : Live(l)
FeedPhase == CASE stopPc = "idle" -> "up"
               [] stopPc = "waiting" -> "stopping"
               [] stopPc = "done" -> "down"

Promise == INSTANCE Feed WITH
  place <- FeedPlace, closedFor <- closed, inbox <- FeedInbox,
  last <- FeedLast, polling <- FeedPolling, now <- ticks, phase <- FeedPhase

\* The broadcaster, with its locks, gates, generations and timers, implements
\* a feed polled by one poller that delivers to its members.
ImplementsFeed == Promise!Spec

=============================================================================
