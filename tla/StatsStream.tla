---------------------------- MODULE StatsStream ----------------------------
(***************************************************************************)
(* The life of the SSE requests (server/handlerstats.go, handleStatsSSE)   *)
(* between the connection manager (sse/manager.go), the Broadcaster and    *)
(* the shutdown of the process (server/server.go, main.go).                *)
(*                                                                         *)
(* The module extends Broadcaster: a request makes one call of Subscribe   *)
(* and is named by the same element of Conns.  Every step here is a step   *)
(* of the Broadcaster taken by whoever calls it, or a step that leaves the *)
(* Broadcaster alone.                                                      *)
(***************************************************************************)
EXTENDS Broadcaster, FiniteSets

CONSTANT MaxConns    \* the manager's limit (256 in the code)

ASSUME StatsStreamAssumption == MaxConns \in Nat \ {0}

VARIABLES
  h,            \* where a request's handler is
  connections,  \* Manager.connections
  mshutdown,    \* Manager.shutdown
  cancelled,    \* connections whose context is done
  gone,         \* clients that have gone away
  initialAt,    \* tick of the broadcast sent first, 0 for a fetched payload
  missed,       \* history: channels that were full for some payload
  sd            \* where main is, from the signal on

requestVars == <<h, connections, mshutdown, cancelled, gone, initialAt>>
ssVars == <<vars, requestVars, missed, sd>>

\* "added" lasts until Subscribe returns; "removing" is the deferred function
\* that gives the slot back.
HandlerPcs == {"request", "refused", "added", "subscribed", "fetched", "stream",
               "writing", "leaving", "removing", "done"}
MainPcs == {"up", "stopping", "stopped", "waiting", "draining", "exit"}

\* The handlers that hold a slot of the manager.
Holding == {c \in Conns : h[c] \notin {"request", "refused", "done"}}

SSTypeOK ==
  /\ h \in [Conns -> HandlerPcs]
  /\ connections \subseteq Conns
  /\ mshutdown \in BOOLEAN
  /\ cancelled \subseteq Conns
  /\ gone \subseteq Conns
  /\ initialAt \in [Conns -> Nat]
  /\ missed \subseteq Conns
  /\ sd \in MainPcs

SSInit ==
  /\ Init
  /\ h = [c \in Conns |-> "request"]
  /\ connections = {}
  /\ mshutdown = FALSE
  /\ cancelled = {}
  /\ gone = {}
  /\ initialAt = [c \in Conns |-> 0]
  /\ missed = {}
  /\ sd = "up"

Goto(c, pc) == h' = [h EXCEPT ![c] = pc]

-----------------------------------------------------------------------------
(* Manager.Add and the handler up to the initial event *)

\* Add without its first early return.
BugMayAddLate == Cardinality(connections) < MaxConns

\* Add's two early returns.
MayAdd == ~mshutdown /\ Cardinality(connections) < MaxConns

AddConn(c) ==
  /\ h[c] = "request"
  /\ MayAdd
  /\ connections' = connections \cup {c}
  /\ Goto(c, "added")
  /\ UNCHANGED <<vars, mshutdown, cancelled, gone, initialAt, missed, sd>>

\* Add returned nil: the request is answered 503.
RefuseConn(c) ==
  /\ h[c] = "request"
  /\ ~MayAdd
  /\ Goto(c, "refused")
  /\ UNCHANGED <<vars, connections, mshutdown, cancelled, gone, initialAt, missed, sd>>

\* Subscribe, up to its return or to the wait for the previous loop.
CallSubscribe(c) ==
  /\ h[c] = "added"
  /\ \/ SubscribeStopped(c)
     \/ SubscribeJoin(c)
     \/ SubscribeFirst(c)
     \/ SubscribeAwait(c)
  /\ Goto(c, IF subPc'[c] = "active" THEN "subscribed" ELSE "added")
  /\ UNCHANGED <<connections, mshutdown, cancelled, gone, initialAt, missed, sd>>

\* Nothing is deferred yet when Subscribe panics.
BugAfterSubscribe(pc) == IF pc = "panicked" THEN "done" ELSE "subscribed"

\* Unsubscribe is not yet deferred when Subscribe panics, Remove is.
AfterSubscribe(pc) == IF pc = "panicked" THEN "removing" ELSE "subscribed"

\* The wait is over: Subscribe returns, or panics.
ResumeSubscribe(c) ==
  /\ h[c] = "added"
  /\ SubscribeReturns(c)
  /\ Goto(c, AfterSubscribe(subPc'[c]))
  /\ UNCHANGED <<connections, mshutdown, cancelled, gone, initialAt, missed, sd>>

\* Reading the broadcast before Subscribe may find any earlier one instead.
BugInitialRead(at) == at \in 1..lastBroadcast.at

\* LastBroadcast is read after Subscribe has returned.
InitialRead(at) == at = lastBroadcast.at

\* hasLast, and the broadcast can be marshaled: it is the initial event.
HasLast == lastBroadcast.at > 0 /\ lastBroadcast.data \notin Unmarshalable

ReadLast(c) ==
  /\ h[c] = "subscribed"
  /\ HasLast
  /\ \E at \in 1..ticks :
       /\ InitialRead(at)
       /\ initialAt' = [initialAt EXCEPT ![c] = at]
  /\ Goto(c, "fetched")
  /\ UNCHANGED <<vars, connections, mshutdown, cancelled, gone, missed,
                 sd>>

\* The handler fetches by itself; when that fails (or is cancelled by the
\* shutdown) the initial event is an empty payload whose Degraded is false.
FetchInitial(c) ==
  /\ h[c] = "subscribed"
  /\ ~HasLast
  /\ \/ \E d \in Data : Goto(c, IF d \in Unmarshalable THEN "stream" ELSE "fetched")
     \/ Goto(c, "fetched")
  /\ UNCHANGED <<vars, connections, mshutdown, cancelled, gone, initialAt, missed,
                 sd>>

-----------------------------------------------------------------------------
(* Writing, and the event loop *)

\* The initial event, or a payload of the stream, goes out in a Write that may
\* take as long as the client likes: the write deadline has been removed.
WriteSucceeds(c) ==
  /\ h[c] \in {"fetched", "writing"}
  /\ c \notin gone
  /\ Goto(c, "stream")
  /\ UNCHANGED <<vars, connections, mshutdown, cancelled, gone, initialAt, missed, sd>>

WriteFails(c) ==
  /\ h[c] \in {"fetched", "writing"}
  /\ c \in gone
  /\ Goto(c, "leaving")
  /\ UNCHANGED <<vars, connections, mshutdown, cancelled, gone, initialAt, missed, sd>>

\* select takes a payload from statsCh.
TakePayload(c) ==
  /\ h[c] = "stream"
  /\ Receive(c)
  /\ Goto(c, IF Head(buf[c]).data \in Unmarshalable THEN "stream" ELSE "writing")
  /\ UNCHANGED <<connections, mshutdown, cancelled, gone, initialAt, missed, sd>>

\* select takes the heartbeat ticker: the same Write, without a payload.
Heartbeat(c) ==
  /\ h[c] = "stream"
  /\ Goto(c, "writing")
  /\ UNCHANGED <<vars, connections, mshutdown, cancelled, gone, initialAt, missed, sd>>

LeaveLoop(c) ==
  /\ h[c] = "stream"
  /\ Goto(c, "leaving")
  /\ UNCHANGED <<vars, connections, mshutdown, cancelled, gone, initialAt, missed, sd>>

\* The connection's context is not derived from the request's.
BugContextDone(c) == mshutdown /\ c \in cancelled /\ LeaveLoop(c)

\* The reasons to return: the context, statsCh closed and empty, sseMaxLifetime.
ContextDone(c) == c \in cancelled /\ LeaveLoop(c)
ChannelClosed(c) == c \in closed /\ buf[c] = <<>> /\ LeaveLoop(c)
Lifetime(c) == LeaveLoop(c)

\* The deferred Unsubscribe is missing.
BugDeferredUnsubscribe(c) ==
  /\ h[c] = "leaving"
  /\ Goto(c, "removing")
  /\ UNCHANGED <<vars, connections, mshutdown, cancelled, gone, initialAt, missed, sd>>

DeferredUnsubscribe(c) ==
  /\ h[c] = "leaving"
  /\ Unsubscribe(c)
  /\ Goto(c, "removing")
  /\ UNCHANGED <<connections, mshutdown, cancelled, gone, initialAt, missed, sd>>

\* Manager.Remove, then conn.Close().
DeferredRemove(c) ==
  /\ h[c] = "removing"
  /\ connections' = connections \ {c}
  /\ cancelled' = cancelled \cup {c}
  /\ Goto(c, "done")
  /\ UNCHANGED <<vars, mshutdown, gone, initialAt, missed, sd>>

\* The client closes its connection: r.Context() is done and writes fail.
Disconnect(c) ==
  /\ h[c] \notin {"refused", "done"}
  /\ c \notin gone
  /\ gone' = gone \cup {c}
  /\ cancelled' = cancelled \cup {c}
  /\ UNCHANGED <<vars, h, connections, mshutdown, initialAt, missed, sd>>

-----------------------------------------------------------------------------
(* The broadcaster's own goroutines *)

IdleTimer(t) ==
  /\ TimerFires(t) \/ IdleCallback(t)
  /\ UNCHANGED <<requestVars, missed, sd>>

\* A send that finds the channel full is remembered.
Loop(l) ==
  /\ missed' = missed \cup {c \in Conns : /\ loopPc[l] = "send" /\ ~HasRoom(c)
                                        /\ c \in targets[l] \ targets'[l]}
  /\ UNCHANGED <<requestVars, sd>>

LoopTicks(l) == Tick(l) /\ Loop(l)
LoopWorks(l) == LoopWork(l) /\ Loop(l)
LoopEnds(l) == LoopStops(l) /\ Loop(l)

-----------------------------------------------------------------------------
(* main, after the signal *)

\* srv.Shutdown: shutdownCancel and the first half of broadcaster.Stop.
ShutdownBegins ==
  /\ sd = "up"
  /\ StopBegin
  /\ sd' = "stopping"
  /\ UNCHANGED <<requestVars, missed>>

ShutdownStopped ==
  /\ sd = "stopping"
  /\ StopClose
  /\ sd' = "stopped"
  /\ UNCHANGED <<requestVars, missed>>

\* sseManager.CloseAll
CloseAll ==
  /\ sd = "stopped"
  /\ mshutdown' = TRUE
  /\ cancelled' = cancelled \cup connections
  /\ connections' = {}
  /\ sd' = "waiting"
  /\ UNCHANGED <<vars, h, gone, initialAt, missed>>

\* backgroundWg.Wait: the reconnect monitor has seen shutdownCtx.
BackgroundDone ==
  /\ sd = "waiting"
  /\ sd' = "draining"
  /\ UNCHANGED <<vars, requestVars, missed>>

\* httpServer.Shutdown returns: no request is being served.
Drained ==
  /\ sd = "draining"
  /\ Holding = {}
  /\ sd' = "exit"
  /\ UNCHANGED <<vars, requestVars, missed>>

\* Its five seconds are over: httpServer.Close, and main returns.
DrainTimeout ==
  /\ sd = "draining"
  /\ Holding # {}
  /\ sd' = "exit"
  /\ UNCHANGED <<vars, requestVars, missed>>

Exited == sd = "exit" /\ UNCHANGED ssVars

-----------------------------------------------------------------------------
\* What a handler does without waiting for its client.
HandlerWork(c) ==
  \/ CallSubscribe(c)
  \/ ResumeSubscribe(c)
  \/ ReadLast(c)
  \/ FetchInitial(c)
  \/ WriteFails(c)
  \/ TakePayload(c)
  \/ DeferredUnsubscribe(c)
  \/ DeferredRemove(c)

HandlerReturns(c) == ContextDone(c) \/ ChannelClosed(c)

MainWork == ShutdownStopped \/ CloseAll \/ BackgroundDone \/ Drained

\* When main returns the process, with all its goroutines, ends.
SSNext ==
  \/ /\ sd # "exit"
     /\ \/ \E c \in Conns :
             \/ AddConn(c)
             \/ RefuseConn(c)
             \/ HandlerWork(c)
             \/ WriteSucceeds(c)
             \/ Heartbeat(c)
             \/ HandlerReturns(c)
             \/ Lifetime(c)
             \/ Disconnect(c)
             \/ IdleTimer(c)
             \/ LoopTicks(c)
             \/ LoopWorks(c)
             \/ LoopEnds(c)
        \/ ShutdownBegins
        \/ MainWork
        \/ DrainTimeout
  \/ Exited

SSSpec == SSInit /\ [][SSNext]_ssVars

-----------------------------------------------------------------------------
(* Safety *)

\* Every slot of the manager belongs to a handler that will give it back, on
\* every way out of the handler, a panic in Subscribe included; CloseAll takes
\* all of them at once and nobody gets one afterwards.
SlotsHeld == connections = IF mshutdown THEN {} ELSE Holding

\* The slots are those of the running handlers, and there are never more of them
\* than maxConns.
SlotAccounting == SlotsHeld /\ Cardinality(connections) <= MaxConns

\* Once CloseAll has run, every handler that is still running has a context
\* that is done: Add and CloseAll leave no gap for a late request.
CancelledAfterCloseAll == mshutdown => Holding \subseteq cancelled

\* A handler that has returned is no longer subscribed: its channel does not
\* keep the polling loop alive.
SubscribedOnlyWhileHeld == subscribers \subseteq Holding

\* Subscribing before reading LastBroadcast loses no update: a handler whose
\* channel is empty has been given the latest broadcast or a later payload, or
\* it is about to be sent it, unless its channel was full for one.
NoLostUpdate ==
  \A c \in subscribers :
    /\ h[c] \in {"fetched", "stream", "writing"}
    /\ HasLast
    /\ buf[c] = <<>>
    /\ c \notin missed
    => \/ initialAt[c] >= lastBroadcast.at
       \/ seen[c] >= lastBroadcast.at
       \/ \E l \in Conns : loopPc[l] = "snapshot" \/ c \in targets[l]

-----------------------------------------------------------------------------
(* Liveness.  To the fairness of the Broadcaster's goroutines the handlers add *)
(* theirs: none of their steps but a write waits for the client, and a write   *)
(* to a client that has gone away fails.  Returning needs strong fairness,     *)
(* because select may take the heartbeat or a payload first.                   *)

Alive == sd # "exit"

SSFairness ==
  /\ \A c \in Conns : /\ WF_ssVars(Alive /\ LoopWorks(c))
                      /\ SF_ssVars(Alive /\ LoopEnds(c))
                      /\ WF_ssVars(Alive /\ IdleTimer(c))
                      /\ WF_ssVars(Alive /\ HandlerWork(c))
                      /\ SF_ssVars(Alive /\ HandlerReturns(c))
  /\ WF_ssVars(MainWork)

\* Clients may stall for ever in the middle of a write, and nothing makes the
\* five seconds of httpServer.Shutdown elapse.
SSFairSpec == SSSpec /\ SSFairness

\* A stalled client is where the handlers wait for one.
Stalled(c) == h[c] \in {"fetched", "writing"}

\* The shutdown is held up, if at all, by httpServer.Shutdown waiting for
\* clients that do not read: Stop, CloseAll and every other handler come to
\* their end without the five seconds.
ShutdownDrains ==
  sd = "stopping" ~> \/ sd = "exit"
                     \/ sd = "draining" /\ \A c \in Holding : Stalled(c)

\* The slot of a client that has gone away is free in the end, wherever its
\* handler was, inside Subscribe included.
SlotReleased ==
  \A c \in Conns : c \in gone /\ c \in Holding ~> c \notin Holding \/ sd = "exit"

=============================================================================
