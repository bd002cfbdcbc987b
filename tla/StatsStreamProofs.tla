------------------------- MODULE StatsStreamProofs -------------------------
(***************************************************************************)
(* Theorems about StatsStream, for every set of requests and every limit   *)
(* of the manager: the slots belong to the running handlers, CloseAll      *)
(* leaves none of them with a live context, and a handler that has         *)
(* returned is not subscribed.  The three are proved from one inductive    *)
(* invariant.                                                              *)
(***************************************************************************)
EXTENDS StatsStream, BroadcasterProofs, FiniteSetTheorems, TLAPS

Outside == {"request", "refused", "done"}

\* A handler that is not between Subscribe and Unsubscribe is not subscribed.
NotSubscribed ==
  \A c \in Conns : h[c] \in Outside \cup {"removing"} => c \notin subscribers

SlotsInv ==
  /\ h \in [Conns -> HandlerPcs]
  /\ subscribers \subseteq Conns
  /\ SlotsHeld
  /\ CancelledAfterCloseAll
  /\ NotSubscribed

-----------------------------------------------------------------------------
(* What a step of a handler does to the set of holders *)

\* A handler that goes on, without giving its slot back, leaves the holders as
\* they are.
LEMMA GoingOn ==
  ASSUME h \in [Conns -> HandlerPcs], NEW c \in Conns, NEW pc \in HandlerPcs,
         h[c] \notin Outside, pc \notin Outside, Goto(c, pc)
  PROVE  /\ h' \in [Conns -> HandlerPcs]
         /\ Holding' = Holding
         /\ h'[c] = pc
         /\ \A d \in Conns \ {c} : h'[d] = h[d]
BY DEF Goto, Holding, Outside

\* Such a step preserves the invariant when it leaves the manager and the
\* subscribers alone and does not go on to the removal.
LEMMA GoingOnKeeps ==
  ASSUME SlotsInv, NEW c \in Conns, NEW pc \in HandlerPcs,
         h[c] \notin Outside, pc \notin Outside \cup {"removing"}, Goto(c, pc),
         UNCHANGED <<connections, mshutdown, cancelled, subscribers>>
  PROVE  SlotsInv'
<1>1. /\ h' \in [Conns -> HandlerPcs]
      /\ Holding' = Holding
      /\ h'[c] = pc
      /\ \A d \in Conns \ {c} : h'[d] = h[d]
  BY GoingOn DEF SlotsInv
<1>2. SlotsHeld' /\ CancelledAfterCloseAll'
  BY <1>1 DEF SlotsInv, SlotsHeld, CancelledAfterCloseAll
<1>3. NotSubscribed'
  BY <1>1 DEF SlotsInv, NotSubscribed
<1> QED
  BY <1>1, <1>2, <1>3 DEF SlotsInv

\* A step that leaves the handlers and the manager alone preserves the
\* invariant when nobody new is subscribed and no context is revived.
LEMMA OthersKeep ==
  ASSUME SlotsInv, UNCHANGED <<h, connections, mshutdown>>,
         subscribers' \subseteq subscribers, cancelled \subseteq cancelled'
  PROVE  SlotsInv'
BY DEF SlotsInv, SlotsHeld, CancelledAfterCloseAll, NotSubscribed, Holding

-----------------------------------------------------------------------------
\* With no handler the slots are all free.
LEMMA SlotsInit == SSInit => SlotsInv
BY DEF SSInit, Init, SlotsInv, HandlerPcs, SlotsHeld,
       CancelledAfterCloseAll, NotSubscribed, Holding, Outside

\* A refused request changes nothing but its own place; an admitted one gets a
\* slot, and only before CloseAll.
LEMMA RequestStep ==
  ASSUME SlotsInv, NEW c \in Conns, AddConn(c) \/ RefuseConn(c)
  PROVE  SlotsInv'
<1>1. CASE AddConn(c)
  <2>1. /\ h' \in [Conns -> HandlerPcs]
        /\ Holding' = Holding \cup {c}
        /\ h'[c] = "added"
        /\ \A d \in Conns \ {c} : h'[d] = h[d]
    BY <1>1 DEF AddConn, Goto, Holding, SlotsInv, HandlerPcs
  <2>2. SlotsHeld' /\ CancelledAfterCloseAll'
    BY <1>1, <2>1 DEF AddConn, MayAdd, SlotsInv, SlotsHeld,
                      CancelledAfterCloseAll
  <2>3. subscribers' = subscribers
    BY <1>1 DEF AddConn, vars, fieldVars
  <2> QED
    BY <2>1, <2>2, <2>3 DEF SlotsInv, NotSubscribed, Outside
<1>2. CASE RefuseConn(c)
  <2>1. /\ h' \in [Conns -> HandlerPcs]
        /\ Holding' = Holding
        /\ h[c] = "request"
        /\ \A d \in Conns \ {c} : h'[d] = h[d]
    BY <1>2 DEF RefuseConn, Goto, Holding, SlotsInv, HandlerPcs
  <2>2. UNCHANGED <<connections, mshutdown, cancelled, subscribers>>
    BY <1>2 DEF RefuseConn, vars, fieldVars
  <2> QED
    BY <2>1, <2>2 DEF SlotsInv, SlotsHeld, CancelledAfterCloseAll,
                      NotSubscribed, Outside
<1> QED
  BY <1>1, <1>2

\* Subscribe registers nobody but its caller, who holds a slot.
LEMMA SubscribeStep ==
  ASSUME SlotsInv, NEW c \in Conns, CallSubscribe(c)
  PROVE  SlotsInv'
<1>1. /\ subscribers' \subseteq subscribers \cup {c}
      /\ h[c] = "added"
      /\ UNCHANGED <<connections, mshutdown, cancelled>>
  BY DEF CallSubscribe, SubscribeStopped, SubscribeJoin, SubscribeFirst,
         SubscribeAwait, fieldVars
<1>2. PICK pc \in {"subscribed", "added"} : Goto(c, pc)
  BY DEF CallSubscribe
<1>3. /\ h' \in [Conns -> HandlerPcs]
      /\ Holding' = Holding
      /\ h'[c] = pc
      /\ \A d \in Conns \ {c} : h'[d] = h[d]
  BY <1>1, <1>2, GoingOn DEF SlotsInv, HandlerPcs, Outside
<1>4. SlotsHeld' /\ CancelledAfterCloseAll'
  BY <1>1, <1>3 DEF SlotsInv, SlotsHeld, CancelledAfterCloseAll
<1>5. NotSubscribed'
  BY <1>1, <1>2, <1>3 DEF SlotsInv, NotSubscribed, Outside
<1> QED
  BY <1>1, <1>3, <1>4, <1>5 DEF SlotsInv

\* The wait inside Subscribe ends: a call that panics has been unregistered.
LEMMA ResumeStep ==
  ASSUME SlotsInv, NEW c \in Conns, ResumeSubscribe(c)
  PROVE  SlotsInv'
<1>1. /\ subscribers' \subseteq subscribers
      /\ h[c] = "added"
      /\ UNCHANGED <<connections, mshutdown, cancelled>>
  BY DEF ResumeSubscribe, SubscribeReturns, SubscribeRestart, SubscribeGiveUp
<1>2. PICK pc \in {"subscribed", "removing"} :
        /\ Goto(c, pc)
        /\ pc = "removing" => subPc'[c] = "panicked"
  BY DEF ResumeSubscribe, AfterSubscribe
<1>3. /\ h' \in [Conns -> HandlerPcs]
      /\ Holding' = Holding
      /\ h'[c] = pc
      /\ \A d \in Conns \ {c} : h'[d] = h[d]
  BY <1>1, <1>2, GoingOn DEF SlotsInv, HandlerPcs, Outside
<1>4. SlotsHeld' /\ CancelledAfterCloseAll'
  BY <1>1, <1>3 DEF SlotsInv, SlotsHeld, CancelledAfterCloseAll
<1>5. pc = "removing" => c \notin subscribers'
  <2>1. CASE SubscribeRestart(c)
    <3>1. subPc' = [subPc EXCEPT ![c] = "active"]
      BY <2>1 DEF SubscribeRestart
    <3>2. subPc[c] = "waiting"
      BY <2>1 DEF SubscribeRestart
    <3> QED
      BY <1>2, <3>1, <3>2
  <2>2. CASE SubscribeGiveUp(c)
    <3>1. subPc[c] = "waiting"
      BY <2>2 DEF SubscribeGiveUp
    <3>2. subPc' = [subPc EXCEPT ![c] = IF stopped /\ c \in closed
                                          THEN "panicked" ELSE "active"]
      BY <2>2 DEF SubscribeGiveUp
    <3>3. subPc'[c] = "panicked" => stopped
      BY <3>1, <3>2
    <3> QED
      BY <1>2, <2>2, <3>3 DEF SubscribeGiveUp
  <2> QED
    BY <2>1, <2>2 DEF ResumeSubscribe, SubscribeReturns
<1>6. NotSubscribed'
  BY <1>1, <1>2, <1>3, <1>5 DEF SlotsInv, NotSubscribed, Outside
<1> QED
  BY <1>1, <1>3, <1>4, <1>6 DEF SlotsInv

\* The initial event, the writes and the event loop.
LEMMA StreamStep ==
  ASSUME SlotsInv, NEW c \in Conns,
         \/ ReadLast(c) \/ FetchInitial(c) \/ WriteSucceeds(c) \/ WriteFails(c)
         \/ TakePayload(c) \/ Heartbeat(c) \/ HandlerReturns(c) \/ Lifetime(c)
  PROVE  SlotsInv'
<1>1. UNCHANGED <<connections, mshutdown, cancelled, subscribers>>
  BY DEF ReadLast, FetchInitial, WriteSucceeds, WriteFails, TakePayload, Receive,
         Heartbeat, HandlerReturns, ContextDone, ChannelClosed, Lifetime,
         LeaveLoop, vars, fieldVars
<1>2. h[c] \in {"subscribed", "fetched", "stream", "writing"}
  BY DEF ReadLast, FetchInitial, WriteSucceeds, WriteFails, TakePayload,
         Heartbeat, HandlerReturns, ContextDone, ChannelClosed, Lifetime,
         LeaveLoop
<1>3. PICK pc \in {"fetched", "stream", "writing", "leaving"} : Goto(c, pc)
  BY DEF ReadLast, FetchInitial, WriteSucceeds, WriteFails, TakePayload,
         Heartbeat, HandlerReturns, ContextDone, ChannelClosed, Lifetime,
         LeaveLoop
<1> QED
  BY <1>1, <1>2, <1>3, GoingOnKeeps DEF HandlerPcs, Outside

\* The deferred calls: first the subscription is given back, then the slot.
LEMMA DeferredStep ==
  ASSUME SlotsInv, NEW c \in Conns,
         DeferredUnsubscribe(c) \/ DeferredRemove(c)
  PROVE  SlotsInv'
<1>1. CASE DeferredUnsubscribe(c)
  <2>1. /\ subscribers' = subscribers \ {c}
        /\ h[c] = "leaving"
        /\ Goto(c, "removing")
        /\ UNCHANGED <<connections, mshutdown, cancelled>>
    BY <1>1 DEF DeferredUnsubscribe, Unsubscribe
  <2>2. /\ h' \in [Conns -> HandlerPcs]
        /\ Holding' = Holding
        /\ \A d \in Conns \ {c} : h'[d] = h[d]
    BY <2>1, GoingOn DEF SlotsInv, HandlerPcs, Outside
  <2> QED
    BY <2>1, <2>2 DEF SlotsInv, SlotsHeld, CancelledAfterCloseAll,
                      NotSubscribed
<1>2. CASE DeferredRemove(c)
  <2>1. /\ connections' = connections \ {c}
        /\ cancelled' = cancelled \cup {c}
        /\ h[c] = "removing"
        /\ UNCHANGED <<mshutdown, subscribers>>
    BY <1>2 DEF DeferredRemove, vars, fieldVars
  <2>2. /\ h' \in [Conns -> HandlerPcs]
        /\ Holding' = Holding \ {c}
        /\ \A d \in Conns \ {c} : h'[d] = h[d]
    BY <1>2 DEF DeferredRemove, Goto, SlotsInv, HandlerPcs, Holding
  <2>3. SlotsHeld' /\ CancelledAfterCloseAll'
    BY <2>1, <2>2 DEF SlotsInv, SlotsHeld, CancelledAfterCloseAll
  <2> QED
    BY <2>1, <2>2, <2>3 DEF SlotsInv, NotSubscribed
<1> QED
  BY <1>1, <1>2

\* The goroutines of the broadcaster never add a subscriber.
LEMMA GoroutineStep ==
  ASSUME SlotsInv, NEW c \in Conns,
         IdleTimer(c) \/ LoopTicks(c) \/ LoopWorks(c) \/ LoopEnds(c)
  PROVE  SlotsInv'
<1>1. UNCHANGED requestVars
  BY DEF IdleTimer, LoopTicks, LoopWorks, LoopEnds, Loop
<1>2. subscribers' = subscribers
  <2>1. CASE IdleTimer(c)
    BY <2>1 DEF IdleTimer, TimerFires, IdleCallback, fieldVars
  <2>2. CASE LoopTicks(c) \/ LoopEnds(c)
    BY <2>2 DEF LoopTicks, LoopEnds, Tick, LoopStops, fieldVars
  <2>3. CASE LoopWorks(c)
    BY <2>3 DEF LoopWorks, LoopWork, FetchFails, FetchDegrades, FetchDuplicate,
                FetchFresh, LoopPanics, Snapshot, Send, fieldVars
  <2> QED
    BY <2>1, <2>2, <2>3
<1> QED
  BY <1>1, <1>2, OthersKeep DEF requestVars

\* main: CloseAll cancels every slot's context when it takes the slots away.
LEMMA MainStep ==
  ASSUME SlotsInv,
         ShutdownBegins \/ MainWork \/ DrainTimeout \/ Exited
  PROVE  SlotsInv'
<1>1. CASE CloseAll
  <2>1. /\ mshutdown' = TRUE
        /\ cancelled' = cancelled \cup connections
        /\ connections' = {}
        /\ UNCHANGED <<h, subscribers>>
    BY <1>1 DEF CloseAll, vars, fieldVars
  <2>2. Holding \subseteq cancelled \cup connections
    BY DEF SlotsInv, SlotsHeld, CancelledAfterCloseAll
  <2>3. Holding' = Holding
    BY <2>1 DEF Holding
  <2>4. SlotsHeld' /\ CancelledAfterCloseAll'
    BY <2>1, <2>2, <2>3 DEF SlotsHeld, CancelledAfterCloseAll
  <2> QED
    BY <2>1, <2>4 DEF SlotsInv, NotSubscribed
<1>2. CASE ShutdownBegins \/ ShutdownStopped
  <2>1. UNCHANGED requestVars
    BY <1>2 DEF ShutdownBegins, ShutdownStopped
  <2>2. subscribers' \subseteq subscribers
    BY <1>2 DEF ShutdownBegins, ShutdownStopped, StopBegin, StopClose
  <2> QED
    BY <2>1, <2>2, OthersKeep DEF requestVars
<1>3. CASE BackgroundDone \/ Drained \/ DrainTimeout \/ Exited
  <2>1. UNCHANGED <<h, connections, mshutdown, cancelled, subscribers>>
    BY <1>3 DEF BackgroundDone, Drained, DrainTimeout, Exited, ssVars, vars,
                fieldVars, requestVars
  <2> QED
    BY <2>1, OthersKeep
<1> QED
  BY <1>1, <1>2, <1>3 DEF MainWork

\* Every step of the handlers, the clients, main and the broadcaster keeps the
\* account of the slots.
LEMMA SlotsStep == SlotsInv /\ [SSNext]_ssVars => SlotsInv'
<1> SUFFICES ASSUME SlotsInv, [SSNext]_ssVars
             PROVE  SlotsInv'
  OBVIOUS
<1>1. ASSUME NEW c \in Conns, AddConn(c) \/ RefuseConn(c)
      PROVE  SlotsInv'
  BY <1>1, RequestStep
<1>2. ASSUME NEW c \in Conns, HandlerWork(c)
      PROVE  SlotsInv'
  BY <1>2, SubscribeStep, ResumeStep, StreamStep, DeferredStep DEF HandlerWork
<1>3. ASSUME NEW c \in Conns,
             WriteSucceeds(c) \/ Heartbeat(c) \/ HandlerReturns(c) \/ Lifetime(c)
      PROVE  SlotsInv'
  BY <1>3, StreamStep
<1>4. ASSUME NEW c \in Conns, Disconnect(c)
      PROVE  SlotsInv'
  BY <1>4, OthersKeep DEF Disconnect, vars, fieldVars
<1>5. ASSUME NEW c \in Conns,
             IdleTimer(c) \/ LoopTicks(c) \/ LoopWorks(c) \/ LoopEnds(c)
      PROVE  SlotsInv'
  BY <1>5, GoroutineStep
<1>6. CASE ShutdownBegins \/ MainWork \/ DrainTimeout \/ Exited
  BY <1>6, MainStep
<1>7. CASE UNCHANGED ssVars
  BY <1>7, OthersKeep DEF ssVars, requestVars, vars, fieldVars
<1> QED
  BY <1>1, <1>2, <1>3, <1>4, <1>5, <1>6, <1>7 DEF SSNext

-----------------------------------------------------------------------------
\* Add is the only step that takes a slot, and only below the limit.
SlotLimit == IsFiniteSet(connections) /\ Cardinality(connections) <= MaxConns

\* With no connection the limit holds.
LEMMA SlotLimitInit == SSInit => SlotLimit
BY FS_EmptySet, StatsStreamAssumption DEF SSInit, SlotLimit

\* Only AddConnection takes a slot, and it looks at the limit in the same step.
LEMMA SlotLimitStep == SlotLimit /\ [SSNext]_ssVars => SlotLimit'
<1> SUFFICES ASSUME SlotLimit, [SSNext]_ssVars
             PROVE  SlotLimit'
  OBVIOUS
<1>1. ASSUME NEW c \in Conns, AddConn(c)
      PROVE  SlotLimit'
  <2>1. connections' = connections \cup {c} /\ Cardinality(connections) < MaxConns
    BY <1>1 DEF AddConn, MayAdd
  <2>2. /\ IsFiniteSet(connections \cup {c})
        /\ Cardinality(connections \cup {c}) =
             IF c \in connections THEN Cardinality(connections)
             ELSE Cardinality(connections) + 1
        /\ Cardinality(connections) \in Nat
    BY FS_AddElement, FS_CardinalityType DEF SlotLimit
  <2> QED
    BY <2>1, <2>2, StatsStreamAssumption DEF SlotLimit
<1>2. ASSUME NEW c \in Conns, DeferredRemove(c)
      PROVE  SlotLimit'
  <2>1. connections' = connections \ {c}
    BY <1>2 DEF DeferredRemove
  <2>2. /\ IsFiniteSet(connections \ {c})
        /\ Cardinality(connections \ {c}) =
             IF c \in connections THEN Cardinality(connections) - 1
             ELSE Cardinality(connections)
        /\ Cardinality(connections) \in Nat
    BY FS_RemoveElement, FS_CardinalityType DEF SlotLimit
  <2> QED
    BY <2>1, <2>2, StatsStreamAssumption DEF SlotLimit
<1>3. CASE CloseAll
  BY <1>3, FS_EmptySet, StatsStreamAssumption DEF CloseAll, SlotLimit
<1>4. ASSUME UNCHANGED connections
      PROVE  SlotLimit'
  BY <1>4 DEF SlotLimit
<1>5. ASSUME NEW c \in Conns, RefuseConn(c) \/ HandlerWork(c) \/ WriteSucceeds(c)
               \/ Heartbeat(c) \/ HandlerReturns(c) \/ Lifetime(c) \/ Disconnect(c),
             ~DeferredRemove(c)
      PROVE  UNCHANGED connections
  BY <1>5 DEF RefuseConn, HandlerWork, CallSubscribe, ResumeSubscribe, ReadLast,
     FetchInitial, WriteSucceeds, WriteFails, TakePayload, Heartbeat, HandlerReturns,
     ContextDone, ChannelClosed, Lifetime, LeaveLoop, DeferredUnsubscribe, Disconnect
<1>6. ASSUME NEW c \in Conns,
             IdleTimer(c) \/ LoopTicks(c) \/ LoopWorks(c) \/ LoopEnds(c)
      PROVE  UNCHANGED connections
  BY <1>6 DEF IdleTimer, LoopTicks, LoopWorks, LoopEnds, Loop, requestVars
<1>7. ASSUME ShutdownBegins \/ MainWork \/ DrainTimeout \/ Exited, ~CloseAll
      PROVE  UNCHANGED connections
  BY <1>7 DEF ShutdownBegins, MainWork, ShutdownStopped, BackgroundDone, Drained,
     DrainTimeout, Exited, ssVars, requestVars
<1>8. CASE UNCHANGED ssVars
  BY <1>8, <1>4 DEF ssVars, requestVars
<1> QED
  BY <1>1, <1>2, <1>3, <1>4, <1>5, <1>6, <1>7, <1>8 DEF SSNext

-----------------------------------------------------------------------------
\* What SSTypeOK says beyond the type of h.
Rest ==
  /\ connections \subseteq Conns
  /\ mshutdown \in BOOLEAN
  /\ cancelled \subseteq Conns
  /\ gone \subseteq Conns
  /\ initialAt \in [Conns -> Nat]
  /\ missed \subseteq Conns
  /\ sd \in MainPcs

\* The types hold initially.
LEMMA RestInit == SSInit => Rest
<1> SUFFICES ASSUME SSInit PROVE Rest
  OBVIOUS
<1>1. mshutdown \in BOOLEAN
  BY Zenon DEF SSInit
<1> QED
  BY <1>1 DEF SSInit, Rest, MainPcs

\* Every step keeps the types.
LEMMA RestStep == Rest /\ [SSNext]_ssVars => Rest'
<1> SUFFICES ASSUME Rest, [SSNext]_ssVars
             PROVE  Rest'
  OBVIOUS
<1> USE DEF Rest
<1>1. ASSUME NEW c \in Conns, AddConn(c) \/ RefuseConn(c) \/ Disconnect(c)
      PROVE  Rest'
  BY <1>1 DEF AddConn, RefuseConn, Disconnect
<1>2. ASSUME NEW c \in Conns, ReadLast(c)
      PROVE  Rest'
  BY <1>2 DEF ReadLast
<1>3. ASSUME NEW c \in Conns, HandlerWork(c), ~ReadLast(c)
      PROVE  Rest'
  BY <1>3 DEF HandlerWork, CallSubscribe, ResumeSubscribe, FetchInitial, WriteFails,
              TakePayload, DeferredUnsubscribe, DeferredRemove
<1>4. ASSUME NEW c \in Conns,
             WriteSucceeds(c) \/ Heartbeat(c) \/ HandlerReturns(c) \/ Lifetime(c)
      PROVE  Rest'
  BY <1>4 DEF WriteSucceeds, Heartbeat, HandlerReturns, ContextDone, ChannelClosed,
              Lifetime, LeaveLoop
<1>5. ASSUME NEW c \in Conns,
             IdleTimer(c) \/ LoopTicks(c) \/ LoopWorks(c) \/ LoopEnds(c)
      PROVE  Rest'
  BY <1>5 DEF IdleTimer, LoopTicks, LoopWorks, LoopEnds, Loop, requestVars
<1>6. CASE ShutdownBegins \/ MainWork \/ DrainTimeout
  BY <1>6 DEF ShutdownBegins, MainWork, ShutdownStopped, CloseAll, BackgroundDone,
              Drained, DrainTimeout, requestVars, MainPcs
<1>7. CASE UNCHANGED ssVars
  BY <1>7 DEF ssVars, requestVars
<1> QED
  BY <1>1, <1>2, <1>3, <1>4, <1>5, <1>6, <1>7 DEF SSNext, Exited

-----------------------------------------------------------------------------
\* Every variable of the handlers, of the manager and of main keeps its type.
THEOREM StreamTypes == SSSpec => []SSTypeOK
<1>1. SSSpec => []Rest
  BY RestInit, RestStep, PTL DEF SSSpec
<1>2. SSSpec => []SlotsInv
  BY SlotsInit, SlotsStep, PTL DEF SSSpec
<1>3. SlotsInv /\ Rest => SSTypeOK
  BY DEF SlotsInv, Rest, SSTypeOK
<1> QED
  BY <1>1, <1>2, <1>3, PTL

\* The manager never has more than maxConns slots in use (Add's second check).
THEOREM SlotLimitCorrect == SSSpec => []SlotLimit
BY SlotLimitInit, SlotLimitStep, PTL DEF SSSpec

\* SlotsInv holds in every reachable state of the composition of handlers,
\* manager, broadcaster and main.
THEOREM SlotsInvCorrect == SSSpec => []SlotsInv
BY SlotsInit, SlotsStep, PTL DEF SSSpec

\* The slots of the manager are those of the running handlers (Add, and the
\* deferred Remove on every way out of handleStatsSSE), until CloseAll.
THEOREM SlotsAccounted == SSSpec => []SlotAccounting
<1>1. SlotsInv /\ SlotLimit => SlotAccounting
  BY DEF SlotsInv, SlotLimit, SlotAccounting
<1> QED
  BY <1>1, SlotsInvCorrect, SlotLimitCorrect, PTL

\* After CloseAll every handler that is still running has a context that is
\* done: no request slips in between Add's check and CloseAll.
THEOREM AllCancelled == SSSpec => []CancelledAfterCloseAll
<1>1. SlotsInv => CancelledAfterCloseAll
  BY DEF SlotsInv
<1> QED
  BY <1>1, SlotsInvCorrect, PTL

\* Only running handlers are subscribed: the deferred Unsubscribe runs on every
\* way out, and a Subscribe that panics leaves nothing registered.
THEOREM OnlyHoldersSubscribed == SSSpec => []SubscribedOnlyWhileHeld
<1>1. SlotsInv => SubscribedOnlyWhileHeld
  BY DEF SlotsInv, NotSubscribed, SubscribedOnlyWhileHeld, Holding, Outside
<1> QED
  BY <1>1, SlotsInvCorrect, PTL

-----------------------------------------------------------------------------
(* The broadcaster inside the SSE stack *)

\* Whatever the handlers, the manager and main do, the broadcaster only takes
\* steps of its own.
LEMMA StreamStepIsBroadcasterStep == [SSNext]_ssVars => [Next]_vars
<1> SUFFICES ASSUME [SSNext]_ssVars PROVE Next \/ UNCHANGED vars
  OBVIOUS
<1>1. ASSUME NEW c \in Conns, HandlerWork(c) PROVE Next \/ UNCHANGED vars
  BY <1>1 DEF HandlerWork, CallSubscribe, ResumeSubscribe, ReadLast, FetchInitial,
     WriteFails, TakePayload, DeferredUnsubscribe, DeferredRemove, Next
<1>2. ASSUME NEW c \in Conns,
             \/ AddConn(c) \/ RefuseConn(c) \/ WriteSucceeds(c) \/ Heartbeat(c)
             \/ HandlerReturns(c) \/ Lifetime(c) \/ Disconnect(c)
      PROVE  UNCHANGED vars
  BY <1>2 DEF AddConn, RefuseConn, WriteSucceeds, Heartbeat, HandlerReturns,
     ContextDone, ChannelClosed, Lifetime, LeaveLoop, Disconnect
<1>3. ASSUME NEW c \in Conns,
             IdleTimer(c) \/ LoopTicks(c) \/ LoopWorks(c) \/ LoopEnds(c)
      PROVE  Next
  BY <1>3 DEF IdleTimer, LoopTicks, LoopWorks, LoopEnds, Next
<1>4. ASSUME ShutdownBegins \/ MainWork \/ DrainTimeout \/ Exited
      PROVE  Next \/ UNCHANGED vars
  BY <1>4 DEF ShutdownBegins, MainWork, ShutdownStopped, CloseAll, BackgroundDone,
     Drained, DrainTimeout, Exited, ssVars, Next
<1>5. CASE UNCHANGED ssVars
  BY <1>5 DEF ssVars
<1> QED
  BY <1>1, <1>2, <1>3, <1>4, <1>5 DEF SSNext

\* The SSE stack uses the broadcaster as its specification allows, so whatever
\* is proved of the broadcaster holds of it there.
THEOREM StreamRunsBroadcaster == SSSpec => Spec
<1>1. SSInit => Init
  BY DEF SSInit
<1> QED
  BY <1>1, StreamStepIsBroadcasterStep, PTL DEF SSSpec, Spec

\* The SSE handlers are fed as Feed promises: in order, each tick at most once,
\* until their channel is closed.
THEOREM StreamImplementsFeed == SSSpec => ImplementsFeed
BY StreamRunsBroadcaster, BroadcasterImplementsFeed

\* During the shutdown too no loop sends on a channel that Stop has closed, and
\* after Stop every handler holds a closed channel.
THEOREM StreamChannelsSafe == SSSpec => [](NoSendOnClosed /\ ClosedAfterStop)
BY StreamRunsBroadcaster, SendsAreSafe, StopIsFinal, PTL

-----------------------------------------------------------------------------
(* No update is lost between Subscribe and the initial event *)

\* Only a loop that is sending has channels left to send to, and lastBroadcast
\* is not ahead of the clock.
BroadcastInv ==
  /\ \A l \in Conns : loopPc[l] # "send" => targets[l] = {}
  /\ lastBroadcast.at <= ticks

\* The broadcaster keeps it.
LEMMA BroadcastStep ==
  IInv /\ OrderInv /\ BroadcastInv /\ [Next]_vars => BroadcastInv'
<1> SUFFICES ASSUME IInv, OrderInv, BroadcastInv, [Next]_vars PROVE BroadcastInv'
  OBVIOUS
<1>0. /\ loopPc \in [Conns -> LoopPcs]
      /\ targets \in [Conns -> SUBSET Conns]
      /\ ticks \in Nat /\ lastBroadcast.at \in Nat
  BY PayloadFacts DEF IInv, TypeOK
<1> USE <1>0 DEF BroadcastInv, fieldVars, chanVars, callVars, localVars, loopVars,
                 stopVars
<1>1. ASSUME NEW c \in Conns,
             \/ SubscribeStopped(c) \/ SubscribeJoin(c) \/ SubscribeAwait(c)
             \/ SubscribeGiveUp(c) \/ Unsubscribe(c) \/ Receive(c)
             \/ TimerFires(c) \/ IdleCallback(c)
      PROVE  BroadcastInv'
  BY <1>1 DEF SubscribeStopped, SubscribeJoin, SubscribeAwait, SubscribeGiveUp,
     Unsubscribe, Receive, TimerFires, IdleCallback
<1>2. ASSUME NEW c \in Conns, SubscribeFirst(c) \/ SubscribeRestart(c)
      PROVE  BroadcastInv'
  <2>1. ~Live(c)
    BY <1>2 DEF SubscribeFirst, SubscribeRestart, IInv, LoopsInv, Live, LoopPcs
  <2>2. targets[c] = {}
    BY <2>1 DEF IInv, LoopsInv
  <2> QED
    BY <1>2, <2>2 DEF SubscribeFirst, SubscribeRestart, StartLoop
<1>3. ASSUME NEW l \in Conns, LoopStops(l) \/ LoopPanics(l)
      PROVE  BroadcastInv'
  BY <1>3 DEF LoopStops, LoopPanics, LoopExit
<1>4. ASSUME NEW l \in Conns, Tick(l) PROVE BroadcastInv'
  <2>1. ticks' = ticks + 1 /\ lastBroadcast' = lastBroadcast
    BY <1>4 DEF Tick
  <2>2. lastBroadcast'.at <= ticks'
    BY <2>1
  <2>3. \A m \in Conns : loopPc'[m] # "send" => targets'[m] = {}
    BY <1>4 DEF Tick
  <2> QED
    BY <2>2, <2>3
<1>5. ASSUME NEW l \in Conns,
             FetchFails(l) \/ FetchDegrades(l) \/ FetchDuplicate(l)
      PROVE  BroadcastInv'
  BY <1>5 DEF FetchFails, FetchDegrades, FetchDuplicate
<1>6. ASSUME NEW l \in Conns, NEW d \in Data, FetchFresh(l, d) PROVE BroadcastInv'
  <2>1. tickAt[l] = ticks
    BY <1>6 DEF FetchFresh, OrderInv
  <2>2. lastBroadcast'.at = tickAt[l] /\ ticks' = ticks
    BY <1>6 DEF FetchFresh
  <2>3. \A m \in Conns : loopPc'[m] # "send" => targets'[m] = {}
    BY <1>6 DEF FetchFresh
  <2> QED
    BY <2>1, <2>2, <2>3
<1>7. ASSUME NEW l \in Conns, Snapshot(l) PROVE BroadcastInv'
  BY <1>7 DEF Snapshot, Remaining
<1>8. ASSUME NEW l \in Conns, NEW c \in Conns, Send(l, c) PROVE BroadcastInv'
  BY <1>8 DEF Send, LoopExit, Remaining
<1>9. ASSUME StopBegin \/ StopClose PROVE BroadcastInv'
  BY <1>9 DEF StopBegin, StopClose
<1>10. CASE UNCHANGED vars
  BY <1>10 DEF vars
<1> QED
  BY <1>1, <1>2, <1>3, <1>4, <1>5, <1>6, <1>7, <1>8, <1>9, <1>10
  DEF Next, LoopWork, SubscribeReturns, Finished

\* The latest broadcast was the initial event of c, or c was sent it or a later
\* payload, or c is about to be sent one.
Covered(c) ==
  \/ initialAt[c] >= lastBroadcast.at
  \/ LastSent(c) >= lastBroadcast.at
  \/ \E l \in Conns : loopPc[l] = "snapshot" \/ c \in targets[l]

\* The inductive form of NoLostUpdate: it counts what is still in the channel.
UpdateInv ==
  HasLast => \A c \in subscribers :
               h[c] \in {"fetched", "stream", "writing"} /\ c \notin missed
                 => Covered(c)

\* The context of the proof: what is known of the broadcaster and of the types.
StreamInv == IInv /\ OrderInv /\ BroadcastInv /\ SSTypeOK /\ UpdateInv

\* A step that broadcasts and sends nothing, registers nobody and lets no
\* handler past its initial event loses nothing.
LEMMA UpdateQuiet ==
  ASSUME UpdateInv,
         UNCHANGED <<lastBroadcast, initialAt>>,
         \A c \in subscribers' :
           h'[c] \in {"fetched", "stream", "writing"} /\ c \notin missed'
             => /\ c \in subscribers
                /\ h[c] \in {"fetched", "stream", "writing"}
                /\ c \notin missed
                /\ LastSent(c)' = LastSent(c),
         \A l \in Conns :
           /\ loopPc[l] = "snapshot" => loopPc'[l] = "snapshot"
           /\ targets[l] \subseteq targets'[l]
  PROVE  UpdateInv'
BY DEF UpdateInv, Covered, HasLast

\* The handlers, on their way from the request to its end.
LEMMA UpdateHandler ==
  ASSUME StreamInv, NEW c \in Conns,
         \/ AddConn(c) \/ RefuseConn(c) \/ HandlerWork(c) \/ WriteSucceeds(c)
         \/ Heartbeat(c) \/ HandlerReturns(c) \/ Lifetime(c) \/ Disconnect(c)
  PROVE  UpdateInv'
<1>0. /\ TypeOK /\ UpdateInv
      /\ h \in [Conns -> HandlerPcs]
      /\ initialAt \in [Conns -> Nat]
      /\ subscribers \subseteq Conns
      /\ subPc \in [Conns -> SubPcs]
      /\ loopPc \in [Conns -> LoopPcs]
      /\ lastBroadcast.at \in Nat
  BY PayloadFacts DEF StreamInv, IInv, TypeOK, SSTypeOK
<1> USE <1>0 DEF fieldVars, chanVars, callVars, localVars, loopVars, stopVars, Goto
<1>1. CASE AddConn(c) \/ RefuseConn(c)
  BY <1>1, UpdateQuiet DEF AddConn, RefuseConn, vars, LastSent
<1>2. CASE CallSubscribe(c)
  <2>1. /\ subscribers' \subseteq subscribers \cup {c}
        /\ UNCHANGED <<lastBroadcast, initialAt, missed, buf, seen, targets>>
        /\ \A l \in Conns : loopPc[l] = "snapshot" /\ l # c => loopPc'[l] = "snapshot"
    BY <1>2 DEF CallSubscribe, SubscribeStopped, SubscribeJoin, SubscribeFirst,
       SubscribeAwait, StartLoop
  <2>2. loopPc[c] # "snapshot"
    BY <1>2 DEF CallSubscribe, SubscribeStopped, SubscribeJoin, SubscribeFirst,
       SubscribeAwait, StreamInv, IInv, LoopsInv
  <2>3. PICK pc \in {"subscribed", "added"} : h' = [h EXCEPT ![c] = pc]
    BY <1>2 DEF CallSubscribe
  <2>4. \A d \in Conns : LastSent(d)' = LastSent(d)
    BY <2>1 DEF LastSent
  <2> QED
    BY <2>1, <2>2, <2>3, <2>4, UpdateQuiet
<1>3. CASE ResumeSubscribe(c)
  <2>1. /\ subscribers' \subseteq subscribers
        /\ UNCHANGED <<lastBroadcast, initialAt, missed, buf, seen, targets>>
        /\ \A l \in Conns : loopPc[l] = "snapshot" /\ l # c => loopPc'[l] = "snapshot"
    BY <1>3 DEF ResumeSubscribe, SubscribeReturns, SubscribeRestart, SubscribeGiveUp,
       StartLoop
  <2>2. loopPc[c] # "snapshot"
    BY <1>3 DEF ResumeSubscribe, SubscribeReturns, SubscribeRestart, SubscribeGiveUp,
       StreamInv, IInv, LoopsInv
  <2>3. PICK pc \in {"subscribed", "removing"} : h' = [h EXCEPT ![c] = pc]
    BY <1>3 DEF ResumeSubscribe, AfterSubscribe
  <2>4. \A d \in Conns : LastSent(d)' = LastSent(d)
    BY <2>1 DEF LastSent
  <2> QED
    BY <2>1, <2>2, <2>3, <2>4, UpdateQuiet
<1>4. CASE ReadLast(c)
  <2>1. UNCHANGED <<lastBroadcast, missed, buf, seen, targets, loopPc, subscribers>>
    BY <1>4 DEF ReadLast, vars
  <2>2. initialAt'[c] >= lastBroadcast.at
    BY <1>4 DEF ReadLast, InitialRead
  <2>3. \A d \in Conns \ {c} : initialAt'[d] = initialAt[d] /\ h'[d] = h[d]
    BY <1>4 DEF ReadLast
  <2>4. \A d \in Conns : LastSent(d)' = LastSent(d)
    BY <2>1 DEF LastSent
  <2> QED
    BY <2>1, <2>2, <2>3, <2>4 DEF UpdateInv, Covered, HasLast
<1>5. CASE FetchInitial(c)
  BY <1>5 DEF FetchInitial, vars, UpdateInv, HasLast
<1>6. CASE TakePayload(c)
  <2>1. \A a \in Conns : LastSent(a)' = LastSent(a)
    BY <1>6, ReceiveKeepsLast DEF TakePayload
  <2>2. UNCHANGED <<lastBroadcast, missed, targets, loopPc, subscribers, initialAt>>
    BY <1>6 DEF TakePayload, Receive
  <2>3. \A d \in Conns : h'[d] \in {"fetched", "stream", "writing"}
                           => h[d] \in {"fetched", "stream", "writing"}
    BY <1>6 DEF TakePayload
  <2> QED
    BY <2>1, <2>2, <2>3, UpdateQuiet
<1>7. CASE DeferredUnsubscribe(c)
  <2>1. /\ subscribers' \subseteq subscribers
        /\ UNCHANGED <<lastBroadcast, initialAt, missed, buf, seen, targets, loopPc>>
    BY <1>7 DEF DeferredUnsubscribe, Unsubscribe
  <2>2. h' = [h EXCEPT ![c] = "removing"]
    BY <1>7 DEF DeferredUnsubscribe
  <2>3. \A d \in Conns : LastSent(d)' = LastSent(d)
    BY <2>1 DEF LastSent
  <2> QED
    BY <2>1, <2>2, <2>3, UpdateQuiet
<1>8. CASE \/ WriteFails(c) \/ DeferredRemove(c) \/ WriteSucceeds(c) \/ Heartbeat(c)
           \/ HandlerReturns(c) \/ Lifetime(c) \/ Disconnect(c)
  <2>1. UNCHANGED <<lastBroadcast, initialAt, missed, buf, seen, targets, loopPc,
                    subscribers>>
    BY <1>8 DEF WriteFails, DeferredRemove, WriteSucceeds, Heartbeat, HandlerReturns,
       Lifetime, ContextDone, ChannelClosed, LeaveLoop, Disconnect, vars
  <2>2. \A d \in Conns : h'[d] \in {"fetched", "stream", "writing"}
                           => h[d] \in {"fetched", "stream", "writing"}
    BY <1>8 DEF WriteFails, DeferredRemove, WriteSucceeds, Heartbeat, HandlerReturns,
       Lifetime, ContextDone, ChannelClosed, LeaveLoop, Disconnect
  <2>3. \A d \in Conns : LastSent(d)' = LastSent(d)
    BY <2>1 DEF LastSent
  <2> QED
    BY <2>1, <2>2, <2>3, UpdateQuiet
<1> QED
  BY <1>1, <1>2, <1>3, <1>4, <1>5, <1>6, <1>7, <1>8 DEF HandlerWork

\* The loop: a fresh payload is followed by a snapshot of the subscribers, and
\* each of them gets the payload or is marked as having been full.
LEMMA UpdateLoop ==
  ASSUME StreamInv, NEW l \in Conns, LoopTicks(l) \/ LoopWorks(l) \/ LoopEnds(l)
  PROVE  UpdateInv'
<1>0. /\ TypeOK /\ UpdateInv
      /\ subscribers \subseteq Conns
      /\ loopPc \in [Conns -> LoopPcs]
      /\ targets \in [Conns -> SUBSET Conns]
      /\ msg \in [Conns -> Payload]
      /\ ticks \in Nat
      /\ lastBroadcast.at \in Nat /\ lastBroadcast.at <= ticks
      /\ \A m \in Conns : loopPc[m] # "send" => targets[m] = {}
  BY PayloadFacts DEF StreamInv, IInv, TypeOK, BroadcastInv
<1>o. \A m, n \in Conns : Live(m) /\ Live(n) => m = n
  BY DEF StreamInv, IInv, LoopsInv
<1>h. UNCHANGED <<h, initialAt>> /\ missed \subseteq missed'
  BY DEF LoopTicks, LoopWorks, LoopEnds, Loop, requestVars
<1> USE <1>0 DEF fieldVars, chanVars, callVars, localVars, loopVars, stopVars
<1>1. CASE LoopStops(l) \/ LoopPanics(l)
  <2>1. /\ UNCHANGED <<lastBroadcast, buf, seen, subscribers>>
        /\ \A m \in Conns : loopPc[m] = "snapshot" => loopPc'[m] = "snapshot"
        /\ \A m \in Conns : targets[m] \subseteq targets'[m]
    BY <1>1 DEF LoopStops, LoopPanics, LoopExit
  <2>2. \A d \in Conns : LastSent(d)' = LastSent(d)
    BY <2>1 DEF LastSent
  <2> QED
    BY <2>1, <2>2, <1>h, UpdateQuiet
<1>2. CASE Tick(l) \/ FetchFails(l) \/ FetchDuplicate(l)
  <2>1. /\ UNCHANGED <<lastBroadcast, buf, seen, subscribers, targets>>
        /\ \A m \in Conns : loopPc[m] = "snapshot" => loopPc'[m] = "snapshot"
    BY <1>2 DEF Tick, FetchFails, FetchDuplicate
  <2>2. \A d \in Conns : LastSent(d)' = LastSent(d)
    BY <2>1 DEF LastSent
  <2> QED
    BY <2>1, <2>2, <1>h, UpdateQuiet
<1>3. CASE FetchDegrades(l) \/ \E d \in Data : FetchFresh(l, d)
  <2>1. loopPc'[l] = "snapshot"
    BY <1>3 DEF FetchDegrades, FetchFresh
  <2> QED
    BY <2>1 DEF UpdateInv, Covered
<1>4. CASE Snapshot(l)
  <2>1. targets'[l] = subscribers /\ subscribers' = subscribers
    BY <1>4 DEF Snapshot, Remaining
  <2> QED
    BY <2>1 DEF UpdateInv, Covered
<1>5. ASSUME NEW c \in Conns, Send(l, c), Loop(l) PROVE UpdateInv'
  <2>0. /\ loopPc[l] = "send" /\ c \in targets[l] /\ c \notin closed
        /\ UNCHANGED <<lastBroadcast, ticks, subscribers, seen>>
    BY <1>5 DEF Send, StreamInv, IInv, ChannelsInv
  <2>1. targets' = [targets EXCEPT ![l] = targets[l] \ {c}]
    BY <1>5, <2>0 DEF Send, Remaining
  <2>2. \A m \in Conns : loopPc[m] # "snapshot"
    BY <2>0, <1>o DEF Live
  <2>3. CASE HasRoom(c)
    <3>1. buf' = [buf EXCEPT ![c] = Append(buf[c], msg[l])]
      BY <1>5, <2>0, <2>3 DEF Send
    <3>2. msg[l] \in Payload /\ msg[l].at = ticks
      BY <2>0 DEF StreamInv, OrderInv
    <3>3. /\ LastSent(c)' = ticks
          /\ \A a \in Conns \ {c} : LastSent(a)' = LastSent(a)
      BY <3>1, <3>2, <2>0, SendSetsLast
    <3>4. Covered(c)'
      BY <3>3, <2>0 DEF Covered
    <3>5. ASSUME NEW a \in Conns \ {c}, Covered(a) PROVE Covered(a)'
      BY <3>3, <3>5, <2>0, <2>1, <2>2, <1>h DEF Covered
    <3>6. ASSUME HasLast', NEW a \in subscribers',
                 h'[a] \in {"fetched", "stream", "writing"}, a \notin missed'
          PROVE  Covered(a)'
      <4>1. CASE a = c
        BY <4>1, <3>4
      <4>2. CASE a # c
        <5>1. Covered(a)
          BY <3>6, <2>0, <1>h DEF UpdateInv, HasLast
        <5> QED
          BY <5>1, <3>5, <3>6, <4>2, <2>0
      <4> QED
        BY <4>1, <4>2
    <3> QED
      BY <3>6 DEF UpdateInv
  <2>4. CASE ~HasRoom(c)
    <3>1. UNCHANGED buf
      BY <1>5, <2>0, <2>4 DEF Send
    <3>2. \A a \in Conns : LastSent(a)' = LastSent(a)
      BY <3>1, <2>0 DEF LastSent
    <3>3. c \in missed'
      BY <1>5, <2>0, <2>1, <2>4 DEF Loop
    <3>4. ASSUME NEW a \in Conns \ {c}, Covered(a) PROVE Covered(a)'
      BY <3>2, <3>4, <2>0, <2>1, <2>2, <1>h DEF Covered
    <3>5. ASSUME HasLast', NEW a \in subscribers',
                 h'[a] \in {"fetched", "stream", "writing"}, a \notin missed'
          PROVE  Covered(a)'
      <4>1. a # c /\ a \in Conns
        BY <3>3, <3>5, <2>0
      <4>2. Covered(a)
        BY <3>5, <2>0, <1>h DEF UpdateInv, HasLast
      <4> QED
        BY <4>1, <4>2, <3>4
    <3> QED
      BY <3>5 DEF UpdateInv
  <2> QED
    BY <2>3, <2>4
<1> QED
  BY <1>1, <1>2, <1>3, <1>4, <1>5 DEF LoopTicks, LoopWorks, LoopEnds, LoopWork

\* Every step of the SSE stack keeps UpdateInv.
LEMMA UpdateStep == StreamInv /\ [SSNext]_ssVars => UpdateInv'
<1> SUFFICES ASSUME StreamInv, [SSNext]_ssVars PROVE UpdateInv'
  OBVIOUS
<1>0. UpdateInv
  BY DEF StreamInv
<1> USE <1>0 DEF fieldVars, chanVars, callVars, localVars, loopVars, stopVars
<1>1. ASSUME NEW c \in Conns, IdleTimer(c) PROVE UpdateInv'
  BY <1>1, UpdateQuiet DEF IdleTimer, TimerFires, IdleCallback, requestVars, LastSent
<1>2. ASSUME ShutdownBegins \/ MainWork \/ DrainTimeout \/ Exited \/ UNCHANGED ssVars
      PROVE  UpdateInv'
  <2>1. /\ subscribers' \subseteq subscribers
        /\ UNCHANGED <<h, lastBroadcast, initialAt, missed, buf, seen, targets, loopPc>>
    BY <1>2 DEF ShutdownBegins, MainWork, ShutdownStopped, CloseAll, BackgroundDone,
       Drained, DrainTimeout, Exited, ssVars, requestVars, vars, StopBegin, StopClose
  <2>2. \A d \in subscribers : LastSent(d)' = LastSent(d)
    BY <2>1 DEF LastSent
  <2> QED
    BY <2>1, <2>2, UpdateQuiet
<1> QED
  BY <1>1, <1>2, UpdateHandler, UpdateLoop DEF SSNext

\* A handler that subscribes before it reads LastBroadcast misses no update:
\* between the initial event and its channel it is given every broadcast, unless
\* the channel was full for one.
THEOREM UpdatesKept == SSSpec => []NoLostUpdate
<1>1. SSInit => BroadcastInv /\ UpdateInv
  BY DEF SSInit, Init, BroadcastInv, UpdateInv, NoPayload
<1>2. SSSpec => [](IInv /\ OrderInv)
  BY StreamRunsBroadcaster, OrderCorrect, PTL
<1>3. IInv /\ OrderInv /\ BroadcastInv /\ [SSNext]_ssVars => BroadcastInv'
  BY BroadcastStep, StreamStepIsBroadcasterStep
<1>4. IInv /\ OrderInv /\ BroadcastInv /\ SSTypeOK /\ UpdateInv /\ [SSNext]_ssVars
        => UpdateInv'
  BY UpdateStep DEF StreamInv
<1>5. SSSpec => [](BroadcastInv /\ UpdateInv)
  BY <1>1, <1>2, <1>3, <1>4, StreamTypes, PTL DEF SSSpec
<1>6. UpdateInv => NoLostUpdate
  BY DEF UpdateInv, Covered, NoLostUpdate, LastSent
<1> QED
  BY <1>5, <1>6, PTL

=============================================================================
