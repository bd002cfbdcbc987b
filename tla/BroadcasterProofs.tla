------------------------- MODULE BroadcasterProofs -------------------------
(***************************************************************************)
(* Proofs about Broadcaster, for every set of Subscribe calls, channel     *)
(* capacity, error threshold and number of ticks.                          *)
(***************************************************************************)
EXTENDS Broadcaster, SequenceTheorems, TLAPS

\* What the other proofs need to know of the payloads the loop makes.
LEMMA PayloadFacts ==
  /\ NoPayload \in Payload
  /\ \A d \in Data \cup {Degraded}, n \in Nat : [data |-> d, at |-> n] \in Payload
  /\ \A p \in Payload : p.at \in Nat
BY DEF Payload, NoPayload

\* Every variable keeps its type and no channel holds more than its capacity
\* in the initial state.
LEMMA TypeInit == Init => TypeOK
<1> SUFFICES ASSUME Init PROVE TypeOK
  OBVIOUS
<1>1. ChanCap \in Nat
  BY BroadcasterAssumption DEF BroadcasterAssumption
<1>2. \A c \in Conns : Len(buf[c]) <= ChanCap
  <2>1. \A c \in Conns : buf[c] = <<>>
    BY DEF Init
  <2>2. Len(<<>>) = 0
    OBVIOUS
  <2>3. 0 <= ChanCap
    BY <1>1
  <2>4. QED
    BY <2>1, <2>2, <2>3
<1>3. buf \in [Conns -> Seq(Payload)]
  BY DEF Init
<1>4. QED
  BY <1>2, <1>3, PayloadFacts DEF Init, TypeOK, LoopPcs, SubPcs

\* Every operation of the broadcaster keeps the types: one step per action.
LEMMA TypeStep == TypeOK /\ [Next]_vars => TypeOK'
<1> SUFFICES ASSUME TypeOK, [Next]_vars PROVE TypeOK'
  OBVIOUS
<1>0. /\ errs \in [Conns -> Nat]
      /\ loopPc \in [Conns -> LoopPcs]
      /\ targets \in [Conns -> SUBSET Conns]
      /\ tickAt \in [Conns -> Nat]
      /\ prevJSON \in [Conns -> Data \cup {None}]
      /\ msg \in [Conns -> Payload]
      /\ buf \in [Conns -> Seq(Payload)]
      /\ \A c \in Conns : Len(buf[c]) <= ChanCap
      /\ seen \in [Conns -> Nat]
      /\ ticks \in Nat
      /\ loopGen \in Nat
      /\ timer \in [Conns -> {"off", "armed", "fired"}]
      /\ stopClosed \subseteq Conns
      /\ stopCh \in Conns \cup {None}
      /\ ChanCap \in Nat
  BY BroadcasterAssumption DEF TypeOK, BroadcasterAssumption
<1> USE DEF LoopPcs, SubPcs, fieldVars, chanVars, callVars, localVars, loopVars,
            stopVars
<1>1. ASSUME NEW c \in Conns, SubscribeStopped(c) PROVE TypeOK'
  BY <1>1 DEF SubscribeStopped, TypeOK
<1>2. ASSUME NEW c \in Conns, SubscribeJoin(c) PROVE TypeOK'
  BY <1>2 DEF SubscribeJoin, CancelIdle, TypeOK
<1>3. ASSUME NEW c \in Conns, SubscribeFirst(c) PROVE TypeOK'
  BY <1>3 DEF SubscribeFirst, CancelIdle, StartLoop, TypeOK
<1>4. ASSUME NEW c \in Conns, SubscribeAwait(c) PROVE TypeOK'
  BY <1>4 DEF SubscribeAwait, CancelIdle, TypeOK
<1>5. ASSUME NEW c \in Conns, SubscribeRestart(c) PROVE TypeOK'
  BY <1>5 DEF SubscribeRestart, StartLoop, TypeOK
<1>6. ASSUME NEW c \in Conns, SubscribeGiveUp(c) PROVE TypeOK'
  BY <1>6 DEF SubscribeGiveUp, TypeOK
<1>7. ASSUME NEW c \in Conns, Unsubscribe(c) PROVE TypeOK'
  BY <1>7 DEF Unsubscribe, TypeOK
<1>8. ASSUME NEW c \in Conns, Receive(c) PROVE TypeOK'
  <2>1. /\ Tail(buf[c]) \in Seq(Payload)
        /\ Len(Tail(buf[c])) <= ChanCap
        /\ Head(buf[c]).at \in Nat
    <3>1. buf[c] \in Seq(Payload) /\ buf[c] # <<>> /\ Len(buf[c]) <= ChanCap
      BY <1>8, <1>0 DEF Receive
    <3>2. /\ Head(buf[c]) \in Payload
          /\ Tail(buf[c]) \in Seq(Payload)
          /\ Len(Tail(buf[c])) = Len(buf[c]) - 1
      BY <3>1, HeadTailProperties
    <3>3. Len(buf[c]) \in Nat
      BY <3>1
    <3>4. QED
      BY <3>1, <3>2, <3>3, <1>0, PayloadFacts
  <2>2. buf' \in [Conns -> Seq(Payload)] /\ seen' \in [Conns -> Nat]
    BY <1>8, <2>1, <1>0 DEF Receive
  <2>3. \A a \in Conns : Len(buf'[a]) <= ChanCap
    BY <1>8, <2>1, <1>0 DEF Receive
  <2>4. QED
    BY <1>8, <2>2, <2>3 DEF Receive, TypeOK
<1>9. ASSUME NEW c \in Conns, TimerFires(c) PROVE TypeOK'
  BY <1>9 DEF TimerFires, TypeOK
<1>10. ASSUME NEW c \in Conns, IdleCallback(c) PROVE TypeOK'
  BY <1>10 DEF IdleCallback, CloseStopCh, TypeOK
<1>11. ASSUME NEW l \in Conns, LoopStops(l) PROVE TypeOK'
  BY <1>11, PayloadFacts DEF LoopStops, LoopExit, TypeOK
<1>12. ASSUME NEW l \in Conns, Tick(l) PROVE TypeOK'
  <2>1. ticks' \in Nat /\ tickAt' \in [Conns -> Nat]
    BY <1>12, <1>0 DEF Tick
  <2>2. QED
    BY <1>12, <2>1 DEF Tick, TypeOK
<1>13. ASSUME NEW l \in Conns, FetchFails(l) PROVE TypeOK'
  <2>1. errs' \in [Conns -> Nat]
    BY <1>13, <1>0 DEF FetchFails
  <2>2. QED
    BY <1>13, <2>1 DEF FetchFails, TypeOK
<1>14. ASSUME NEW l \in Conns, FetchDegrades(l) PROVE TypeOK'
  <2>1. errs' \in [Conns -> Nat] /\ msg' \in [Conns -> Payload]
    <3>1. [data |-> Degraded, at |-> tickAt[l]] \in Payload
      BY <1>0, PayloadFacts
    <3>2. /\ errs' = [errs EXCEPT ![l] = @ + 1]
          /\ msg' = [msg EXCEPT ![l] = [data |-> Degraded, at |-> tickAt[l]]]
      BY <1>14 DEF FetchDegrades
    <3>3. QED
      BY <3>1, <3>2, <1>0
  <2>2. QED
    BY <1>14, <2>1 DEF FetchDegrades, TypeOK
<1>15. ASSUME NEW l \in Conns, FetchDuplicate(l) PROVE TypeOK'
  BY <1>15 DEF FetchDuplicate, TypeOK
<1>16. ASSUME NEW l \in Conns, NEW d \in Data, FetchFresh(l, d) PROVE TypeOK'
  <2>1. msg' \in [Conns -> Payload] /\ lastBroadcast' \in Payload
    BY <1>16, PayloadFacts, <1>0 DEF FetchFresh
  <2>2. prevJSON' \in [Conns -> Data \cup {None}] /\ errs' \in [Conns -> Nat]
    BY <1>16, <1>0 DEF FetchFresh
  <2>3. QED
    BY <1>16, <2>1, <2>2 DEF FetchFresh, TypeOK
<1>17. ASSUME NEW l \in Conns, LoopPanics(l) PROVE TypeOK'
  BY <1>17, PayloadFacts DEF LoopPanics, LoopExit, TypeOK
<1>18. ASSUME NEW l \in Conns, Snapshot(l) PROVE TypeOK'
  BY <1>18 DEF Snapshot, Remaining, TypeOK
<1>19. ASSUME NEW l \in Conns, NEW c \in Conns, Send(l, c) PROVE TypeOK'
  <2>1. CASE c \in closed
    <3>1. LoopExit(l) /\ UNCHANGED buf
      BY <1>19, <2>1 DEF Send
    <3>2. /\ loopPc' \in [Conns -> LoopPcs]
          /\ targets' \in [Conns -> SUBSET Conns]
          /\ tickAt' \in [Conns -> Nat]
          /\ errs' \in [Conns -> Nat]
          /\ prevJSON' \in [Conns -> Data \cup {None}]
          /\ msg' \in [Conns -> Payload]
      BY <3>1, <1>0, PayloadFacts DEF LoopExit
    <3>3. QED
      BY <1>19, <3>1, <3>2 DEF Send, TypeOK
  <2>2. CASE c \notin closed
    <3>1. ASSUME HasRoom(c)
          PROVE  /\ Append(buf[c], msg[l]) \in Seq(Payload)
                 /\ Len(Append(buf[c], msg[l])) <= ChanCap
      <4>1. buf[c] \in Seq(Payload) /\ msg[l] \in Payload
        BY <1>19, <1>0
      <4>2. /\ Append(buf[c], msg[l]) \in Seq(Payload)
            /\ Len(Append(buf[c], msg[l])) = Len(buf[c]) + 1
        BY <4>1, AppendProperties
      <4>3. Len(buf[c]) \in Nat
        BY <4>1
      <4>4. QED
        BY <3>1, <4>2, <4>3, <1>0 DEF HasRoom
    <3>2. buf' \in [Conns -> Seq(Payload)]
      BY <1>19, <2>2, <3>1, <1>0 DEF Send
    <3>3. \A a \in Conns : Len(buf'[a]) <= ChanCap
      BY <1>19, <2>2, <3>1, <1>0 DEF Send
    <3>4. /\ targets' \in [Conns -> SUBSET Conns]
          /\ loopPc' \in [Conns -> LoopPcs]
      <4>1. Remaining(l, targets[l] \ {c})
        BY <1>19, <2>2 DEF Send
      <4>2. targets[l] \ {c} \in SUBSET Conns
        BY <1>0
      <4>3. QED
        BY <4>1, <4>2, <1>0 DEF Remaining
    <3>5. QED
      BY <1>19, <2>2, <3>2, <3>3, <3>4 DEF Send, TypeOK
  <2>3. QED
    BY <2>1, <2>2
<1>20. ASSUME StopBegin PROVE TypeOK'
  <2>1. loopGen' \in Nat
    BY <1>20, <1>0 DEF StopBegin
  <2>2. timer' \in [Conns -> {"off", "armed", "fired"}] /\ idleTimer' = None
    BY <1>20, <1>0 DEF StopBegin, CancelIdle
  <2>3. stopClosed' \subseteq Conns /\ stopCh' = None
    BY <1>20, <1>0 DEF StopBegin, CloseStopCh
  <2>4. QED
    BY <1>20, <2>1, <2>2, <2>3 DEF StopBegin, TypeOK
<1>21. ASSUME StopClose PROVE TypeOK'
  BY <1>21 DEF StopClose, TypeOK
<1>22. ASSUME UNCHANGED vars PROVE TypeOK'
  BY <1>22 DEF vars, TypeOK
<1>23. QED
  BY <1>1, <1>2, <1>3, <1>4, <1>5, <1>6, <1>7, <1>8, <1>9, <1>10, <1>11,
     <1>12, <1>13, <1>14, <1>15, <1>16, <1>17, <1>18, <1>19, <1>20, <1>21,
     <1>22
  DEF Next, LoopWork, SubscribeReturns, Finished

\* The types hold throughout: a channel never holds more than its capacity.
THEOREM TypeCorrect == Spec => []TypeOK
BY TypeInit, TypeStep, PTL DEF Spec

\* Every operation of the broadcaster keeps the inductive invariant: one step
\* per action, and under it one per conjunct that the action can disturb.
LEMMA InvStep == IInv /\ [Next]_vars => IInv'
<1> SUFFICES ASSUME IInv, [Next]_vars PROVE IInv'
  OBVIOUS
<1>a. TypeOK'
  BY TypeStep DEF IInv
<1>0. /\ None \notin Conns
      /\ subscribers \subseteq Conns
      /\ stopCh \in Conns \cup {None}
      /\ loopDone \in Conns \cup {None}
      /\ stopped \in BOOLEAN
      /\ idleTimer \in Conns \cup {None}
      /\ closed \subseteq Conns
      /\ stopClosed \subseteq Conns
      /\ subPc \in [Conns -> SubPcs]
      /\ subGen \in [Conns -> Nat]
      /\ subDone \in [Conns -> Conns \cup {None}]
      /\ timer \in [Conns -> {"off", "armed", "fired"}]
      /\ loopPc \in [Conns -> LoopPcs]
      /\ targets \in [Conns -> SUBSET Conns]
      /\ stopPc \in {"idle", "waiting", "done"}
  BY BroadcasterAssumption DEF IInv, TypeOK, BroadcasterAssumption
<1>b. /\ LoopsInv /\ CallsInv /\ ChannelsInv /\ StopInv
      /\ IdleLoopHasTimer /\ ServedOrStarting
  BY DEF IInv
<1> USE <1>0, <1>b
    DEF LoopPcs, SubPcs, fieldVars, chanVars, callVars, localVars, loopVars,
        stopVars, Live
<1>1. ASSUME NEW c \in Conns, SubscribeStopped(c) PROVE IInv'
  <2>1. LoopsInv'
    BY <1>1 DEF SubscribeStopped, Admitted, LoopsInv
  <2>2. CallsInv'
    BY <1>1 DEF SubscribeStopped, Admitted, CallsInv
  <2>3. ChannelsInv'
    BY <1>1 DEF SubscribeStopped, Admitted, ChannelsInv, CallsInv
  <2>4. ServedOrStarting'
    BY <1>1 DEF SubscribeStopped, Admitted, ServedOrStarting
  <2>5. StopInv' /\ IdleLoopHasTimer'
    BY <1>1 DEF SubscribeStopped, Admitted, StopInv, IdleLoopHasTimer
  <2>6. QED
    BY <1>a, <2>1, <2>2, <2>3, <2>4, <2>5 DEF IInv
<1>2. ASSUME NEW c \in Conns, SubscribeJoin(c) PROVE IInv'
  <2>1. LoopsInv'
    BY <1>2 DEF SubscribeJoin, Admitted, CancelIdle, WasEmpty, LoopsInv
  <2>2. CallsInv'
    BY <1>2 DEF SubscribeJoin, Admitted, CancelIdle, WasEmpty, CallsInv
  <2>3. ChannelsInv'
    BY <1>2 DEF SubscribeJoin, Admitted, CancelIdle, WasEmpty, ChannelsInv
  <2>4. StopInv'
    BY <1>2 DEF SubscribeJoin, Admitted, CancelIdle, WasEmpty, StopInv
  <2>5. IdleLoopHasTimer'
    BY <1>2 DEF SubscribeJoin, Admitted, CancelIdle, WasEmpty,
       IdleLoopHasTimer
  <2>6. ServedOrStarting'
    BY <1>2 DEF SubscribeJoin, Admitted, CancelIdle, WasEmpty,
       ServedOrStarting
  <2>7. QED
    BY <1>a, <2>1, <2>2, <2>3, <2>4, <2>5, <2>6 DEF IInv
<1>3. ASSUME NEW c \in Conns, SubscribeFirst(c) PROVE IInv'
  <2>1. LoopsInv'
    BY <1>3 DEF SubscribeFirst, Admitted, CancelIdle, WasEmpty, StartLoop,
       LoopsInv
  <2>2. CallsInv'
    BY <1>3 DEF SubscribeFirst, Admitted, CancelIdle, WasEmpty, StartLoop,
       CallsInv
  <2>3. ChannelsInv'
    BY <1>3 DEF SubscribeFirst, Admitted, CancelIdle, WasEmpty, StartLoop,
       ChannelsInv
  <2>4. StopInv'
    BY <1>3 DEF SubscribeFirst, Admitted, CancelIdle, WasEmpty, StartLoop,
       StopInv
  <2>5. IdleLoopHasTimer'
    BY <1>3 DEF SubscribeFirst, Admitted, CancelIdle, WasEmpty, StartLoop,
       IdleLoopHasTimer
  <2>6. ServedOrStarting'
    BY <1>3 DEF SubscribeFirst, Admitted, CancelIdle, WasEmpty, StartLoop,
       ServedOrStarting
  <2>7. QED
    BY <1>a, <2>1, <2>2, <2>3, <2>4, <2>5, <2>6 DEF IInv
<1>4. ASSUME NEW c \in Conns, SubscribeAwait(c) PROVE IInv'
  <2>1. LoopsInv'
    BY <1>4 DEF SubscribeAwait, Admitted, CancelIdle, WasEmpty, LoopsInv
  <2>2. CallsInv'
    BY <1>4 DEF SubscribeAwait, Admitted, CancelIdle, WasEmpty, CallsInv,
       StopInv
  <2>3. ChannelsInv'
    BY <1>4 DEF SubscribeAwait, Admitted, CancelIdle, WasEmpty, ChannelsInv
  <2>4. StopInv'
    BY <1>4 DEF SubscribeAwait, Admitted, CancelIdle, WasEmpty, StopInv
  <2>5. IdleLoopHasTimer'
    BY <1>4 DEF SubscribeAwait, Admitted, CancelIdle, WasEmpty,
       IdleLoopHasTimer
  <2>6. ServedOrStarting'
    BY <1>4 DEF SubscribeAwait, Admitted, CancelIdle, WasEmpty,
       ServedOrStarting
  <2>7. QED
    BY <1>a, <2>1, <2>2, <2>3, <2>4, <2>5, <2>6 DEF IInv
<1>5. ASSUME NEW c \in Conns, SubscribeRestart(c) PROVE IInv'
  <2>1. LoopsInv'
    BY <1>5 DEF SubscribeRestart, PreviousLoopGone, DoneClosed, StartLoop,
       LoopsInv, CallsInv
  <2>2. CallsInv'
    BY <1>5 DEF SubscribeRestart, PreviousLoopGone, DoneClosed, StartLoop,
       CallsInv, StopInv
  <2>3. ChannelsInv'
    BY <1>5 DEF SubscribeRestart, PreviousLoopGone, DoneClosed, StartLoop,
       ChannelsInv
  <2>4. StopInv'
    BY <1>5 DEF SubscribeRestart, PreviousLoopGone, DoneClosed, StartLoop,
       StopInv, CallsInv
  <2>5. IdleLoopHasTimer'
    BY <1>5 DEF SubscribeRestart, PreviousLoopGone, DoneClosed, StartLoop,
       IdleLoopHasTimer, CallsInv, StopInv
  <2>6. ServedOrStarting'
    BY <1>5 DEF SubscribeRestart, PreviousLoopGone, DoneClosed, StartLoop,
       ServedOrStarting
  <2>7. QED
    BY <1>a, <2>1, <2>2, <2>3, <2>4, <2>5, <2>6 DEF IInv
<1>6. ASSUME NEW c \in Conns, SubscribeGiveUp(c) PROVE IInv'
  <2>1. LoopsInv'
    BY <1>6 DEF SubscribeGiveUp, PreviousLoopGone, DoneClosed, LoopsInv
  <2>2. CallsInv'
    BY <1>6 DEF SubscribeGiveUp, PreviousLoopGone, DoneClosed, CallsInv
  <2>3. ChannelsInv'
    BY <1>6 DEF SubscribeGiveUp, PreviousLoopGone, DoneClosed, ChannelsInv,
       LoopsInv, CallsInv
  <2>4. StopInv'
    BY <1>6 DEF SubscribeGiveUp, PreviousLoopGone, DoneClosed, StopInv
  <2>5. IdleLoopHasTimer'
    BY <1>6 DEF SubscribeGiveUp, PreviousLoopGone, DoneClosed,
       IdleLoopHasTimer, CallsInv
  <2>6. ServedOrStarting'
    BY <1>6 DEF SubscribeGiveUp, PreviousLoopGone, DoneClosed,
       ServedOrStarting, CallsInv, StopInv
  <2>7. QED
    BY <1>a, <2>1, <2>2, <2>3, <2>4, <2>5, <2>6 DEF IInv
<1>7. ASSUME NEW c \in Conns, Unsubscribe(c) PROVE IInv'
  <2>1. LoopsInv'
    BY <1>7 DEF Unsubscribe, ArmsIdle, LoopsInv
  <2>2. CallsInv'
    BY <1>7 DEF Unsubscribe, ArmsIdle, CallsInv
  <2>3. ChannelsInv'
    BY <1>7 DEF Unsubscribe, ArmsIdle, ChannelsInv
  <2>4. StopInv'
    BY <1>7 DEF Unsubscribe, ArmsIdle, StopInv
  <2>5. IdleLoopHasTimer'
    BY <1>7 DEF Unsubscribe, ArmsIdle, IdleLoopHasTimer
  <2>6. ServedOrStarting'
    BY <1>7 DEF Unsubscribe, ArmsIdle, ServedOrStarting
  <2>7. QED
    BY <1>a, <2>1, <2>2, <2>3, <2>4, <2>5, <2>6 DEF IInv
<1>8. ASSUME NEW c \in Conns, Receive(c) PROVE IInv'
  BY <1>8, <1>a DEF Receive, IInv, LoopsInv, CallsInv, ChannelsInv, StopInv,
     IdleLoopHasTimer, ServedOrStarting
<1>9. ASSUME NEW t \in Conns, TimerFires(t) PROVE IInv'
  BY <1>9, <1>a DEF TimerFires, IInv, LoopsInv, CallsInv, ChannelsInv,
     StopInv, IdleLoopHasTimer, ServedOrStarting
<1>10. ASSUME NEW t \in Conns, IdleCallback(t) PROVE IInv'
  <2>1. LoopsInv'
    BY <1>10 DEF IdleCallback, IdleCloses, CloseStopCh, LoopsInv
  <2>2. CallsInv'
    BY <1>10 DEF IdleCallback, IdleCloses, CloseStopCh, CallsInv
  <2>3. StopInv'
    BY <1>10 DEF IdleCallback, IdleCloses, CloseStopCh, StopInv
  <2>4. IdleLoopHasTimer'
    BY <1>10 DEF IdleCallback, IdleCloses, CloseStopCh, IdleLoopHasTimer,
       StopInv
  <2>5. ServedOrStarting'
    BY <1>10 DEF IdleCallback, IdleCloses, CloseStopCh, ServedOrStarting
  <2>6. ChannelsInv'
    BY <1>10 DEF IdleCallback, IdleCloses, CloseStopCh, ChannelsInv
  <2>7. QED
    BY <1>a, <2>1, <2>2, <2>3, <2>4, <2>5, <2>6 DEF IInv
<1>11. ASSUME NEW l \in Conns, LoopStops(l) PROVE IInv'
  BY <1>11, <1>a DEF LoopStops, LoopExit, IInv, LoopsInv, CallsInv,
     ChannelsInv, StopInv, IdleLoopHasTimer, ServedOrStarting
<1>12. ASSUME NEW l \in Conns, Tick(l) PROVE IInv'
  BY <1>12, <1>a DEF Tick, IInv, LoopsInv, CallsInv, ChannelsInv, StopInv,
     IdleLoopHasTimer, ServedOrStarting
<1>13. ASSUME NEW l \in Conns, FetchFails(l) PROVE IInv'
  BY <1>13, <1>a DEF FetchFails, IInv, LoopsInv, CallsInv, ChannelsInv,
     StopInv, IdleLoopHasTimer, ServedOrStarting
<1>14. ASSUME NEW l \in Conns, FetchDegrades(l) PROVE IInv'
  BY <1>14, <1>a DEF FetchDegrades, IInv, LoopsInv, CallsInv, ChannelsInv,
     StopInv, IdleLoopHasTimer, ServedOrStarting
<1>15. ASSUME NEW l \in Conns, FetchDuplicate(l) PROVE IInv'
  BY <1>15, <1>a DEF FetchDuplicate, IInv, LoopsInv, CallsInv, ChannelsInv,
     StopInv, IdleLoopHasTimer, ServedOrStarting
<1>16. ASSUME NEW l \in Conns, NEW d \in Data, FetchFresh(l, d) PROVE IInv'
  BY <1>16, <1>a DEF FetchFresh, IInv, LoopsInv, CallsInv, ChannelsInv,
     StopInv, IdleLoopHasTimer, ServedOrStarting
<1>17. ASSUME NEW l \in Conns, LoopPanics(l) PROVE IInv'
  BY <1>17, <1>a DEF LoopPanics, LoopExit, IInv, LoopsInv, CallsInv,
     ChannelsInv, StopInv, IdleLoopHasTimer, ServedOrStarting
<1>18. ASSUME NEW l \in Conns, Snapshot(l) PROVE IInv'
  <2>1. LoopsInv'
    BY <1>18 DEF Snapshot, Remaining, LoopsInv
  <2>2. ChannelsInv'
    BY <1>18 DEF Snapshot, Remaining, ChannelsInv, CallsInv
  <2>3. StopInv'
    BY <1>18 DEF Snapshot, Remaining, StopInv
  <2>4. CallsInv' /\ IdleLoopHasTimer' /\ ServedOrStarting'
    BY <1>18 DEF Snapshot, Remaining, CallsInv, IdleLoopHasTimer,
       ServedOrStarting
  <2>5. QED
    BY <1>a, <2>1, <2>2, <2>3, <2>4 DEF IInv
<1>19. ASSUME NEW l \in Conns, NEW c \in Conns, Send(l, c) PROVE IInv'
  <2>1. LoopsInv'
    BY <1>19 DEF Send, LoopExit, Remaining, LoopsInv
  <2>2. ChannelsInv'
    <3>1. CASE c \in closed
      BY <1>19, <3>1 DEF Send, LoopExit, ChannelsInv
    <3>2. CASE c \notin closed
      <4>1. targets' = [targets EXCEPT ![l] = targets[l] \ {c}]
        BY <1>19, <3>2 DEF Send, Remaining
      <4>2. UNCHANGED <<subscribers, closed, stopped, subPc>>
        BY <1>19 DEF Send
      <4>3. QED
        BY <4>1, <4>2 DEF ChannelsInv
    <3>3. QED
      BY <3>1, <3>2
  <2>3. StopInv'
    BY <1>19 DEF Send, LoopExit, Remaining, StopInv
  <2>4. CallsInv' /\ IdleLoopHasTimer' /\ ServedOrStarting'
    BY <1>19 DEF Send, LoopExit, Remaining, CallsInv, IdleLoopHasTimer,
       ServedOrStarting
  <2>5. QED
    BY <1>a, <2>1, <2>2, <2>3, <2>4 DEF IInv
<1>20. ASSUME StopBegin PROVE IInv'
  <2>1. LoopsInv'
    BY <1>20 DEF StopBegin, CancelIdle, CloseStopCh, LoopsInv
  <2>2. CallsInv'
    BY <1>20 DEF StopBegin, CancelIdle, CloseStopCh, CallsInv
  <2>3. ChannelsInv'
    BY <1>20 DEF StopBegin, CancelIdle, CloseStopCh, ChannelsInv
  <2>4. StopInv'
    BY <1>20 DEF StopBegin, CancelIdle, CloseStopCh, StopInv
  <2>5. IdleLoopHasTimer'
    BY <1>20 DEF StopBegin, CancelIdle, CloseStopCh, IdleLoopHasTimer
  <2>6. ServedOrStarting'
    BY <1>20 DEF StopBegin, CancelIdle, CloseStopCh, ServedOrStarting
  <2>7. QED
    BY <1>a, <2>1, <2>2, <2>3, <2>4, <2>5, <2>6 DEF IInv
<1>21. ASSUME StopClose PROVE IInv'
  <2>1. CallsInv'
    BY <1>21 DEF StopClose, StopMayClose, DoneClosed, CallsInv, StopInv
  <2>2. ChannelsInv'
    BY <1>21 DEF StopClose, StopMayClose, DoneClosed, ChannelsInv, LoopsInv,
       CallsInv, StopInv
  <2>3. StopInv'
    BY <1>21 DEF StopClose, StopMayClose, DoneClosed, StopInv, LoopsInv
  <2>4. IdleLoopHasTimer'
    BY <1>21 DEF StopClose, StopMayClose, DoneClosed, IdleLoopHasTimer,
       StopInv
  <2>5. ServedOrStarting'
    BY <1>21 DEF StopClose, StopMayClose, DoneClosed, ServedOrStarting
  <2>6. LoopsInv'
    BY <1>21 DEF StopClose, StopMayClose, DoneClosed, LoopsInv
  <2>7. QED
    BY <1>a, <2>1, <2>2, <2>3, <2>4, <2>5, <2>6 DEF IInv
<1>22. ASSUME UNCHANGED vars PROVE IInv'
  BY <1>22, <1>a DEF vars, IInv, LoopsInv, CallsInv, ChannelsInv, StopInv,
     IdleLoopHasTimer, ServedOrStarting
<1>23. QED
  BY <1>1, <1>2, <1>3, <1>4, <1>5, <1>6, <1>7, <1>8, <1>9, <1>10, <1>11, <1>12,
     <1>13, <1>14, <1>15, <1>16, <1>17, <1>18, <1>19, <1>20, <1>21, <1>22
  DEF Next, LoopWork, SubscribeReturns, Finished

\* The inductive invariant holds initially.
LEMMA InvInit == Init => IInv
<1> SUFFICES ASSUME Init PROVE IInv
  OBVIOUS
<1>1. TypeOK
  BY TypeInit
<1>2. LoopsInv /\ CallsInv /\ ChannelsInv
  BY BroadcasterAssumption
  DEF BroadcasterAssumption, Init, LoopsInv, CallsInv, ChannelsInv, Live
<1>3. StopInv /\ IdleLoopHasTimer /\ ServedOrStarting
  BY DEF Init, StopInv, IdleLoopHasTimer, ServedOrStarting, Live
<1>4. QED
  BY <1>1, <1>2, <1>3 DEF IInv

\* The inductive invariant holds in every reachable state.
THEOREM InvCorrect == Spec => []IInv
BY InvInit, InvStep, PTL DEF Spec

-----------------------------------------------------------------------------
(* What follows from it *)

\* The gate in Subscribe lets no two polling goroutines run together, whatever
\* the idle timers, the Subscribe calls and Stop do.
THEOREM OneLoop == Spec => []AtMostOneLoop
<1>1. IInv => AtMostOneLoop
  BY DEF IInv, LoopsInv, AtMostOneLoop
<1>2. QED
  BY <1>1, InvCorrect, PTL

\* The loop never sends on a closed channel: Stop closes them after the loop
\* has exited, and nobody closes one that is registered or in a snapshot.
THEOREM SendsAreSafe == Spec => []NoSendOnClosed
<1>1. IInv => NoSendOnClosed
  BY DEF IInv, ChannelsInv, NoSendOnClosed
<1>2. QED
  BY <1>1, InvCorrect, PTL

\* Neither Stop nor the idle callback closes a stopCh twice or closes the one of
\* another loop than the newest.
THEOREM StopChClosedOnce == Spec => []StopChOpen
<1>1. IInv => StopChOpen
  BY DEF IInv, LoopsInv, StopChOpen
<1>2. QED
  BY <1>1, InvCorrect, PTL

\* After Stop every consumer holds a closed channel and no loop runs or can be
\* started.
THEOREM StopIsFinal == Spec => []ClosedAfterStop
<1>1. IInv => ClosedAfterStop
  <2> SUFFICES ASSUME IInv, stopPc = "done" PROVE ClosedAfterStop
    BY DEF ClosedAfterStop
  <2>1. subscribers = {} /\ \A l \in Conns : ~Live(l)
    BY DEF IInv, StopInv
  <2>2. stopCh = None
    BY DEF IInv, StopInv
  <2>3. \A c \in Conns : subPc[c] = "active" => c \in closed
    BY <2>1 DEF IInv, CallsInv
  <2>4. QED
    BY <2>1, <2>2, <2>3 DEF ClosedAfterStop
<1>2. QED
  BY <1>1, InvCorrect, PTL

\* No subscriber is left with neither a loop nor somebody about to start one.
THEOREM SubscribersServed == Spec => []ServedOrStarting
<1>1. IInv => ServedOrStarting
  BY DEF IInv
<1>2. QED
  BY <1>1, InvCorrect, PTL

\* No loop runs on without subscribers and without a timer that will end it.
THEOREM IdleLoopsTimed == Spec => []IdleLoopHasTimer
<1>1. IInv => IdleLoopHasTimer
  BY DEF IInv
<1>2. QED
  BY <1>1, InvCorrect, PTL

-----------------------------------------------------------------------------
(* The broadcaster implements the feed it promises *)

\* The order of the payloads: a loop that has taken a tick works for the latest
\* one, nobody was sent a later payload, and whoever the loop has still to send
\* to was not sent this one.  A Subscribe that waits keeps its place until Stop
\* closes its channel.
OrderInv ==
  /\ \A l \in Conns :
       /\ loopPc[l] \in {"fetch", "snapshot", "send"} => tickAt[l] = ticks
       /\ loopPc[l] \in {"snapshot", "send"} => msg[l].at = ticks
       /\ loopPc[l] \in {"fetch", "snapshot"} =>
            \A c \in Conns : LastSent(c) < ticks
       /\ \A c \in targets[l] : LastSent(c) < ticks
  /\ \A c \in Conns : LastSent(c) <= ticks
  /\ \A c \in Conns : subPc[c] = "waiting" => c \in subscribers \cup closed

\* The latest payload sent to a consumer is that of some tick.
LEMMA LastSentType ==
  ASSUME TypeOK, NEW c \in Conns
  PROVE  LastSent(c) \in Nat
<1>1. buf[c] \in Seq(Payload) /\ seen[c] \in Nat
  BY DEF TypeOK
<1>2. CASE buf[c] = <<>>
  BY <1>1, <1>2 DEF LastSent
<1>3. CASE buf[c] # <<>>
  <2>1. Len(buf[c]) \in 1..Len(buf[c])
    BY <1>1, <1>3, EmptySeq
  <2>2. buf[c][Len(buf[c])] \in Payload
    BY <1>1, <2>1, ElementOfSeq
  <2>3. QED
    BY <1>3, <2>2, PayloadFacts DEF LastSent
<1>4. QED
  BY <1>2, <1>3

\* Taking a payload from the channel changes nothing about what was sent last.
LEMMA ReceiveKeepsLast ==
  ASSUME TypeOK, NEW c \in Conns, Receive(c)
  PROVE  \A a \in Conns : LastSent(a)' = LastSent(a)
<1>1. buf[c] \in Seq(Payload) /\ buf[c] # <<>>
  BY DEF TypeOK, Receive
<1>2. buf \in [Conns -> Seq(Payload)] /\ seen \in [Conns -> Nat]
  BY DEF TypeOK
<1>3. /\ buf'[c] = Tail(buf[c]) /\ seen'[c] = Head(buf[c]).at
      /\ \A a \in Conns \ {c} : buf'[a] = buf[a] /\ seen'[a] = seen[a]
  BY <1>2 DEF Receive
<1>4. PICK s \in Seq(Payload) : s = buf[c]
  BY <1>1
<1>5. PICK n \in Nat \ {0} : n = Len(s)
  BY <1>1, <1>4, EmptySeq
<1>6. LastSent(c) = s[n].at
  BY <1>1, <1>4, <1>5 DEF LastSent
<1>7. Head(s) = s[1]
  BY <1>4, <1>5, <1>1, HeadTailProperties
<1>8. /\ Tail(s) \in Seq(Payload) /\ Len(Tail(s)) = n - 1
      /\ \A i \in 1..(n - 1) : Tail(s)[i] = s[i + 1]
  BY <1>4, <1>5, <1>1, HeadTailProperties
<1>9. LastSent(c)' = s[n].at
  <2>1. CASE n = 1
    <3>0. Len(Tail(s)) = 0
      BY <1>8, <2>1
    <3>1. Tail(s) = <<>>
      BY <3>0, <1>8, EmptySeq
    <3>2. QED
      BY <3>1, <1>3, <1>4, <1>7, <2>1 DEF LastSent
  <2>2. CASE n # 1
    <3>1. n - 1 \in 1..(n - 1) /\ (n - 1) + 1 = n /\ n - 1 # 0
      BY <2>2, <1>5
    <3>2. Tail(s) # <<>>
      BY <1>8, <3>1, EmptySeq
    <3>3. Tail(s)[n - 1] = s[n]
      BY <1>8, <3>1
    <3>4. QED
      BY <3>2, <3>3, <1>3, <1>4, <1>8 DEF LastSent
  <2>3. QED
    BY <2>1, <2>2
<1>10. QED
  BY <1>3, <1>6, <1>9 DEF LastSent

\* A send that finds room makes the loop's payload the latest one sent to that
\* consumer, and to nobody else.
LEMMA SendSetsLast ==
  ASSUME TypeOK, NEW c \in Conns, NEW m \in Payload,
         UNCHANGED seen, buf' = [buf EXCEPT ![c] = Append(buf[c], m)]
  PROVE  /\ LastSent(c)' = m.at
         /\ \A a \in Conns \ {c} : LastSent(a)' = LastSent(a)
<1>1. buf \in [Conns -> Seq(Payload)]
  BY DEF TypeOK
<1>2. /\ buf'[c] = Append(buf[c], m)
      /\ \A a \in Conns \ {c} : buf'[a] = buf[a]
  BY <1>1
<1>3. PICK s \in Seq(Payload) : s = buf[c]
  BY <1>1
<1>4. /\ Append(s, m) # <<>>
      /\ Append(s, m)[Len(Append(s, m))] = m
  BY AppendProperties
<1>5. LastSent(c)' = m.at
  BY <1>2, <1>3, <1>4 DEF LastSent
<1>6. QED
  BY <1>2, <1>5 DEF LastSent

\* Nothing was sent and no tick was taken before the first call.
LEMMA OrderInit == Init => OrderInv
<1> SUFFICES ASSUME Init PROVE OrderInv
  OBVIOUS
<1>1. \A c \in Conns : LastSent(c) = 0
  BY DEF Init, LastSent
<1>2. \A l \in Conns : targets[l] = {} /\ loopPc[l] = "none"
  BY DEF Init
<1>3. \A c \in Conns : subPc[c] = "idle"
  BY DEF Init
<1>4. ticks = 0
  BY DEF Init
<1>5. QED
  BY <1>1, <1>2, <1>3, <1>4 DEF OrderInv

\* A step that sends and takes nothing, takes no tick, and at most ends a loop
\* or moves one to its select, keeps the order.
LEMMA OrderQuiet ==
  ASSUME OrderInv, UNCHANGED <<buf, seen, ticks, tickAt, msg, targets>>,
         \A l \in Conns : loopPc'[l] \in {loopPc[l], "select"},
         \A c \in Conns :
           subPc'[c] = "waiting" => \/ c \in subscribers'
                                    \/ /\ subPc[c] = "waiting"
                                       /\ (c \in closed => c \in closed')
                                       /\ c \in subscribers => c \in closed'
  PROVE  OrderInv'
<1>1. \A c \in Conns : LastSent(c)' = LastSent(c)
  BY DEF LastSent
<1>2. ASSUME NEW l \in Conns
      PROVE  /\ loopPc'[l] \in {"fetch", "snapshot", "send"} => tickAt'[l] = ticks'
             /\ loopPc'[l] \in {"snapshot", "send"} => msg'[l].at = ticks'
             /\ loopPc'[l] \in {"fetch", "snapshot"} =>
                  \A c \in Conns : LastSent(c)' < ticks'
             /\ \A c \in targets'[l] : c \in Conns => LastSent(c)' < ticks'
  BY <1>1, <1>2 DEF OrderInv
<1>3. \A l \in Conns : \A c \in targets'[l] : LastSent(c)' < ticks'
  BY DEF OrderInv, LastSent
<1>4. \A c \in Conns : LastSent(c)' <= ticks'
  BY <1>1 DEF OrderInv
<1>5. \A c \in Conns : subPc'[c] = "waiting" => c \in subscribers' \cup closed'
  BY DEF OrderInv
<1>6. QED
  BY <1>2, <1>3, <1>4, <1>5 DEF OrderInv

\* The goroutine of a loop ends: its locals are forgotten.
LEMMA OrderExit ==
  ASSUME TypeOK, OrderInv, NEW l \in Conns, LoopExit(l),
         UNCHANGED <<buf, seen, ticks, subPc, subscribers, closed>>
  PROVE  OrderInv'
<1>1. \A c \in Conns : LastSent(c)' = LastSent(c)
  BY DEF LastSent
<1>2. /\ loopPc \in [Conns -> LoopPcs] /\ targets \in [Conns -> SUBSET Conns]
      /\ tickAt \in [Conns -> Nat] /\ msg \in [Conns -> Payload]
  BY DEF TypeOK
<1>3. /\ loopPc'[l] = "exited" /\ targets'[l] = {}
      /\ \A m \in Conns \ {l} : /\ loopPc'[m] = loopPc[m]
                                /\ targets'[m] = targets[m]
                                /\ tickAt'[m] = tickAt[m]
                                /\ msg'[m] = msg[m]
  BY <1>2 DEF LoopExit
<1>4. QED
  BY <1>1, <1>2, <1>3 DEF OrderInv

\* Every step keeps the order of the payloads.
LEMMA OrderStep == IInv /\ OrderInv /\ [Next]_vars => OrderInv'
<1> SUFFICES ASSUME IInv, OrderInv, [Next]_vars PROVE OrderInv'
  OBVIOUS
<1>0. /\ TypeOK
      /\ loopPc \in [Conns -> LoopPcs]
      /\ targets \in [Conns -> SUBSET Conns]
      /\ subPc \in [Conns -> SubPcs]
      /\ tickAt \in [Conns -> Nat]
      /\ msg \in [Conns -> Payload]
      /\ ticks \in Nat
  BY DEF IInv, TypeOK
<1>t. \A c \in Conns : LastSent(c) \in Nat
  BY <1>0, LastSentType
<1>s. \A c \in Conns : subPc[c] = "waiting" => c \in subscribers \cup closed
  BY DEF OrderInv
<1>o. \A l, m \in Conns : Live(l) /\ Live(m) => l = m
  BY DEF IInv, LoopsInv
<1> USE DEF fieldVars, chanVars, callVars, localVars, loopVars, stopVars
<1>1. ASSUME NEW c \in Conns, SubscribeStopped(c) PROVE OrderInv'
  BY <1>1, <1>0, <1>s, OrderQuiet DEF SubscribeStopped
<1>2. ASSUME NEW c \in Conns, SubscribeJoin(c) PROVE OrderInv'
  BY <1>2, <1>0, <1>s, OrderQuiet DEF SubscribeJoin
<1>3. ASSUME NEW c \in Conns, SubscribeFirst(c) PROVE OrderInv'
  <2>1. \A l \in Conns : loopPc'[l] \in {loopPc[l], "select"}
    BY <1>3, <1>0 DEF SubscribeFirst, StartLoop
  <2>2. QED
    BY <1>3, <2>1, <1>0, <1>s, OrderQuiet DEF SubscribeFirst
<1>4. ASSUME NEW c \in Conns, SubscribeAwait(c) PROVE OrderInv'
  BY <1>4, <1>0, <1>s, OrderQuiet DEF SubscribeAwait
<1>5. ASSUME NEW c \in Conns, SubscribeRestart(c) PROVE OrderInv'
  <2>1. \A l \in Conns : loopPc'[l] \in {loopPc[l], "select"}
    BY <1>5, <1>0 DEF SubscribeRestart, StartLoop
  <2>2. QED
    BY <1>5, <2>1, <1>0, <1>s, OrderQuiet DEF SubscribeRestart
<1>6. ASSUME NEW c \in Conns, SubscribeGiveUp(c) PROVE OrderInv'
  BY <1>6, <1>0, <1>s, OrderQuiet DEF SubscribeGiveUp
<1>7. ASSUME NEW c \in Conns, Unsubscribe(c) PROVE OrderInv'
  BY <1>7, <1>0, <1>s, OrderQuiet DEF Unsubscribe
<1>8. ASSUME NEW c \in Conns, Receive(c) PROVE OrderInv'
  <2>1. \A a \in Conns : LastSent(a)' = LastSent(a)
    BY <1>8, <1>0, ReceiveKeepsLast
  <2>2. UNCHANGED <<ticks, tickAt, msg, targets, loopPc, subPc, subscribers, closed>>
    BY <1>8 DEF Receive
  <2>3. QED
    BY <2>1, <2>2, <1>0 DEF OrderInv
<1>9. ASSUME NEW t \in Conns, TimerFires(t) PROVE OrderInv'
  BY <1>9, <1>0, <1>s, OrderQuiet DEF TimerFires
<1>10. ASSUME NEW t \in Conns, IdleCallback(t) PROVE OrderInv'
  BY <1>10, <1>0, <1>s, OrderQuiet DEF IdleCallback
<1>11. ASSUME NEW l \in Conns, LoopStops(l) PROVE OrderInv'
  BY <1>11, <1>0, OrderExit DEF LoopStops
<1>12. ASSUME NEW l \in Conns, Tick(l) PROVE OrderInv'
  <2>1. \A c \in Conns : LastSent(c)' = LastSent(c)
    BY <1>12 DEF Tick, LastSent
  <2>2. PICK n \in Nat : n = ticks /\ ticks' = n + 1
    BY <1>12, <1>0 DEF Tick
  <2>3. \A c \in Conns : LastSent(c)' < ticks'
    <3>1. ASSUME NEW c \in Conns PROVE LastSent(c) < n + 1
      <4>1. LastSent(c) \in Nat /\ LastSent(c) <= n
        BY <1>t, <2>2 DEF OrderInv
      <4>2. QED
        BY <4>1, <2>2
    <3>2. QED
      BY <3>1, <2>1, <2>2
  <2>4. \A c \in Conns : LastSent(c)' <= ticks'
    <3>1. \A a, b \in Nat : a < b => a <= b
      OBVIOUS
    <3>2. QED
      BY <3>1, <2>1, <2>2, <2>3, <1>t
  <2>5. \A m \in Conns \ {l} : ~Live(m)
    BY <1>12, <1>o DEF Tick, Live
  <2>6. /\ loopPc'[l] = "fetch" /\ tickAt'[l] = ticks'
        /\ \A m \in Conns \ {l} : loopPc'[m] = loopPc[m]
        /\ targets' = targets
    BY <1>12, <1>0 DEF Tick
  <2>7. \A m \in Conns \ {l} : loopPc'[m] \in {"none", "exited"}
    BY <2>5, <2>6 DEF Live
  <2>8. \A m \in Conns : \A c \in targets'[m] : LastSent(c)' < ticks'
    BY <2>3, <2>6, <1>0
  <2>9. \A c \in Conns : subPc'[c] = "waiting" => c \in subscribers' \cup closed'
    BY <1>12, <1>s DEF Tick
  <2>10. QED
    BY <2>3, <2>4, <2>6, <2>7, <2>8, <2>9 DEF OrderInv
<1>13. ASSUME NEW l \in Conns, FetchFails(l) PROVE OrderInv'
  <2>1. \A m \in Conns : loopPc'[m] \in {loopPc[m], "select"}
    BY <1>13, <1>0 DEF FetchFails
  <2>2. QED
    BY <1>13, <2>1, <1>0, <1>s, OrderQuiet DEF FetchFails
<1>14. ASSUME NEW l \in Conns, FetchDegrades(l) PROVE OrderInv'
  BY <1>14, <1>0 DEF FetchDegrades, OrderInv, LastSent
<1>15. ASSUME NEW l \in Conns, FetchDuplicate(l) PROVE OrderInv'
  <2>1. \A m \in Conns : loopPc'[m] \in {loopPc[m], "select"}
    BY <1>15, <1>0 DEF FetchDuplicate
  <2>2. QED
    BY <1>15, <2>1, <1>0, <1>s, OrderQuiet DEF FetchDuplicate
<1>16. ASSUME NEW l \in Conns, NEW d \in Data, FetchFresh(l, d) PROVE OrderInv'
  BY <1>16, <1>0 DEF FetchFresh, OrderInv, LastSent
<1>17. ASSUME NEW l \in Conns, LoopPanics(l) PROVE OrderInv'
  BY <1>17, <1>0, OrderExit DEF LoopPanics
<1>18. ASSUME NEW l \in Conns, Snapshot(l) PROVE OrderInv'
  <2>1. \A c \in Conns : LastSent(c)' = LastSent(c)
    BY <1>18 DEF Snapshot, LastSent
  <2>2. /\ loopPc'[l] \in {"select", "send"} /\ targets'[l] = subscribers
        /\ \A m \in Conns \ {l} : loopPc'[m] = loopPc[m] /\ targets'[m] = targets[m]
        /\ UNCHANGED <<ticks, tickAt, msg, subPc, subscribers, closed>>
        /\ loopPc[l] = "snapshot"
    BY <1>18, <1>0 DEF Snapshot, Remaining
  <2>3. subscribers \subseteq Conns
    BY <1>0 DEF TypeOK
  <2>4. QED
    BY <2>1, <2>2, <2>3, <1>0 DEF OrderInv
<1>19. ASSUME NEW l \in Conns, NEW c \in Conns, Send(l, c) PROVE OrderInv'
  <2>0. /\ loopPc[l] = "send" /\ c \in targets[l] /\ c \notin closed
        /\ UNCHANGED <<ticks, tickAt, msg, subPc, subscribers, closed, seen>>
    BY <1>19 DEF Send, IInv, ChannelsInv
  <2>1. /\ loopPc'[l] \in {"select", "send"} /\ targets'[l] = targets[l] \ {c}
        /\ \A m \in Conns \ {l} : loopPc'[m] = loopPc[m] /\ targets'[m] = targets[m]
    BY <1>19, <2>0, <1>0 DEF Send, Remaining
  <2>2. \A m \in Conns \ {l} : ~Live(m) /\ targets[m] = {}
    BY <2>0, <1>o DEF Live, IInv, LoopsInv
  <2>3. CASE HasRoom(c)
    <3>1. buf' = [buf EXCEPT ![c] = Append(buf[c], msg[l])]
      BY <1>19, <2>0, <2>3 DEF Send
    <3>2. msg[l] \in Payload /\ msg[l].at = ticks
      BY <1>0, <2>0 DEF OrderInv
    <3>3. /\ LastSent(c)' = ticks
          /\ \A a \in Conns \ {c} : LastSent(a)' = LastSent(a)
      BY <3>1, <3>2, <2>0, <1>0, SendSetsLast
    <3>4. \A a \in Conns : LastSent(a)' <= ticks'
      BY <3>3, <2>0, <1>0 DEF OrderInv
    <3>5. \A a \in targets'[l] : LastSent(a)' < ticks'
      BY <3>3, <2>0, <2>1, <1>0 DEF OrderInv
    <3>6. \A m \in Conns \ {l} : loopPc'[m] \in {"none", "exited"} /\ targets'[m] = {}
      BY <2>1, <2>2 DEF Live
    <3>7. /\ tickAt'[l] = ticks' /\ msg'[l].at = ticks'
      BY <2>0 DEF OrderInv
    <3>8. QED
      BY <3>4, <3>5, <3>6, <3>7, <2>0, <2>1, <1>s DEF OrderInv
  <2>4. CASE ~HasRoom(c)
    <3>1. UNCHANGED buf
      BY <1>19, <2>0, <2>4 DEF Send
    <3>2. \A a \in Conns : LastSent(a)' = LastSent(a)
      BY <3>1, <2>0 DEF LastSent
    <3>3. QED
      BY <3>2, <2>0, <2>1, <1>0 DEF OrderInv
  <2>5. QED
    BY <2>3, <2>4
<1>20. ASSUME StopBegin PROVE OrderInv'
  BY <1>20, <1>0, <1>s, OrderQuiet DEF StopBegin
<1>21. ASSUME StopClose PROVE OrderInv'
  BY <1>21, <1>0, <1>s, OrderQuiet DEF StopClose
<1>22. ASSUME UNCHANGED vars PROVE OrderInv'
  BY <1>22, <1>0, <1>s, OrderQuiet DEF vars
<1>23. QED
  BY <1>1, <1>2, <1>3, <1>4, <1>5, <1>6, <1>7, <1>8, <1>9, <1>10, <1>11, <1>12,
     <1>13, <1>14, <1>15, <1>16, <1>17, <1>18, <1>19, <1>20, <1>21, <1>22
  DEF Next, LoopWork, SubscribeReturns, Finished

\* The order holds in every reachable state.
LEMMA OrderCorrect == Spec => [](IInv /\ OrderInv)
BY InvInit, InvStep, OrderInit, OrderStep, PTL DEF Spec

\* The feed's initial state.
LEMMA FeedInit == Init => Promise!Init
<1> SUFFICES ASSUME Init PROVE Promise!Init
  OBVIOUS
<1>1. FeedPlace = [c \in Conns |-> "outside"]
  BY DEF Init, FeedPlace
<1>2. FeedInbox = [c \in Conns |-> <<>>]
  <2>1. ASSUME NEW c \in Conns
        PROVE [i \in 1..Len(buf[c]) |-> buf[c][i].at] = <<>>
    <3>1. buf[c] = <<>>
      BY DEF Init
    <3>2. Len(<<>>) = 0
      OBVIOUS
    <3>3. QED
      BY <3>1, <3>2
  <2>2. QED
    BY <2>1 DEF FeedInbox
<1>3. FeedLast = [c \in Conns |-> 0]
  BY DEF Init, FeedLast, LastSent
<1>4. FeedPolling = FALSE
  BY DEF Init, FeedPolling, Live
<1>5. FeedPhase = "up"
  BY DEF Init, FeedPhase
<1>6. closed = {} /\ ticks = 0
  BY DEF Init
<1>7. QED
  BY <1>1, <1>2, <1>3, <1>4, <1>5, <1>6 DEF Promise!Init

\* A step that leaves the calls and the subscribers alone moves nobody.
LEMMA PlaceSame == ASSUME UNCHANGED <<subPc, subscribers>>
                   PROVE  UNCHANGED FeedPlace
BY DEF FeedPlace

\* A step that leaves the channels alone delivers and takes nothing.
LEMMA InboxSame == ASSUME UNCHANGED <<buf, seen>>
                   PROVE  UNCHANGED <<FeedInbox, FeedLast>>
BY DEF FeedInbox, FeedLast, LastSent

\* A step that neither starts nor ends a loop leaves the poller as it is.
LEMMA PollingSame == ASSUME \A l \in Conns : Live(l)' <=> Live(l)
                     PROVE  UNCHANGED FeedPolling
BY DEF FeedPolling

\* Only the two halves of Stop change the phase.
LEMMA PhaseSame == ASSUME UNCHANGED stopPc PROVE UNCHANGED FeedPhase
BY DEF FeedPhase

\* What the inbox of a consumer holds, and how much.
LEMMA InboxFacts ==
  ASSUME TypeOK, NEW c \in Conns
  PROVE  /\ FeedInbox[c] \in Seq(Nat)
         /\ Len(FeedInbox[c]) = Len(buf[c])
         /\ \A i \in 1..Len(buf[c]) : FeedInbox[c][i] = buf[c][i].at
<1>1. buf[c] \in Seq(Payload)
  BY DEF TypeOK
<1>2. PICK s \in Seq(Payload) : s = buf[c]
  BY <1>1
<1>3. PICK n \in Nat : n = Len(s)
  BY <1>2
<1>4. \A i \in 1..n : s[i].at \in Nat
  BY <1>2, <1>3, ElementOfSeq, PayloadFacts
<1>5. [i \in 1..n |-> s[i].at] \in Seq(Nat)
  BY <1>4, <1>3, IsASeq
<1>6. Len([i \in 1..n |-> s[i].at]) = n
  BY <1>5, <1>3, LenProperties
<1>7. FeedInbox[c] = [i \in 1..n |-> s[i].at]
  BY <1>2, <1>3 DEF FeedInbox
<1>8. QED
  BY <1>2, <1>3, <1>5, <1>6, <1>7

\* Where a call stands in the feed.
LEMMA PlaceOf ==
  \A c \in Conns : FeedPlace[c] = IF subPc[c] = "idle" THEN "outside"
                                  ELSE IF c \in subscribers THEN "member" ELSE "gone"
BY DEF FeedPlace

\* One call changes its place in the feed and the others keep theirs.
LEMMA PlaceMoves ==
  ASSUME NEW c \in Conns, NEW p,
         \A d \in Conns \ {c} : /\ subPc'[d] = subPc[d]
                                /\ d \in subscribers' <=> d \in subscribers,
         p = IF subPc'[c] = "idle" THEN "outside"
             ELSE IF c \in subscribers' THEN "member" ELSE "gone"
  PROVE  FeedPlace' = [FeedPlace EXCEPT ![c] = p]
BY DEF FeedPlace

\* The phase of the feed.
LEMMA PhaseOf ==
  ASSUME StopInv, stopPc \in {"idle", "waiting", "done"}
  PROVE  /\ FeedPhase = "up" <=> ~stopped
         /\ FeedPhase = "stopping" <=> stopPc = "waiting"
         /\ FeedPhase = "down" <=> stopPc = "done"
BY DEF FeedPhase, StopInv

\* Every step of the broadcaster is a step of the feed, or none of its business.
LEMMA FeedStep ==
  IInv /\ OrderInv /\ [Next]_vars => [Promise!Next]_(Promise!feedVars)
<1> SUFFICES ASSUME IInv, OrderInv, [Next]_vars
             PROVE  Promise!Next \/ UNCHANGED Promise!feedVars
  OBVIOUS
<1>0. /\ TypeOK
      /\ loopPc \in [Conns -> LoopPcs]
      /\ targets \in [Conns -> SUBSET Conns]
      /\ subPc \in [Conns -> SubPcs]
      /\ subscribers \subseteq Conns
      /\ closed \subseteq Conns
      /\ ticks \in Nat
      /\ stopPc \in {"idle", "waiting", "done"}
      /\ buf \in [Conns -> Seq(Payload)]
      /\ None \notin Conns
  BY BroadcasterAssumption DEF IInv, TypeOK, BroadcasterAssumption
<1>b. LoopsInv /\ CallsInv /\ ChannelsInv /\ StopInv
  BY DEF IInv
<1>p. /\ FeedPhase = "up" <=> ~stopped
      /\ FeedPhase = "stopping" <=> stopPc = "waiting"
      /\ FeedPhase = "down" <=> stopPc = "done"
  BY <1>0, <1>b, PhaseOf
<1>n. UNCHANGED <<FeedPlace, closed, FeedInbox, FeedLast, FeedPolling, ticks, FeedPhase>>
        => UNCHANGED Promise!feedVars
  BY DEF Promise!feedVars
<1> USE DEF fieldVars, chanVars, callVars, localVars, loopVars, stopVars
<1>1. ASSUME NEW c \in Conns, SubscribeStopped(c) PROVE Promise!Next
  <2>1. FeedPlace[c] = "outside" /\ FeedPhase # "up"
    BY <1>1, <1>p, PlaceOf DEF SubscribeStopped, Admitted
  <2>2. FeedPlace' = [FeedPlace EXCEPT ![c] = "gone"]
    BY <1>1, <1>0, <1>b, PlaceMoves DEF SubscribeStopped, CallsInv
  <2>3. UNCHANGED <<FeedInbox, FeedLast, FeedPolling, ticks, FeedPhase>>
    BY <1>1, InboxSame, PollingSame, PhaseSame DEF SubscribeStopped, Live
  <2>4. Promise!Refuse(c)
    BY <1>1, <2>1, <2>2, <2>3 DEF Promise!Refuse, SubscribeStopped
  <2>5. QED
    BY <2>4 DEF Promise!Next
<1>2. ASSUME NEW c \in Conns, SubscribeJoin(c) PROVE Promise!Next
  <2>1. FeedPlace[c] = "outside" /\ FeedPhase = "up"
    BY <1>2, <1>p, PlaceOf DEF SubscribeJoin, Admitted
  <2>2. FeedPlace' = [FeedPlace EXCEPT ![c] = "member"]
    BY <1>2, <1>0, PlaceMoves DEF SubscribeJoin
  <2>3. UNCHANGED <<FeedInbox, FeedLast, FeedPolling, ticks, FeedPhase, closed>>
    BY <1>2, InboxSame, PollingSame, PhaseSame DEF SubscribeJoin, Live
  <2>4. Promise!Join(c)
    BY <2>1, <2>2, <2>3 DEF Promise!Join
  <2>5. QED
    BY <2>4 DEF Promise!Next
<1>3. ASSUME NEW c \in Conns, SubscribeFirst(c) PROVE Promise!Next
  <2>1. FeedPlace[c] = "outside" /\ FeedPhase = "up"
    BY <1>3, <1>p, PlaceOf DEF SubscribeFirst, Admitted
  <2>2. FeedPlace' = [FeedPlace EXCEPT ![c] = "member"]
    BY <1>3, <1>0, PlaceMoves DEF SubscribeFirst
  <2>3. UNCHANGED <<FeedInbox, FeedLast, ticks, FeedPhase, closed>>
    BY <1>3, InboxSame, PhaseSame DEF SubscribeFirst
  <2>4. FeedPolling' = TRUE
    BY <1>3, <1>0 DEF SubscribeFirst, StartLoop, FeedPolling, Live
  <2>5. Promise!Join(c)
    BY <2>1, <2>2, <2>3, <2>4 DEF Promise!Join
  <2>6. QED
    BY <2>5 DEF Promise!Next
<1>4. ASSUME NEW c \in Conns, SubscribeAwait(c) PROVE Promise!Next
  <2>1. FeedPlace[c] = "outside" /\ FeedPhase = "up"
    BY <1>4, <1>p, PlaceOf DEF SubscribeAwait, Admitted
  <2>2. FeedPlace' = [FeedPlace EXCEPT ![c] = "member"]
    BY <1>4, <1>0, PlaceMoves DEF SubscribeAwait
  <2>3. UNCHANGED <<FeedInbox, FeedLast, FeedPolling, ticks, FeedPhase, closed>>
    BY <1>4, InboxSame, PollingSame, PhaseSame DEF SubscribeAwait, Live
  <2>4. Promise!Join(c)
    BY <2>1, <2>2, <2>3 DEF Promise!Join
  <2>5. QED
    BY <2>4 DEF Promise!Next
<1>5. ASSUME NEW c \in Conns, SubscribeRestart(c) PROVE Promise!Next
  <2>1. ~stopped /\ c \in subscribers /\ loopPc[loopDone] = "exited"
    BY <1>5, <1>b DEF SubscribeRestart, PreviousLoopGone, DoneClosed, CallsInv, StopInv
  <2>2. FeedPhase = "up" /\ FeedPlace[c] = "member"
    BY <1>5, <2>1, <1>p, PlaceOf DEF SubscribeRestart
  <2>3. ~FeedPolling
    BY <2>1, <1>b DEF FeedPolling, LoopsInv, Live
  <2>4. FeedPolling' = TRUE
    BY <1>5, <1>0 DEF SubscribeRestart, StartLoop, FeedPolling, Live
  <2>5. UNCHANGED <<FeedInbox, FeedLast, ticks, FeedPhase, closed>>
    BY <1>5, InboxSame, PhaseSame DEF SubscribeRestart
  <2>6. UNCHANGED FeedPlace
    <3>1. FeedPlace' = [FeedPlace EXCEPT ![c] = "member"]
      BY <1>5, <2>1, <1>0, PlaceMoves DEF SubscribeRestart
    <3>2. QED
      BY <3>1, <2>2 DEF FeedPlace
  <2>7. Promise!Start
    BY <2>2, <2>3, <2>4, <2>5, <2>6 DEF Promise!Start
  <2>8. QED
    BY <2>7 DEF Promise!Next
<1>6. ASSUME NEW c \in Conns, SubscribeGiveUp(c)
      PROVE  Promise!Next \/ UNCHANGED Promise!feedVars
  <2>1. stopped
    BY <1>6, <1>b DEF SubscribeGiveUp, CallsInv, StopInv
  <2>2. FeedPhase # "up"
    BY <2>1, <1>p
  <2>3. UNCHANGED <<FeedInbox, FeedLast, FeedPolling, ticks, FeedPhase>>
    BY <1>6, InboxSame, PollingSame, PhaseSame DEF SubscribeGiveUp, Live
  <2>4. FeedPlace' = [FeedPlace EXCEPT ![c] = "gone"]
    BY <1>6, <2>1, <1>0, PlaceMoves DEF SubscribeGiveUp
  <2>5. closed' = closed \cup {c}
    BY <1>6, <2>1 DEF SubscribeGiveUp
  <2>6. CASE c \in subscribers
    <3>1. FeedPlace[c] = "member"
      BY <1>6, <2>6, PlaceOf DEF SubscribeGiveUp
    <3>2. Promise!Refuse(c)
      BY <2>2, <2>3, <2>4, <2>5, <3>1 DEF Promise!Refuse
    <3>3. QED
      BY <3>2 DEF Promise!Next
  <2>7. CASE c \notin subscribers
    <3>1. c \in closed
      BY <1>6, <2>7 DEF SubscribeGiveUp, OrderInv
    <3>2. FeedPlace[c] = "gone"
      BY <1>6, <2>7, PlaceOf DEF SubscribeGiveUp
    <3>3. UNCHANGED FeedPlace
      BY <3>2, <2>4 DEF FeedPlace
    <3>4. UNCHANGED closed
      BY <3>1, <2>5
    <3>5. QED
      BY <3>3, <3>4, <2>3, <1>n
  <2>8. QED
    BY <2>6, <2>7
<1>7. ASSUME NEW c \in Conns, Unsubscribe(c)
      PROVE  Promise!Next \/ UNCHANGED Promise!feedVars
  <2>1. UNCHANGED <<FeedInbox, FeedLast, FeedPolling, ticks, FeedPhase, closed>>
    BY <1>7, InboxSame, PollingSame, PhaseSame DEF Unsubscribe, Live
  <2>2. FeedPlace' = [FeedPlace EXCEPT ![c] = "gone"]
    BY <1>7, <1>0, PlaceMoves DEF Unsubscribe
  <2>3. CASE c \in subscribers
    <3>1. FeedPlace[c] = "member"
      BY <1>7, <2>3, PlaceOf DEF Unsubscribe
    <3>2. Promise!Leave(c)
      BY <2>1, <2>2, <3>1 DEF Promise!Leave
    <3>3. QED
      BY <3>2 DEF Promise!Next
  <2>4. CASE c \notin subscribers
    <3>1. FeedPlace[c] = "gone"
      BY <1>7, <2>4, PlaceOf DEF Unsubscribe
    <3>2. UNCHANGED FeedPlace
      BY <3>1, <2>2 DEF FeedPlace
    <3>3. QED
      BY <3>2, <2>1, <1>n
  <2>5. QED
    BY <2>3, <2>4
<1>8. ASSUME NEW c \in Conns, Receive(c) PROVE Promise!Next
  <2>1. UNCHANGED <<FeedPlace, FeedPolling, ticks, FeedPhase, closed>>
    BY <1>8, PlaceSame, PollingSame, PhaseSame DEF Receive, Live
  <2>2. UNCHANGED FeedLast
    BY <1>8, <1>0, ReceiveKeepsLast DEF FeedLast
  <2>3. /\ buf[c] \in Seq(Payload) /\ buf[c] # <<>>
        /\ buf' = [buf EXCEPT ![c] = Tail(buf[c])]
    BY <1>8, <1>0 DEF Receive
  <2>4. PICK s \in Seq(Payload) : s = buf[c]
    BY <2>3
  <2>5. PICK n \in Nat \ {0} : n = Len(s)
    BY <2>3, <2>4, EmptySeq
  <2>6. /\ Len(Tail(s)) = n - 1
        /\ \A i \in 1..(n - 1) : Tail(s)[i] = s[i + 1]
    BY <2>3, <2>4, <2>5, HeadTailProperties
  <2>7. PICK t \in Seq(Nat) : t = FeedInbox[c]
    BY <1>0, InboxFacts
  <2>8. Len(t) = n /\ \A i \in 1..n : t[i] = s[i].at
    BY <1>0, <2>4, <2>5, <2>7, InboxFacts
  <2>9. t # <<>>
    BY <2>5, <2>8
  <2>10. Tail(t) = [i \in 1..(n - 1) |-> s[i + 1].at]
    <3>1. /\ Tail(t) \in Seq(Nat) /\ Len(Tail(t)) = n - 1
          /\ \A i \in 1..(n - 1) : Tail(t)[i] = t[i + 1]
      BY <2>8, <2>9, HeadTailProperties
    <3>2. \A i \in 1..(n - 1) : i + 1 \in 1..n
      BY <2>5
    <3>3. \A i \in 1..(n - 1) : Tail(t)[i] = s[i + 1].at
      BY <3>1, <3>2, <2>8
    <3>4. Tail(t) = [i \in 1..(n - 1) |-> Tail(t)[i]]
      BY <3>1, LenProperties
    <3>5. QED
      BY <3>3, <3>4
  <2>11. FeedInbox'[c] = Tail(t)
    <3>1. buf'[c] = Tail(s)
      BY <2>3, <2>4, <1>0
    <3>2. FeedInbox'[c] = [i \in 1..Len(Tail(s)) |-> Tail(s)[i].at]
      BY <3>1 DEF FeedInbox
    <3>3. QED
      BY <3>2, <2>6, <2>10
  <2>12. \A a \in Conns \ {c} : FeedInbox'[a] = FeedInbox[a]
    BY <2>3, <1>0 DEF FeedInbox
  <2>13. FeedInbox' = [FeedInbox EXCEPT ![c] = Tail(FeedInbox[c])]
    BY <2>7, <2>11, <2>12 DEF FeedInbox
  <2>14. Promise!Take(c)
    BY <2>1, <2>2, <2>7, <2>9, <2>13 DEF Promise!Take
  <2>15. QED
    BY <2>14 DEF Promise!Next
<1>9. ASSUME NEW t \in Conns, TimerFires(t) \/ IdleCallback(t)
      PROVE  UNCHANGED Promise!feedVars
  BY <1>9, <1>n, PlaceSame, InboxSame, PollingSame, PhaseSame
  DEF TimerFires, IdleCallback, Live
<1>10. ASSUME NEW l \in Conns, LoopStops(l) \/ LoopPanics(l) PROVE Promise!Next
  <2>1. UNCHANGED <<FeedPlace, FeedInbox, FeedLast, ticks, FeedPhase, closed>>
    BY <1>10, PlaceSame, InboxSame, PhaseSame DEF LoopStops, LoopPanics
  <2>2. Live(l)
    BY <1>10 DEF LoopStops, LoopPanics, Live
  <2>3. loopPc' = [loopPc EXCEPT ![l] = "exited"]
    BY <1>10 DEF LoopStops, LoopPanics, LoopExit
  <2>4. FeedPolling = TRUE /\ FeedPolling' = FALSE
    BY <2>2, <2>3, <1>0, <1>b DEF FeedPolling, LoopsInv, Live
  <2>5. Promise!Halt
    BY <2>1, <2>4 DEF Promise!Halt
  <2>6. QED
    BY <2>5 DEF Promise!Next
<1>11. ASSUME NEW l \in Conns, Tick(l) PROVE Promise!Next
  <2>1. UNCHANGED <<FeedPlace, FeedInbox, FeedLast, FeedPhase, closed>>
    BY <1>11, PlaceSame, InboxSame, PhaseSame DEF Tick
  <2>2. FeedPolling = TRUE /\ UNCHANGED FeedPolling
    BY <1>11, <1>0 DEF Tick, FeedPolling, Live
  <2>3. ticks' = ticks + 1
    BY <1>11 DEF Tick
  <2>4. Promise!Tick
    BY <2>1, <2>2, <2>3 DEF Promise!Tick
  <2>5. QED
    BY <2>4 DEF Promise!Next
<1>12. ASSUME NEW l \in Conns,
              \/ FetchFails(l) \/ FetchDegrades(l) \/ FetchDuplicate(l)
              \/ \E d \in Data : FetchFresh(l, d)
              \/ Snapshot(l)
       PROVE  UNCHANGED Promise!feedVars
  <2>1. UNCHANGED <<FeedPlace, FeedInbox, FeedLast, FeedPhase, closed, ticks>>
    BY <1>12, PlaceSame, InboxSame, PhaseSame
    DEF FetchFails, FetchDegrades, FetchDuplicate, FetchFresh, Snapshot
  <2>2. \A m \in Conns : Live(m)' <=> Live(m)
    BY <1>12, <1>0
    DEF FetchFails, FetchDegrades, FetchDuplicate, FetchFresh, Snapshot, Remaining, Live
  <2>3. QED
    BY <2>1, <2>2, <1>n, PollingSame
<1>13. ASSUME NEW l \in Conns, NEW c \in Conns, Send(l, c)
       PROVE  Promise!Next \/ UNCHANGED Promise!feedVars
  <2>0. /\ loopPc[l] = "send" /\ c \in targets[l] /\ c \notin closed
        /\ UNCHANGED <<ticks, subPc, subscribers, closed, seen, stopPc>>
    BY <1>13, <1>b DEF Send, ChannelsInv
  <2>1. \A m \in Conns : Live(m)' <=> Live(m)
    BY <1>13, <2>0, <1>0 DEF Send, Remaining, Live
  <2>2. UNCHANGED <<FeedPlace, FeedPhase, FeedPolling>>
    BY <2>0, <2>1, PlaceSame, PollingSame, PhaseSame
  <2>3. CASE ~HasRoom(c)
    <3>1. UNCHANGED buf
      BY <1>13, <2>0, <2>3 DEF Send
    <3>2. QED
      BY <3>1, <2>0, <2>2, <1>n, InboxSame
  <2>4. CASE HasRoom(c)
    <3>1. buf' = [buf EXCEPT ![c] = Append(buf[c], msg[l])]
      BY <1>13, <2>0, <2>4 DEF Send
    <3>2. msg[l] \in Payload /\ msg[l].at = ticks
      BY <1>0, <2>0 DEF OrderInv, TypeOK
    <3>3. /\ LastSent(c)' = ticks
          /\ \A a \in Conns \ {c} : LastSent(a)' = LastSent(a)
      BY <3>1, <3>2, <2>0, <1>0, SendSetsLast
    <3>4. FeedLast' = [FeedLast EXCEPT ![c] = ticks]
      BY <3>3 DEF FeedLast
    <3>5. FeedLast[c] < ticks
      BY <2>0 DEF FeedLast, OrderInv
    <3>6. PICK s \in Seq(Payload) : s = buf[c]
      BY <1>0
    <3>7. PICK n \in Nat : n = Len(s)
      BY <3>6
    <3>8. PICK t \in Seq(Nat) : t = FeedInbox[c]
      BY <1>0, InboxFacts
    <3>9. Len(t) = n /\ \A i \in 1..n : t[i] = s[i].at
      BY <1>0, <3>6, <3>7, <3>8, InboxFacts
    <3>10. /\ Len(Append(s, msg[l])) = n + 1
           /\ \A i \in 1..n : Append(s, msg[l])[i] = s[i]
           /\ Append(s, msg[l])[n + 1] = msg[l]
      BY <3>2, <3>6, <3>7, AppendProperties
    <3>11. FeedInbox'[c] = Append(t, ticks)
      <4>1. FeedInbox'[c] = [i \in 1..(n + 1) |-> Append(s, msg[l])[i].at]
        <5>1. buf'[c] = Append(s, msg[l])
          BY <3>1, <3>6, <1>0
        <5>2. QED
          BY <5>1, <3>10 DEF FeedInbox
      <4>2. /\ Append(t, ticks) \in Seq(Nat) /\ Len(Append(t, ticks)) = n + 1
            /\ \A i \in 1..n : Append(t, ticks)[i] = t[i]
            /\ Append(t, ticks)[n + 1] = ticks
        BY <3>8, <3>9, <1>0, AppendProperties
      <4>3. \A i \in 1..(n + 1) : i \in 1..n \/ i = n + 1
        BY <3>7
      <4>4. \A i \in 1..(n + 1) : Append(t, ticks)[i] = Append(s, msg[l])[i].at
        BY <4>2, <4>3, <3>2, <3>9, <3>10
      <4>5. Append(t, ticks) = [i \in 1..(n + 1) |-> Append(t, ticks)[i]]
        BY <4>2, LenProperties
      <4>6. QED
        BY <4>1, <4>4, <4>5
    <3>12. \A a \in Conns \ {c} : FeedInbox'[a] = FeedInbox[a]
      BY <3>1, <1>0 DEF FeedInbox
    <3>13. FeedInbox' = [FeedInbox EXCEPT ![c] = Append(FeedInbox[c], ticks)]
      BY <3>8, <3>11, <3>12 DEF FeedInbox
    <3>14. Len(FeedInbox[c]) < ChanCap
      BY <2>4, <3>6, <3>7, <3>8, <3>9 DEF HasRoom
    <3>15. FeedPolling
      BY <2>0 DEF FeedPolling, Live
    <3>16. FeedPlace[c] # "outside"
      BY <2>0, <1>b, PlaceOf DEF ChannelsInv
    <3>17. Promise!Deliver(c)
      BY <2>0, <2>2, <3>4, <3>5, <3>13, <3>14, <3>15, <3>16 DEF Promise!Deliver
    <3>18. QED
      BY <3>17 DEF Promise!Next
  <2>5. QED
    BY <2>3, <2>4
<1>14. ASSUME StopBegin PROVE Promise!Next
  <2>1. UNCHANGED <<FeedPlace, FeedInbox, FeedLast, FeedPolling, closed, ticks>>
    BY <1>14, PlaceSame, InboxSame, PollingSame DEF StopBegin, Live
  <2>2. FeedPhase = "up" /\ FeedPhase' = "stopping"
    BY <1>14 DEF StopBegin, FeedPhase
  <2>3. Promise!Stop
    BY <2>1, <2>2 DEF Promise!Stop
  <2>4. QED
    BY <2>3 DEF Promise!Next
<1>15. ASSUME StopClose PROVE Promise!Next
  <2>1. UNCHANGED <<FeedInbox, FeedLast, FeedPolling, ticks>>
    BY <1>15, InboxSame, PollingSame DEF StopClose, Live
  <2>2. FeedPhase = "stopping" /\ FeedPhase' = "down"
    BY <1>15 DEF StopClose, FeedPhase
  <2>3. ~FeedPolling
    BY <1>15, <1>0, <1>b DEF StopClose, StopMayClose, DoneClosed, FeedPolling,
       StopInv, LoopsInv, Live
  <2>4. {c \in Conns : FeedPlace[c] = "member"} = subscribers
    BY <1>0, <1>b, PlaceOf DEF CallsInv
  <2>5. FeedPlace' = [c \in Conns |-> IF FeedPlace[c] = "member" THEN "gone"
                                                                 ELSE FeedPlace[c]]
    BY <1>15, <1>b DEF StopClose, FeedPlace, CallsInv
  <2>6. closed' = closed \cup subscribers
    BY <1>15 DEF StopClose
  <2>7. Promise!CloseAll
    BY <2>1, <2>2, <2>3, <2>4, <2>5, <2>6 DEF Promise!CloseAll
  <2>8. QED
    BY <2>7 DEF Promise!Next
<1>16. ASSUME UNCHANGED vars PROVE UNCHANGED Promise!feedVars
  BY <1>16, <1>n, PlaceSame, InboxSame, PollingSame, PhaseSame DEF vars, Live
<1>17. QED
  BY <1>1, <1>2, <1>3, <1>4, <1>5, <1>6, <1>7, <1>8, <1>9, <1>10, <1>11, <1>12,
     <1>13, <1>14, <1>15, <1>16
  DEF Next, LoopWork, SubscribeReturns, Finished

\* The broadcaster implements the feed: with its locks, gates, generations and
\* timers it delivers each tick at most once and in order, to open feeds only,
\* from one poller, and closes every feed once, after that poller is gone.
THEOREM BroadcasterImplementsFeed == Spec => ImplementsFeed
<1>1. Spec => Promise!Init /\ [][Promise!Next]_(Promise!feedVars)
  BY FeedInit, FeedStep, OrderCorrect, PTL DEF Spec
<1>2. QED
  BY <1>1 DEF ImplementsFeed, Promise!Spec

=============================================================================
