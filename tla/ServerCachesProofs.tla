------------------------- MODULE ServerCachesProofs -------------------------
(***************************************************************************)
(* Theorems about ServerCaches, for any number of requests, any times to   *)
(* live and any behaviour of Xray: a switch is reflected, statuses never   *)
(* go back, and a caller is left without data only by a switch or by the   *)
(* time to live.  They are proved from two inductive invariants, CachesInv *)
(* and, relative to it, AgeInv.                                            *)
(***************************************************************************)
EXTENDS ServerCaches, TLAPS

\* Who leads and who waits: a call is made by a request that waits for itself
\* and is the only one under its group's key; who waits, waits for a call of
\* its own group.
FlightsInv ==
  /\ \A r \in Reqs : flight[r].pc # "none" =>
       req[r].pc = "wait" /\ req[r].on = r /\ key[req[r].group] = r
  /\ \A r \in Reqs : /\ flight[r].pc = "recheck" => req[r].group = "health"
                     /\ flight[r].pc = "stored" => req[r].group # "health"
  /\ \A q \in Reqs : req[q].pc = "wait" =>
       /\ req[q].on \in Reqs
       /\ flight[req[q].on].pc # "none"
       /\ req[req[q].on].group = req[q].group
  /\ \A g \in Groups : key[g] # None => flight[key[g]].pc # "none"
                                        /\ req[key[g]].group = g

\* What is on its way into a cache is as recent as what SwitchReflected asks of
\* the cache, or is marked.
SwitchInv ==
  /\ \A g \in Groups : settled[g] <= epoch
  /\ \A r \in Reqs :
       /\ flight[r].pc = "returned"
       /\ ~flight[r].res.raced
       /\ req[r].group \in {"health", "obs"}
       => flight[r].res.epoch >= settled[req[r].group]
  /\ \A r \in Reqs : req[r].pc = "write" =>
       /\ req[r].group = "health"
       /\ ~req[r].res.raced => req[r].res.epoch >= settled["health"]
  /\ \A r \in Reqs : req[r].pc \in {"clearHealth", "clearObs"}
                       => req[r].res.epoch <= epoch
  /\ SwitchReflected

\* What was shown is no newer than what the cache holds, which is no newer than
\* what the one call under way brings.
StatusInv ==
  /\ shown <= epoch
  /\ cache["obs"].valid => /\ shown <= cache["obs"].res.epoch
                           /\ cache["obs"].res.epoch <= epoch
  /\ \A r \in Reqs : flight[r].pc = "returned" /\ req[r].group = "obs" =>
       /\ shown <= flight[r].res.epoch
       /\ flight[r].res.epoch <= epoch
       /\ cache["obs"].valid => cache["obs"].res.epoch <= flight[r].res.epoch
  /\ \A r \in Reqs : /\ req[r].floor <= shown
                     /\ req[r].kind = "status" => req[r].group = "obs"
  /\ StatusesNeverGoBack

\* A result that was stored is in the cache until it is cut off.
EmptyInv ==
  /\ \A r \in Reqs : flight[r].pc = "stored" =>
       cache[req[r].group].valid \/ flight[r].cut
  /\ \A r \in Reqs : req[r].pc = "back" =>
       req[r].group # "health" /\ (cache[req[r].group].valid \/ req[r].cut)
  /\ \A r \in Reqs : req[r].answer = "cleared" => req[r].pc = "done" /\ req[r].cut

\* Which handler a request is in, where the step tells.
KindInv ==
  \A r \in Reqs :
    /\ req[r].pc = "info" => req[r].kind = "current"
    /\ req[r].pc \in {"override", "clearHealth", "clearObs"} => req[r].kind = "switch"

CachesInv == TypeOK /\ FlightsInv /\ SwitchInv /\ StatusInv /\ EmptyInv /\ KindInv

-----------------------------------------------------------------------------
\* With no request and empty caches the invariant holds.
LEMMA InvInit == Init => CachesInv
<1> SUFFICES ASSUME Init PROVE CachesInv
  OBVIOUS
<1>1. TypeOK
  BY CachesAssumption
  DEF Init, TypeOK, Groups, Kinds, Result, NoResult, Entry, NoEntry, Flight, NoFlight,
      Request, NewReq
<1>2. \A r \in Reqs : flight[r].pc = "none" /\ req[r] = NewReq
  BY DEF Init, NoFlight
<1>3. FlightsInv
  BY <1>2, CachesAssumption DEF Init, FlightsInv, NewReq
<1>4. SwitchInv
  BY <1>2 DEF Init, SwitchInv, SwitchReflected, NewReq, NoEntry, Groups
<1>5. StatusInv
  BY <1>2 DEF Init, StatusInv, StatusesNeverGoBack, At, NewReq, NoEntry, Groups
<1>6. EmptyInv
  BY <1>2 DEF Init, EmptyInv, NewReq
<1>7. KindInv
  BY <1>2 DEF KindInv, NewReq
<1> QED
  BY <1>1, <1>3, <1>4, <1>5, <1>6, <1>7 DEF CachesInv

\* A request that is not waiting takes a step of its own, which leaves the
\* caches and the calls alone.  (Begin, BalancerInfo, Read, ReadBack, Override.)
LEMMA OwnStep ==
  ASSUME CachesInv, NEW r \in Reqs, req' \in [Reqs -> Request],
         \A q \in Reqs : q # r => req'[q] = req[q],
         UNCHANGED <<now, settled, cache, key, flight>>,
         req[r].pc # "wait", req'[r].pc \notin {"wait", "back", "write"},
         epoch' \in Nat, epoch <= epoch',
         shown' \in Nat, shown <= shown',
         shown' # shown => cache["obs"].valid /\ shown' = cache["obs"].res.epoch,
         req'[r].pc \in {"clearHealth", "clearObs"} => req'[r].res.epoch <= epoch',
         req'[r].floor <= shown',
         req'[r].kind = "status" => req'[r].group = "obs",
         req'[r].pc = "done" /\ req'[r].kind = "status" /\ req'[r].answer = "data"
           => req'[r].res.epoch >= req'[r].floor,
         req'[r].answer = "cleared" => req'[r].pc = "done" /\ req'[r].cut,
         req'[r].pc = "info" => req'[r].kind = "current",
         req'[r].pc \in {"override", "clearHealth", "clearObs"} => req'[r].kind = "switch"
  PROVE  CachesInv'
<1>1. TypeOK'
  BY DEF CachesInv, TypeOK
<1>2. \A q \in Reqs : q # r => req'[q] = req[q]
  OBVIOUS
<1>3. flight[r].pc = "none"
  BY DEF CachesInv, FlightsInv
<1>4. FlightsInv'
  BY <1>2, <1>3, CachesAssumption DEF CachesInv, TypeOK, FlightsInv
<1>t. /\ epoch \in Nat /\ shown \in Nat /\ settled \in [Groups -> Nat]
      /\ \A g \in Groups : cache[g].res.epoch \in Nat
      /\ \A q \in Reqs : flight[q].res.epoch \in Nat
      /\ \A q \in Reqs : req[q].res.epoch \in Nat /\ req[q].floor \in Nat
      /\ req'[r].res.epoch \in Nat /\ req'[r].floor \in Nat
      /\ "obs" \in Groups
  BY DEF CachesInv, TypeOK, Entry, Flight, Request, Result, Groups
<1>5. SwitchInv'
  <2>1. (\A g \in Groups : settled[g] <= epoch)'
    BY <1>t DEF CachesInv, SwitchInv
  <2>2. (\A q \in Reqs : req[q].pc \in {"clearHealth", "clearObs"}
                       => req[q].res.epoch <= epoch)'
    BY <1>2, <1>t DEF CachesInv, SwitchInv
  <2>3. SwitchReflected'
    BY DEF CachesInv, SwitchInv, SwitchReflected
  <2> QED
    BY <1>2, <1>3, <2>1, <2>2, <2>3 DEF CachesInv, SwitchInv
<1>6. StatusInv'
  <2>1. shown' <= epoch'
    BY <1>t DEF CachesInv, StatusInv
  <2>2. (cache["obs"].valid => /\ shown <= cache["obs"].res.epoch
                               /\ cache["obs"].res.epoch <= epoch)'
    BY <1>t DEF CachesInv, StatusInv
  <2>3. (\A q \in Reqs : flight[q].pc = "returned" /\ req[q].group = "obs" =>
       /\ shown <= flight[q].res.epoch
       /\ flight[q].res.epoch <= epoch
       /\ cache["obs"].valid => cache["obs"].res.epoch <= flight[q].res.epoch)'
    BY <1>2, <1>3, <1>t DEF CachesInv, StatusInv
  <2>4. (\A q \in Reqs : /\ req[q].floor <= shown
                         /\ req[q].kind = "status" => req[q].group = "obs")'
    BY <1>2, <1>t DEF CachesInv, StatusInv
  <2>5. StatusesNeverGoBack'
    BY <1>2 DEF CachesInv, StatusInv, StatusesNeverGoBack, At
  <2> QED
    BY <2>1, <2>2, <2>3, <2>4, <2>5, Zenon DEF StatusInv
<1>7. EmptyInv'
  BY <1>2, <1>3 DEF CachesInv, EmptyInv
<1>8. KindInv'
  BY <1>2 DEF CachesInv, KindInv
<1> QED
  BY <1>1, <1>4, <1>5, <1>6, <1>7, <1>8 DEF CachesInv

\* Every caller of a call that lands goes on; nobody else is concerned.
LEMMA LandEffect ==
  ASSUME CachesInv, NEW r \in Reqs, NEW g \in Groups, NEW res \in Result,
         NEW err \in BOOLEAN, Land(r, g, res, err), flight[r].pc # "none",
         req[r].group = g
  PROVE  /\ key' = [h \in Groups |-> IF h = g THEN None ELSE key[h]]
         /\ flight'[r].pc = "none"
         /\ \A q \in Reqs : q # r => flight'[q] = flight[q]
         /\ \A q \in Reqs : req[q].pc = "wait" /\ req[q].on = r =>
              /\ req'[q].pc = IF g = "health" THEN "write" ELSE "back"
              /\ req'[q].group = g /\ req'[q].kind = req[q].kind
              /\ req'[q].floor = req[q].floor /\ req'[q].answer # "cleared"
              /\ g = "health" => req'[q].res = res
              /\ g # "health" => req'[q].cut = flight[r].cut
         /\ \A q \in Reqs : ~(req[q].pc = "wait" /\ req[q].on = r)
              => req'[q] = req[q]
         /\ TypeOK'
<1>1. key[g] = r /\ req[r].pc = "wait" /\ req[r].on = r
  BY DEF CachesInv, FlightsInv
<1>2. key' = [h \in Groups |-> IF h = g THEN None ELSE key[h]]
  BY <1>1 DEF Land, Forget, CachesInv, TypeOK
<1>3. flight' \in [Reqs -> Flight] /\ flight'[r].pc = "none"
      /\ \A q \in Reqs : q # r => flight'[q] = flight[q]
  BY DEF Land, NoFlight, NoResult, CachesInv, TypeOK, Flight, Result
<1>4. req' \in [Reqs -> Request]
  <2>1. \A q \in Reqs : req[q] \in Request /\ flight[r].cut \in BOOLEAN
                         /\ flight[r].at \in Nat
    BY DEF CachesInv, TypeOK, Flight
  <2>2. \A q \in Reqs :
          /\ [req[q] EXCEPT !.pc = "write", !.on = None, !.res = res,
                           !.answer = IF err THEN "error" ELSE "none"] \in Request
          /\ [req[q] EXCEPT !.pc = "back", !.on = None, !.since = flight[r].at,
                           !.cut = flight[r].cut] \in Request
    BY <2>1, ZenonT(40) DEF Request
  <2> QED
    BY <2>1, <2>2, Zenon DEF Land
<1>5. \A q \in Reqs : ~(req[q].pc = "wait" /\ req[q].on = r)
              => req'[q] = req[q]
  BY DEF Land, At
<1>6. ASSUME NEW q \in Reqs, req[q].pc = "wait", req[q].on = r
      PROVE  /\ req'[q].pc = IF g = "health" THEN "write" ELSE "back"
             /\ req'[q].group = g /\ req'[q].kind = req[q].kind
             /\ req'[q].floor = req[q].floor /\ req'[q].answer # "cleared"
             /\ g = "health" => req'[q].res = res
             /\ g # "health" => req'[q].cut = flight[r].cut
  <2>1. req[q] \in Request /\ req[q].group = g /\ req[q].answer # "cleared"
    BY <1>6 DEF CachesInv, TypeOK, FlightsInv, EmptyInv
  <2> QED
    BY <1>6, <2>1 DEF Land, At, Request
<1>7. \A h \in Groups : key'[h] # None => flight'[key'[h]].pc # "none"
  <2> SUFFICES ASSUME NEW h \in Groups, key'[h] # None
               PROVE  flight'[key'[h]].pc # "none"
    OBVIOUS
  <2>1. h # g /\ key'[h] = key[h] /\ key[h] \in Reqs
    BY <1>2 DEF CachesInv, TypeOK
  <2>2. key[h] # r
    BY <2>1 DEF CachesInv, FlightsInv
  <2> QED
    BY <2>1, <2>2, <1>3 DEF CachesInv, TypeOK
<1>8. TypeOK'
  BY <1>2, <1>3, <1>4, <1>7 DEF Land, CachesInv, TypeOK
<1> QED
  BY <1>2, <1>3, <1>5, <1>6, <1>8

\* A call that ends hands its result to those who waited for it.
LEMMA LandKeeps ==
  ASSUME CachesInv, NEW r \in Reqs, NEW g \in Groups, NEW res \in Result,
         NEW err \in BOOLEAN, Land(r, g, res, err), flight[r].pc # "none",
         req[r].group = g,
         g = "health" /\ ~res.raced => res.epoch >= settled["health"],
         g # "health" => flight[r].pc = "stored"
  PROVE  CachesInv'
<1>e. /\ key' = [h \in Groups |-> IF h = g THEN None ELSE key[h]]
      /\ flight'[r].pc = "none"
      /\ \A q \in Reqs : q # r => flight'[q] = flight[q]
      /\ \A q \in Reqs : req[q].pc = "wait" /\ req[q].on = r =>
           /\ req'[q].pc = IF g = "health" THEN "write" ELSE "back"
           /\ req'[q].group = g /\ req'[q].kind = req[q].kind
           /\ req'[q].floor = req[q].floor /\ req'[q].answer # "cleared"
           /\ g = "health" => req'[q].res = res
           /\ g # "health" => req'[q].cut = flight[r].cut
      /\ \A q \in Reqs : ~(req[q].pc = "wait" /\ req[q].on = r)
           => req'[q] = req[q]
      /\ TypeOK'
  BY LandEffect
<1>u. UNCHANGED <<now, epoch, settled, cache, shown>>
  BY DEF Land
<1>r. req[r].pc = "wait" /\ req[r].on = r
  BY DEF CachesInv, FlightsInv
<1>g. \A q \in Reqs : req[q].pc = "wait" /\ req[q].on = r => req[q].group = g
  BY DEF CachesInv, FlightsInv
<1>1. FlightsInv'
  <2>1. \A q \in Reqs : q # r /\ flight[q].pc # "none" =>
          req'[q] = req[q] /\ flight'[q] = flight[q] /\ req[q].group # g
    BY <1>e, <1>r DEF CachesInv, FlightsInv
  <2>2. (\A q \in Reqs : flight[q].pc # "none" =>
       req[q].pc = "wait" /\ req[q].on = q /\ key[req[q].group] = q)'
    <3> SUFFICES ASSUME NEW q \in Reqs, flight'[q].pc # "none"
                 PROVE req'[q].pc = "wait" /\ req'[q].on = q /\ key'[req'[q].group] = q
      OBVIOUS
    <3>1. q # r /\ req'[q] = req[q] /\ flight[q].pc # "none" /\ req[q].group # g
      BY <1>e, <2>1
    <3>2. req[q].group \in Groups
      BY DEF CachesInv, TypeOK, Request
    <3> QED
      BY <3>1, <3>2, <1>e DEF CachesInv, FlightsInv
  <2>3. (\A q \in Reqs : /\ flight[q].pc = "recheck" => req[q].group = "health"
                         /\ flight[q].pc = "stored" => req[q].group # "health")'
    BY <2>1, <1>e DEF CachesInv, FlightsInv
  <2>4. (\A q \in Reqs : req[q].pc = "wait" =>
       /\ req[q].on \in Reqs
       /\ flight[req[q].on].pc # "none"
       /\ req[req[q].on].group = req[q].group)'
    <3> SUFFICES ASSUME NEW q \in Reqs, req'[q].pc = "wait"
                 PROVE /\ req'[q].on \in Reqs
                       /\ flight'[req'[q].on].pc # "none"
                       /\ req'[req'[q].on].group = req'[q].group
      OBVIOUS
    <3>1. req[q].pc = "wait" /\ req[q].on # r /\ req'[q] = req[q]
      BY <1>e
    <3>2. req[q].on \in Reqs /\ flight[req[q].on].pc # "none"
          /\ req[req[q].on].group = req[q].group
      BY <3>1 DEF CachesInv, FlightsInv
    <3> QED
      BY <3>1, <3>2, <2>1
  <2>5. (\A h \in Groups : key[h] # None => flight[key[h]].pc # "none"
                                        /\ req[key[h]].group = h)'
    <3> SUFFICES ASSUME NEW h \in Groups, key'[h] # None
                 PROVE  flight'[key'[h]].pc # "none" /\ req'[key'[h]].group = h
      OBVIOUS
    <3>1. h # g /\ key'[h] = key[h] /\ key[h] \in Reqs
      BY <1>e DEF CachesInv, TypeOK
    <3>2. flight[key[h]].pc # "none" /\ req[key[h]].group = h
      BY <3>1 DEF CachesInv, FlightsInv
    <3> QED
      BY <3>1, <3>2, <2>1
  <2> QED
    BY <2>2, <2>3, <2>4, <2>5 DEF FlightsInv
<1>2. SwitchInv'
  <2>1. \A q \in Reqs : flight'[q].pc # "none" =>
          flight'[q] = flight[q] /\ req'[q].group = req[q].group
    BY <1>e, <1>g
  <2>2. SwitchReflected'
    BY <1>u DEF CachesInv, SwitchInv, SwitchReflected
  <2>3. (\A q \in Reqs : req[q].pc = "write" =>
       /\ req[q].group = "health"
       /\ ~req[q].res.raced => req[q].res.epoch >= settled["health"])'
    BY <1>e, <1>u DEF CachesInv, SwitchInv
  <2>4. (\A q \in Reqs : req[q].pc \in {"clearHealth", "clearObs"}
                       => req[q].res.epoch <= epoch)'
    BY <1>e, <1>u DEF CachesInv, SwitchInv
  <2>5. (\A g1 \in Groups : settled[g1] <= epoch)'
    BY <1>u DEF CachesInv, SwitchInv
  <2>6. (\A q \in Reqs :
       /\ flight[q].pc = "returned"
       /\ ~flight[q].res.raced
       /\ req[q].group \in {"health", "obs"}
       => flight[q].res.epoch >= settled[req[q].group])'
    BY <2>1, <1>u DEF CachesInv, SwitchInv
  <2> QED
    BY <2>2, <2>3, <2>4, <2>5, <2>6, Zenon DEF SwitchInv
<1>3. StatusInv'
  <2>1. \A q \in Reqs : flight'[q].pc # "none" =>
          flight'[q] = flight[q] /\ req'[q].group = req[q].group
    BY <1>e, <1>g
  <2>2. \A q \in Reqs : req'[q].floor = req[q].floor /\ req'[q].kind = req[q].kind
                        /\ req'[q].group = req[q].group
    BY <1>e, <1>g
  <2>3. StatusesNeverGoBack'
    BY <1>e DEF CachesInv, StatusInv, StatusesNeverGoBack, At
  <2>4. (\A q \in Reqs : /\ req[q].floor <= shown
                         /\ req[q].kind = "status" => req[q].group = "obs")'
    BY <2>2, <1>u DEF CachesInv, StatusInv
  <2>5. (\A q \in Reqs : flight[q].pc = "returned" /\ req[q].group = "obs" =>
       /\ shown <= flight[q].res.epoch
       /\ flight[q].res.epoch <= epoch
       /\ cache["obs"].valid => cache["obs"].res.epoch <= flight[q].res.epoch)'
    BY <2>1, <1>u DEF CachesInv, StatusInv
  <2>6. (/\ shown <= epoch
         /\ cache["obs"].valid => /\ shown <= cache["obs"].res.epoch
                                  /\ cache["obs"].res.epoch <= epoch)'
    BY <1>u DEF CachesInv, StatusInv
  <2> QED
    BY <2>3, <2>4, <2>5, <2>6, Zenon DEF StatusInv
<1>4. EmptyInv'
  <2>1. (\A q \in Reqs : flight[q].pc = "stored" =>
       cache[req[q].group].valid \/ flight[q].cut)'
    BY <1>e, <1>g, <1>u DEF CachesInv, EmptyInv
  <2>2. (\A q \in Reqs : req[q].pc = "back" =>
       req[q].group # "health" /\ (cache[req[q].group].valid \/ req[q].cut))'
    <3> SUFFICES ASSUME NEW q \in Reqs, req'[q].pc = "back"
                 PROVE req'[q].group # "health" /\ (cache[req'[q].group].valid \/ req'[q].cut)
      BY <1>u
    <3>1. CASE req[q].pc = "wait" /\ req[q].on = r
      BY <3>1, <1>e DEF CachesInv, EmptyInv
    <3>2. CASE ~(req[q].pc = "wait" /\ req[q].on = r)
      BY <3>2, <1>e DEF CachesInv, EmptyInv
    <3> QED
      BY <3>1, <3>2
  <2>3. (\A q \in Reqs : req[q].answer = "cleared" => req[q].pc = "done" /\ req[q].cut)'
    BY <1>e DEF CachesInv, EmptyInv
  <2> QED
    BY <2>1, <2>2, <2>3 DEF EmptyInv
<1>5. KindInv'
  BY <1>e DEF CachesInv, KindInv
<1> QED
  BY <1>e, <1>1, <1>2, <1>3, <1>4, <1>5 DEF CachesInv

-----------------------------------------------------------------------------
(* The steps of a request outside its call *)

\* A request that comes in knows what had been shown before.
LEMMA BeginKeeps ==
  ASSUME CachesInv, NEW r \in Reqs, NEW k \in Kinds, Begin(r, k)
  PROVE  CachesInv'
<1> DEFINE x == [req[r] EXCEPT !.kind = k,
                               !.pc = CASE k = "switch" -> "override"
                                        [] k = "current" -> "info"
                                        [] OTHER -> "read",
                               !.group = IF k = "health" THEN "health" ELSE "obs",
                               !.floor = shown]
<1>1. req[r] \in Request /\ shown \in Nat /\ epoch \in Nat
  BY DEF CachesInv, TypeOK
<1>2. x \in Request
  BY <1>1 DEF Request, Kinds, Groups
<1>3. req' = [req EXCEPT ![r] = x]
  BY DEF Begin
<1>r. req' \in [Reqs -> Request] /\ req'[r] = x /\ \A q \in Reqs : q # r => req'[q] = req[q]
  BY <1>2, <1>3 DEF CachesInv, TypeOK
<1>4. req[r].pc = "new" /\ req[r].answer # "cleared"
  BY DEF Begin, At, CachesInv, EmptyInv
<1>5. /\ x.kind = k /\ x.floor = shown /\ x.answer # "cleared"
      /\ x.group = IF k = "health" THEN "health" ELSE "obs"
      /\ x.pc = CASE k = "switch" -> "override" [] k = "current" -> "info"
                   [] OTHER -> "read"
  BY <1>1, <1>4 DEF Request
<1> HIDE DEF x
<1>6. UNCHANGED <<now, epoch, settled, cache, key, flight, shown>>
  BY DEF Begin
<1> QED
  BY <1>1, <1>r, <1>4, <1>5, <1>6, OwnStep

\* A request asks for the override before it reads a cache.
LEMMA BalancerInfoKeeps ==
  ASSUME CachesInv, NEW r \in Reqs, BalancerInfo(r)
  PROVE  CachesInv'
<1>1. PICK a \in {"error", "data", "none"}, p \in {"done", "read"} :
        req' = [req EXCEPT ![r] = [req[r] EXCEPT !.pc = p,
                                     !.answer = IF p = "done" THEN a ELSE @]]
  <2>1. CASE \E a \in {"error", "data"} :
               req' = [req EXCEPT ![r].pc = "done", ![r].answer = a]
    BY <2>1
  <2>2. CASE req' = [req EXCEPT ![r].pc = "read"]
    <3>1. [req[r] EXCEPT !.pc = "read"] =
          [req[r] EXCEPT !.pc = "read", !.answer = IF "read" = "done" THEN "none" ELSE @]
      BY DEF CachesInv, TypeOK, Request
    <3> QED
      BY <2>2, <3>1
  <2> QED
    BY <2>1, <2>2 DEF BalancerInfo
<1> DEFINE x == [req[r] EXCEPT !.pc = p, !.answer = IF p = "done" THEN a ELSE @]
<1>2. req[r] \in Request /\ shown \in Nat /\ epoch \in Nat
  BY DEF CachesInv, TypeOK
<1>3. x \in Request
  BY <1>2 DEF Request
<1>4. req[r].pc = "info" /\ req[r].kind = "current" /\ req[r].floor <= shown
      /\ req[r].answer # "cleared"
  BY DEF BalancerInfo, At, CachesInv, KindInv, StatusInv, EmptyInv
<1>5. x.pc = p /\ x.kind = "current" /\ x.floor <= shown /\ x.answer # "cleared"
  BY <1>2, <1>4 DEF Request
<1>6. req' = [req EXCEPT ![r] = x]
  BY <1>1
<1>r. req' \in [Reqs -> Request] /\ req'[r] = x /\ \A q \in Reqs : q # r => req'[q] = req[q]
  BY <1>3, <1>6 DEF CachesInv, TypeOK
<1> HIDE DEF x
<1>7. UNCHANGED <<now, epoch, settled, cache, key, flight, shown>>
  BY DEF BalancerInfo
<1> QED
  BY <1>2, <1>r, <1>4, <1>5, <1>7, OwnStep

\* A switch changes the override, or fails to.
LEMMA OverrideKeeps ==
  ASSUME CachesInv, NEW r \in Reqs, Override(r)
  PROVE  CachesInv'
<1> DEFINE done == [req[r] EXCEPT !.pc = "done", !.answer = "error"]
           clear == [req[r] EXCEPT !.pc = "clearHealth", !.res.epoch = epoch + 1]
<1>1. req[r] \in Request /\ shown \in Nat /\ epoch \in Nat
  BY DEF CachesInv, TypeOK
<1>2. done \in Request /\ clear \in Request
  <2>1. [req[r].res EXCEPT !.epoch = epoch + 1] \in Result
    BY <1>1 DEF Request, Result
  <2>2. clear = [req[r] EXCEPT !.pc = "clearHealth",
                               !.res = [req[r].res EXCEPT !.epoch = epoch + 1]]
    BY <1>1 DEF Request
  <2> QED
    BY <1>1, <2>1, <2>2 DEF Request
<1>3. req[r].pc = "override" /\ req[r].kind = "switch" /\ req[r].floor <= shown
      /\ req[r].answer # "cleared"
  BY DEF Override, At, CachesInv, KindInv, StatusInv, EmptyInv
<1>4. /\ done.pc = "done" /\ done.kind = "switch" /\ done.floor <= shown
      /\ done.answer = "error"
      /\ clear.pc = "clearHealth" /\ clear.kind = "switch" /\ clear.floor <= shown
      /\ clear.answer # "cleared" /\ clear.res.epoch = epoch + 1
  BY <1>1, <1>3 DEF Request, Result
<1>5. \/ epoch' = epoch + 1 /\ req' = [req EXCEPT ![r] = clear]
      \/ epoch' \in {epoch, epoch + 1} /\ req' = [req EXCEPT ![r] = done]
  BY DEF Override
<1> HIDE DEF done, clear
<1>6. UNCHANGED <<now, settled, cache, key, flight, shown>>
  BY DEF Override
<1>7. CASE epoch' = epoch + 1 /\ req' = [req EXCEPT ![r] = clear]
  <2>1. req' \in [Reqs -> Request] /\ req'[r] = clear
        /\ \A q \in Reqs : q # r => req'[q] = req[q]
    BY <1>2, <1>7 DEF CachesInv, TypeOK
  <2> QED
    BY <1>1, <1>3, <1>4, <1>6, <1>7, <2>1, OwnStep
<1>8. CASE epoch' \in {epoch, epoch + 1} /\ req' = [req EXCEPT ![r] = done]
  <2>1. req' \in [Reqs -> Request] /\ req'[r] = done
        /\ \A q \in Reqs : q # r => req'[q] = req[q]
    BY <1>2, <1>8 DEF CachesInv, TypeOK
  <2> QED
    BY <1>1, <1>3, <1>4, <1>6, <1>8, <2>1, OwnStep
<1> QED
  BY <1>5, <1>7, <1>8

\* The request uses what it found in the cache, or goes away empty-handed.
LEMMA ObtainKeeps ==
  ASSUME CachesInv, NEW r \in Reqs, NEW res \in Result,
         NEW answer \in {"data", "failed", "cleared", "expired"},
         req[r].pc \in {"read", "back"},
         Obtain(r, res, answer),
         UNCHANGED <<now, epoch, settled, cache, key, flight>>,
         answer = "data" => cache[req[r].group].valid /\ res = cache[req[r].group].res,
         answer = "cleared" => req[r].cut
  PROVE  CachesInv'
<1> DEFINE more == [req[r] EXCEPT !.pc = "read", !.group = "excluded", !.res = res]
           done == [req[r] EXCEPT !.pc = "done", !.res = res, !.answer = answer]
<1>1. req[r] \in Request /\ shown \in Nat /\ epoch \in Nat /\ res.epoch \in Nat
  BY DEF CachesInv, TypeOK, Result
<1>2. more \in Request /\ done \in Request
  BY <1>1 DEF Request, Groups
<1>3. /\ req[r].floor <= shown /\ req[r].floor \in Nat
      /\ req[r].kind = "status" => req[r].group = "obs"
      /\ req[r].answer # "cleared"
  BY <1>1 DEF CachesInv, StatusInv, EmptyInv, Request
<1>4. /\ more.pc = "read" /\ more.kind = req[r].kind /\ more.floor = req[r].floor
      /\ more.answer = req[r].answer /\ more.group = "excluded"
      /\ done.pc = "done" /\ done.kind = req[r].kind /\ done.floor = req[r].floor
      /\ done.answer = answer /\ done.group = req[r].group /\ done.res = res
      /\ done.cut = req[r].cut
  BY <1>1 DEF Request
<1>5. \/ req[r].kind = "current" /\ req' = [req EXCEPT ![r] = more]
      \/ req' = [req EXCEPT ![r] = done]
  BY DEF Obtain
<1> HIDE DEF more, done
<1>6. CASE req[r].group = "obs" /\ answer = "data"
  <2>1. shown <= res.epoch /\ res.epoch <= epoch
    BY <1>6 DEF CachesInv, StatusInv
  <2>2. shown' = res.epoch
    BY <1>1, <1>6, <2>1 DEF Obtain, Later
  <2>3. CASE req[r].kind = "current" /\ req' = [req EXCEPT ![r] = more]
    <3>1. req' \in [Reqs -> Request] /\ req'[r] = more
          /\ \A q \in Reqs : q # r => req'[q] = req[q]
      BY <1>2, <2>3 DEF CachesInv, TypeOK
    <3> QED
      BY <1>1, <1>3, <1>4, <1>6, <2>1, <2>2, <2>3, <3>1, OwnStep
  <2>4. CASE req' = [req EXCEPT ![r] = done]
    <3>1. req' \in [Reqs -> Request] /\ req'[r] = done
          /\ \A q \in Reqs : q # r => req'[q] = req[q]
      BY <1>2, <2>4 DEF CachesInv, TypeOK
    <3> QED
      BY <1>1, <1>3, <1>4, <1>6, <2>1, <2>2, <3>1, OwnStep
  <2> QED
    BY <1>5, <2>3, <2>4
<1>7. CASE ~(req[r].group = "obs" /\ answer = "data")
  <2>1. shown' = shown /\ req' = [req EXCEPT ![r] = done]
    BY <1>7 DEF Obtain, done
  <2>2. req' \in [Reqs -> Request] /\ req'[r] = done
        /\ \A q \in Reqs : q # r => req'[q] = req[q]
    BY <1>2, <2>1 DEF CachesInv, TypeOK
  <2> QED
    BY <1>1, <1>3, <1>4, <1>7, <2>1, <2>2, OwnStep
<1> QED
  BY <1>6, <1>7

\* A cache is read: a fresh entry is used, otherwise a call is to be joined.
LEMMA ReadKeeps ==
  ASSUME CachesInv, NEW r \in Reqs, Read(r)
  PROVE  CachesInv'
<1>1. req[r] \in Request /\ req[r].group \in Groups /\ shown \in Nat /\ epoch \in Nat
      /\ cache[req[r].group] \in Entry
  BY DEF CachesInv, TypeOK, Request
<1>2. req[r].pc = "read" /\ UNCHANGED <<now, epoch, settled, cache, key, flight>>
  BY DEF Read, At
<1>3. CASE Fresh(req[r].group) /\ Obtain(r, cache[req[r].group].res,
                                         Outcome(cache[req[r].group].res))
  <2>1. cache[req[r].group].res \in Result /\ cache[req[r].group].valid
        /\ Outcome(cache[req[r].group].res) \in {"data", "failed"}
    BY <1>1, <1>3 DEF Fresh, Entry, Outcome
  <2> QED
    BY <1>2, <1>3, <2>1, ObtainKeeps
<1>4. CASE req' = [req EXCEPT ![r].pc = "do"] /\ UNCHANGED shown
  <2>1. req' \in [Reqs -> Request] /\ req'[r] = [req[r] EXCEPT !.pc = "do"]
        /\ \A q \in Reqs : q # r => req'[q] = req[q]
    BY <1>1, <1>4 DEF CachesInv, TypeOK, Request
  <2>2. req'[r].pc = "do" /\ req'[r].kind = req[r].kind /\ req'[r].floor = req[r].floor
        /\ req'[r].group = req[r].group /\ req'[r].answer = req[r].answer
    BY <1>1, <2>1 DEF Request
  <2>3. /\ req[r].floor <= shown
        /\ req[r].kind = "status" => req[r].group = "obs"
        /\ req[r].answer # "cleared"
    BY <1>2 DEF CachesInv, StatusInv, EmptyInv
  <2> QED
    BY <1>1, <1>2, <1>4, <2>1, <2>2, <2>3, OwnStep
<1> QED
  BY <1>3, <1>4 DEF Read

\* After the call the cache is read again: the entry is taken, or found missing.
LEMMA ReadBackKeeps ==
  ASSUME CachesInv, NEW r \in Reqs, ReadBack(r)
  PROVE  CachesInv'
<1>1. req[r].group \in Groups /\ cache[req[r].group] \in Entry
  BY DEF CachesInv, TypeOK, Request
<1>2. req[r].pc = "back" /\ UNCHANGED <<now, epoch, settled, cache, key, flight>>
  BY DEF ReadBack, At
<1>3. CASE Fresh(req[r].group) /\ Obtain(r, cache[req[r].group].res,
                                         Outcome(cache[req[r].group].res))
  <2>1. cache[req[r].group].res \in Result /\ cache[req[r].group].valid
        /\ Outcome(cache[req[r].group].res) \in {"data", "failed"}
    BY <1>1, <1>3 DEF Fresh, Entry, Outcome
  <2> QED
    BY <1>2, <1>3, <2>1, ObtainKeeps
<1>4. CASE Obtain(r, NoResult, IF cache[req[r].group].valid THEN "expired"
                               ELSE "cleared")
  <2>1. NoResult \in Result
    BY DEF NoResult, Result
  <2>2. cache[req[r].group].valid \/ req[r].cut
    BY <1>2 DEF CachesInv, EmptyInv
  <2>3. CASE cache[req[r].group].valid
    BY <1>2, <1>4, <2>1, <2>3, ObtainKeeps
  <2>4. CASE ~cache[req[r].group].valid
    BY <1>2, <1>4, <2>1, <2>2, <2>4, ObtainKeeps
  <2> QED
    BY <2>3, <2>4
<1> QED
  BY <1>3, <1>4 DEF ReadBack

\* A request becomes the leader of a call, or joins the one under the key.
LEMMA DoKeeps ==
  ASSUME CachesInv, NEW r \in Reqs, Do(r)
  PROVE  CachesInv'
<1> DEFINE g == req[r].group
           leader == IF Leads(r) THEN r ELSE key[g]
           p == IF g = "health" THEN "recheck" ELSE "calling"
<1>1. req[r] \in Request /\ g \in Groups /\ flight[r] \in Flight /\ req[r].pc = "do"
      /\ key[g] \in Reqs \cup {None}
  BY DEF CachesInv, TypeOK, Request, Do, At
<1>2. leader \in Reqs /\ (~Leads(r) => leader = key[g] /\ leader # None)
  BY <1>1 DEF Leads
<1>3. /\ req' = [req EXCEPT ![r].pc = "wait", ![r].on = leader]
      /\ key' = [key EXCEPT ![g] = leader]
      /\ flight' = IF leader = r THEN [flight EXCEPT ![r].pc = p] ELSE flight
      /\ UNCHANGED <<now, epoch, settled, cache, shown>>
  BY DEF Do
<1>4. flight[r].pc = "none"
  BY <1>1 DEF CachesInv, FlightsInv
<1>5. Leads(r) <=> leader = r
  <2>1. ASSUME leader = r, ~Leads(r) PROVE FALSE
    BY <1>1, <1>2, <1>4, <2>1 DEF CachesInv, FlightsInv
  <2> QED
    BY <2>1
<1>6. /\ req' \in [Reqs -> Request]
      /\ \A q \in Reqs : q # r => req'[q] = req[q]
      /\ req'[r].pc = "wait" /\ req'[r].on = leader
      /\ req'[r].kind = req[r].kind /\ req'[r].group = g /\ req'[r].res = req[r].res
      /\ req'[r].floor = req[r].floor /\ req'[r].answer = req[r].answer
  BY <1>1, <1>2, <1>3 DEF CachesInv, TypeOK, Request
<1>7. /\ flight' \in [Reqs -> Flight]
      /\ \A q \in Reqs : q # r => flight'[q] = flight[q]
      /\ leader = r => flight'[r].pc = p
      /\ leader # r => flight'[r].pc = "none"
  BY <1>1, <1>3, <1>4 DEF CachesInv, TypeOK, Flight
<1>8. /\ key' \in [Groups -> Reqs \cup {None}]
      /\ key'[g] = leader
      /\ \A h \in Groups : h # g => key'[h] = key[h]
      /\ leader # r => key'[g] = key[g]
  BY <1>1, <1>2, <1>3, <1>5 DEF CachesInv, TypeOK
<1>k. leader # r => flight[leader].pc # "none" /\ req[leader].group = g
  BY <1>1, <1>2, <1>5 DEF CachesInv, FlightsInv
<1> HIDE DEF leader, g, p
<1>9. FlightsInv'
  <2>1. (\A q \in Reqs : flight[q].pc # "none" =>
           req[q].pc = "wait" /\ req[q].on = q /\ key[req[q].group] = q)'
    <3> SUFFICES ASSUME NEW q \in Reqs, flight'[q].pc # "none"
                 PROVE  req'[q].pc = "wait" /\ req'[q].on = q /\ key'[req'[q].group] = q
      OBVIOUS
    <3>1. CASE q = r
      BY <3>1, <1>6, <1>7, <1>8
    <3>2. CASE q # r
      <4>1. flight[q].pc # "none" /\ req'[q] = req[q] /\ req[q].group \in Groups
        BY <3>2, <1>6, <1>7 DEF CachesInv, TypeOK, Request
      <4>2. req[q].pc = "wait" /\ req[q].on = q /\ key[req[q].group] = q
        BY <4>1 DEF CachesInv, FlightsInv
      <4>3. CASE req[q].group # g
        BY <4>1, <4>2, <4>3, <1>8
      <4>4. CASE req[q].group = g
        <5>1. ~Leads(r)
          BY <4>2, <4>4, CachesAssumption DEF Leads, g
        <5> QED
          BY <5>1, <4>1, <4>2, <4>4, <1>5, <1>8
      <4> QED
        BY <4>3, <4>4
    <3> QED
      BY <3>1, <3>2
  <2>2. (\A q \in Reqs : /\ flight[q].pc = "recheck" => req[q].group = "health"
                         /\ flight[q].pc = "stored" => req[q].group # "health")'
    <3>1. p = "recheck" => g = "health"
      BY DEF p
    <3>2. p # "stored"
      BY DEF p
    <3> QED
      BY <3>1, <3>2, <1>6, <1>7 DEF CachesInv, FlightsInv
  <2>3. (\A q \in Reqs : req[q].pc = "wait" =>
           /\ req[q].on \in Reqs
           /\ flight[req[q].on].pc # "none"
           /\ req[req[q].on].group = req[q].group)'
    <3> SUFFICES ASSUME NEW q \in Reqs, req'[q].pc = "wait"
                 PROVE  /\ req'[q].on \in Reqs
                        /\ flight'[req'[q].on].pc # "none"
                        /\ req'[req'[q].on].group = req'[q].group
      OBVIOUS
    <3>1. CASE q = r
      <4>1. p # "none"
        BY DEF p
      <4> QED
        BY <3>1, <4>1, <1>2, <1>6, <1>7, <1>k
    <3>2. CASE q # r
      <4>1. req'[q] = req[q] /\ req[q].on \in Reqs /\ flight[req[q].on].pc # "none"
            /\ req[req[q].on].group = req[q].group
        BY <3>2, <1>6 DEF CachesInv, FlightsInv
      <4> QED
        BY <4>1, <1>4, <1>6, <1>7
    <3> QED
      BY <3>1, <3>2
  <2>4. (\A h \in Groups : key[h] # None =>
           flight[key[h]].pc # "none" /\ req[key[h]].group = h)'
    <3> SUFFICES ASSUME NEW h \in Groups, key'[h] # None
                 PROVE  flight'[key'[h]].pc # "none" /\ req'[key'[h]].group = h
      OBVIOUS
    <3>1. CASE h = g
      <4>1. p # "none"
        BY DEF p
      <4> QED
        BY <3>1, <4>1, <1>2, <1>6, <1>7, <1>8, <1>k
    <3>2. CASE h # g
      <4>1. key'[h] = key[h] /\ key[h] \in Reqs /\ flight[key[h]].pc # "none"
            /\ req[key[h]].group = h
        BY <3>2, <1>8 DEF CachesInv, TypeOK, FlightsInv
      <4> QED
        BY <4>1, <1>4, <1>6, <1>7
    <3> QED
      BY <3>1, <3>2
  <2> QED
    BY <2>1, <2>2, <2>3, <2>4, Zenon DEF FlightsInv
<1>10. TypeOK'
  BY <1>3, <1>6, <1>7, <1>8, <1>9 DEF CachesInv, TypeOK, FlightsInv
<1>p. p \notin {"returned", "stored"}
  BY DEF p
<1>f. \A q \in Reqs : flight'[q].pc \in {"returned", "stored"} =>
        flight'[q] = flight[q] /\ req'[q].group = req[q].group
  BY <1>6, <1>7, <1>p DEF g
<1>11. SwitchInv'
  <2>1. (\A q \in Reqs :
          /\ flight[q].pc = "returned"
          /\ ~flight[q].res.raced
          /\ req[q].group \in {"health", "obs"}
          => flight[q].res.epoch >= settled[req[q].group])'
    BY <1>3, <1>f DEF CachesInv, SwitchInv
  <2>2. (\A q \in Reqs : req[q].pc = "write" =>
          /\ req[q].group = "health"
          /\ ~req[q].res.raced => req[q].res.epoch >= settled["health"])'
    BY <1>3, <1>6 DEF CachesInv, SwitchInv
  <2>3. (\A q \in Reqs : req[q].pc \in {"clearHealth", "clearObs"}
                            => req[q].res.epoch <= epoch)'
    BY <1>3, <1>6 DEF CachesInv, SwitchInv
  <2>4. SwitchReflected' /\ (\A h \in Groups : settled[h] <= epoch)'
    BY <1>3 DEF CachesInv, SwitchInv, SwitchReflected
  <2> QED
    BY <2>1, <2>2, <2>3, <2>4, Zenon DEF SwitchInv
<1>12. StatusInv'
  <2>1. (\A q \in Reqs : flight[q].pc = "returned" /\ req[q].group = "obs" =>
           /\ shown <= flight[q].res.epoch
           /\ flight[q].res.epoch <= epoch
           /\ cache["obs"].valid => cache["obs"].res.epoch <= flight[q].res.epoch)'
    BY <1>3, <1>f DEF CachesInv, StatusInv
  <2>2. (\A q \in Reqs : /\ req[q].floor <= shown
                         /\ req[q].kind = "status" => req[q].group = "obs")'
    BY <1>3, <1>6 DEF CachesInv, StatusInv, g
  <2>3. StatusesNeverGoBack'
    BY <1>6 DEF CachesInv, StatusInv, StatusesNeverGoBack, At
  <2> QED
    BY <1>3, <2>1, <2>2, <2>3 DEF CachesInv, StatusInv
<1>13. EmptyInv'
  <2>1. req[r].answer # "cleared"
    BY <1>1 DEF CachesInv, EmptyInv
  <2> QED
    BY <2>1, <1>3, <1>6, <1>f, ZenonT(40) DEF CachesInv, EmptyInv
<1>14. KindInv'
  BY <1>6 DEF CachesInv, KindInv
<1> QED
  BY <1>9, <1>10, <1>11, <1>12, <1>13, <1>14 DEF CachesInv

\* A step that neither begins nor ends a call nor moves a request into or out
\* of the wait for one.
LEMMA FlightsFrame ==
  ASSUME CachesInv, UNCHANGED key,
         \A q \in Reqs :
           /\ flight'[q].pc = "none" <=> flight[q].pc = "none"
           /\ flight'[q].pc = "recheck" => flight[q].pc = "recheck"
           /\ flight'[q].pc = "stored" => req[q].group # "health"
           /\ req'[q].pc = "wait" <=> req[q].pc = "wait"
           /\ req[q].pc = "wait" => req'[q].on = req[q].on
           /\ req'[q].group = req[q].group
  PROVE  FlightsInv'
<1>1. (\A q \in Reqs : flight[q].pc # "none" =>
         req[q].pc = "wait" /\ req[q].on = q /\ key[req[q].group] = q)'
  BY DEF CachesInv, FlightsInv
<1>2. (\A q \in Reqs : /\ flight[q].pc = "recheck" => req[q].group = "health"
                       /\ flight[q].pc = "stored" => req[q].group # "health")'
  BY DEF CachesInv, FlightsInv
<1>3. (\A q \in Reqs : req[q].pc = "wait" =>
         /\ req[q].on \in Reqs
         /\ flight[req[q].on].pc # "none"
         /\ req[req[q].on].group = req[q].group)'
  BY DEF CachesInv, FlightsInv
<1>4. (\A h \in Groups : key[h] # None =>
         flight[key[h]].pc # "none" /\ req[key[h]].group = h)'
  <2> SUFFICES ASSUME NEW h \in Groups, key[h] # None
               PROVE  flight'[key[h]].pc # "none" /\ req'[key[h]].group = h
    OBVIOUS
  <2>1. key[h] \in Reqs /\ flight[key[h]].pc # "none" /\ req[key[h]].group = h
    BY DEF CachesInv, TypeOK, FlightsInv
  <2> QED
    BY <2>1
<1> QED
  BY <1>1, <1>2, <1>3, <1>4, Zenon DEF FlightsInv

\* The health check writes its result into its cache.
LEMMA WriteHealthKeeps ==
  ASSUME CachesInv, NEW r \in Reqs, WriteHealth(r)
  PROVE  CachesInv'
<1>1. req[r] \in Request /\ req[r].pc = "write" /\ req[r].group = "health"
      /\ "health" \in Groups /\ flight[r].pc = "none"
  BY DEF CachesInv, TypeOK, WriteHealth, At, SwitchInv, FlightsInv, Groups
<1>2. /\ req' \in [Reqs -> Request]
      /\ \A q \in Reqs : q # r => req'[q] = req[q]
      /\ req'[r].pc = "done" /\ req'[r].group = "health" /\ req'[r].kind = req[r].kind
      /\ req'[r].floor = req[r].floor /\ req'[r].answer # "cleared"
  BY <1>1 DEF WriteHealth, Outcome, CachesInv, TypeOK, Request
<1>3. /\ cache' \in [Groups -> Entry]
      /\ cache'["health"].valid /\ cache'["health"].res = req[r].res
      /\ \A h \in Groups : h # "health" => cache'[h] = cache[h]
      /\ cache'["obs"] = cache["obs"]
  BY <1>1, CachesAssumption
  DEF WriteHealth, CachesInv, TypeOK, Entry, Request, Groups
<1>4. UNCHANGED <<now, epoch, settled, key, flight, shown>>
  BY DEF WriteHealth
<1>5. TypeOK'
  BY <1>2, <1>3, <1>4 DEF CachesInv, TypeOK
<1>6. FlightsInv'
  <2>1. \A q \in Reqs : flight[q].pc = "stored" => req[q].group # "health"
    BY DEF CachesInv, FlightsInv
  <2> QED
    BY <2>1, <1>1, <1>2, <1>4, FlightsFrame
<1>7. SwitchInv'
  <2>1. SwitchReflected'
    BY <1>1, <1>3, <1>4 DEF CachesInv, SwitchInv, SwitchReflected
  <2> QED
    BY <2>1, <1>1, <1>2, <1>4 DEF CachesInv, SwitchInv
<1>8. StatusInv'
  <2>1. req[r].kind # "status"
    BY <1>1 DEF CachesInv, StatusInv
  <2>2. StatusesNeverGoBack'
    BY <2>1, <1>2 DEF CachesInv, StatusInv, StatusesNeverGoBack, At
  <2> QED
    BY <2>1, <2>2, <1>1, <1>2, <1>3, <1>4 DEF CachesInv, StatusInv
<1>9. EmptyInv'
  <2>1. (\A q \in Reqs : flight[q].pc = "stored" =>
           cache[req[q].group].valid \/ flight[q].cut)'
    BY <1>1, <1>2, <1>3, <1>4 DEF CachesInv, TypeOK, Request, FlightsInv, EmptyInv
  <2>2. (\A q \in Reqs : req[q].pc = "back" =>
           req[q].group # "health" /\ (cache[req[q].group].valid \/ req[q].cut))'
    BY <1>1, <1>2, <1>3 DEF CachesInv, TypeOK, Request, EmptyInv
  <2> QED
    BY <2>1, <2>2, <1>2 DEF CachesInv, EmptyInv
<1>10. KindInv'
  BY <1>2 DEF CachesInv, KindInv
<1> QED
  BY <1>5, <1>6, <1>7, <1>8, <1>9, <1>10 DEF CachesInv

-----------------------------------------------------------------------------
(* The steps of a call *)

\* Xray answers with its present state, or the call fails.
LEMMA XrayAnswersKeeps ==
  ASSUME CachesInv, NEW r \in Reqs, XrayAnswers(r)
  PROVE  CachesInv'
<1>1. flight[r] \in Flight /\ flight[r].pc = "calling" /\ epoch \in Nat
      /\ settled \in [Groups -> Nat] /\ shown \in Nat
  BY DEF CachesInv, TypeOK, XrayAnswers
<1>2. /\ flight' \in [Reqs -> Flight]
      /\ \A q \in Reqs : q # r => flight'[q] = flight[q]
      /\ flight'[r].pc = "returned" /\ flight'[r].res.epoch = epoch
  <2>1. PICK ok \in BOOLEAN : flight' = [flight EXCEPT ![r] =
          [@ EXCEPT !.pc = "returned",
                    !.res = [epoch |-> epoch, ok |-> ok, raced |-> FALSE]]]
    BY DEF XrayAnswers
  <2>2. [epoch |-> epoch, ok |-> ok, raced |-> FALSE] \in Result
    BY <1>1 DEF Result
  <2> QED
    BY <1>1, <2>1, <2>2 DEF CachesInv, TypeOK, Flight
<1>3. UNCHANGED <<now, epoch, settled, cache, key, req, shown>>
  BY DEF XrayAnswers
<1>4. TypeOK'
  BY <1>1, <1>2, <1>3 DEF CachesInv, TypeOK
<1>5. FlightsInv'
  <2>1. \A q \in Reqs : flight[q].pc = "stored" => req[q].group # "health"
    BY DEF CachesInv, FlightsInv
  <2> QED
    BY <2>1, <1>1, <1>2, <1>3, FlightsFrame
<1>6. SwitchInv'
  BY <1>1, <1>2, <1>3 DEF CachesInv, SwitchInv, SwitchReflected, Groups
<1>7. StatusInv'
  <2>1. StatusesNeverGoBack'
    BY <1>3 DEF CachesInv, StatusInv, StatusesNeverGoBack, At
  <2>2. (\A q \in Reqs : flight[q].pc = "returned" /\ req[q].group = "obs" =>
           /\ shown <= flight[q].res.epoch
           /\ flight[q].res.epoch <= epoch
           /\ cache["obs"].valid => cache["obs"].res.epoch <= flight[q].res.epoch)'
    BY <1>1, <1>2, <1>3 DEF CachesInv, StatusInv
  <2> QED
    BY <2>1, <2>2, <1>3 DEF CachesInv, StatusInv
<1>8. EmptyInv'
  BY <1>2, <1>3 DEF CachesInv, EmptyInv
<1>9. KindInv'
  BY <1>3 DEF CachesInv, KindInv
<1> QED
  BY <1>4, <1>5, <1>6, <1>7, <1>8, <1>9 DEF CachesInv

\* The call writes its result into the cache.
LEMMA StoreKeeps ==
  ASSUME CachesInv, NEW r \in Reqs, Store(r)
  PROVE  CachesInv'
<1> DEFINE g == req[r].group
<1>1. flight[r] \in Flight /\ flight[r].pc = "returned" /\ g \in Groups /\ g # "health"
      /\ "obs" \in Groups
  BY DEF CachesInv, TypeOK, Store, Request, Groups
<1>2. /\ flight' \in [Reqs -> Flight]
      /\ \A q \in Reqs : q # r => flight'[q] = flight[q]
      /\ flight'[r].pc = "stored"
  BY <1>1 DEF Store, CachesInv, TypeOK, Flight
<1>3. /\ cache' \in [Groups -> Entry]
      /\ cache'[g].valid /\ cache'[g].res = flight[r].res
      /\ \A h \in Groups : h # g => cache'[h] = cache[h]
  BY <1>1, CachesAssumption DEF Store, CachesInv, TypeOK, Entry, Flight
<1>4. UNCHANGED <<now, epoch, settled, key, req, shown>>
  BY DEF Store
<1>5. \A q \in Reqs : flight[q].pc # "none" /\ req[q].group = g => q = r
  BY <1>1 DEF CachesInv, FlightsInv
<1>6. TypeOK'
  BY <1>2, <1>3, <1>4 DEF CachesInv, TypeOK
<1>7. FlightsInv'
  <2>1. \A q \in Reqs : flight[q].pc = "stored" => req[q].group # "health"
    BY DEF CachesInv, FlightsInv
  <2> QED
    BY <2>1, <1>1, <1>2, <1>4, FlightsFrame
<1>8. SwitchInv'
  <2>1. SwitchReflected'
    BY <1>1, <1>3, <1>4 DEF CachesInv, SwitchInv, SwitchReflected, Groups
  <2> QED
    BY <2>1, <1>2, <1>4 DEF CachesInv, SwitchInv
<1>9. StatusInv'
  <2>1. StatusesNeverGoBack'
    BY <1>4 DEF CachesInv, StatusInv, StatusesNeverGoBack, At
  <2>2. (cache["obs"].valid => /\ shown <= cache["obs"].res.epoch
                               /\ cache["obs"].res.epoch <= epoch)'
    <3>1. CASE g = "obs"
      BY <3>1, <1>1, <1>3, <1>4 DEF CachesInv, StatusInv
    <3>2. CASE g # "obs"
      BY <3>2, <1>1, <1>3, <1>4 DEF CachesInv, StatusInv
    <3> QED
      BY <3>1, <3>2
  <2>3. (\A q \in Reqs : flight[q].pc = "returned" /\ req[q].group = "obs" =>
           /\ shown <= flight[q].res.epoch
           /\ flight[q].res.epoch <= epoch
           /\ cache["obs"].valid => cache["obs"].res.epoch <= flight[q].res.epoch)'
    BY <1>1, <1>2, <1>3, <1>4, <1>5 DEF CachesInv, StatusInv
  <2> QED
    BY <2>1, <2>2, <2>3, <1>4 DEF CachesInv, StatusInv
<1>10. EmptyInv'
  <2>1. \A h \in Groups : cache[h].valid => cache'[h].valid
    BY <1>3
  <2>2. \A q \in Reqs : req[q].group \in Groups
    BY DEF CachesInv, TypeOK, Request
  <2> QED
    BY <2>1, <2>2, <1>2, <1>3, <1>4 DEF CachesInv, EmptyInv
<1>11. KindInv'
  BY <1>4 DEF CachesInv, KindInv
<1> QED
  BY <1>6, <1>7, <1>8, <1>9, <1>10, <1>11 DEF CachesInv

\* The call finds a fresh entry after all and asks no one.
LEMMA RecheckKeeps ==
  ASSUME CachesInv, NEW r \in Reqs, Recheck(r)
  PROVE  CachesInv'
<1>1. flight[r] \in Flight /\ flight[r].pc = "recheck" /\ req[r].group = "health"
      /\ "health" \in Groups /\ cache["health"] \in Entry
  BY DEF CachesInv, TypeOK, Recheck, FlightsInv, Groups
<1>2. CASE Fresh("health") /\ Land(r, "health", cache["health"].res, FALSE)
  <2>1. cache["health"].res \in Result /\ cache["health"].valid
    BY <1>1, <1>2 DEF Fresh, Entry
  <2>2. ~cache["health"].res.raced => cache["health"].res.epoch >= settled["health"]
    BY <2>1 DEF CachesInv, SwitchInv, SwitchReflected
  <2> QED
    BY <1>1, <1>2, <2>1, <2>2, LandKeeps
<1>3. CASE flight' = [flight EXCEPT ![r].pc = "calling"]
           /\ UNCHANGED <<now, epoch, settled, cache, key, req, shown>>
  <2>1. /\ flight' \in [Reqs -> Flight]
        /\ \A q \in Reqs : q # r => flight'[q] = flight[q]
        /\ flight'[r].pc = "calling"
    BY <1>1, <1>3 DEF CachesInv, TypeOK, Flight
  <2>2. TypeOK'
    BY <1>1, <1>3, <2>1 DEF CachesInv, TypeOK
  <2>3. FlightsInv'
    BY <1>1, <1>3, <2>1 DEF CachesInv, FlightsInv
  <2>4. SwitchInv'
    BY <1>3, <2>1 DEF CachesInv, SwitchInv, SwitchReflected
  <2>5. StatusInv'
    BY <1>3, <2>1 DEF CachesInv, StatusInv, StatusesNeverGoBack, At
  <2>6. EmptyInv'
    BY <1>3, <2>1 DEF CachesInv, EmptyInv
  <2>7. KindInv'
    BY <1>3 DEF CachesInv, KindInv
  <2> QED
    BY <2>2, <2>3, <2>4, <2>5, <2>6, <2>7 DEF CachesInv
<1> QED
  BY <1>2, <1>3 DEF Recheck

\* A call that has stored its result returns.
LEMMA ReturnKeeps ==
  ASSUME CachesInv, NEW r \in Reqs, Return(r)
  PROVE  CachesInv'
<1>1. flight[r] \in Flight /\ flight[r].res \in Result /\ flight[r].res.ok \in BOOLEAN
      /\ req[r].group \in Groups
  BY DEF CachesInv, TypeOK, Request, Flight, Result
<1>2. /\ flight[r].pc # "none"
      /\ req[r].group = "health" => flight[r].pc = "returned"
      /\ req[r].group # "health" => flight[r].pc = "stored"
  BY DEF Return, Returned
<1>3. req[r].group = "health" /\ ~flight[r].res.raced
        => flight[r].res.epoch >= settled["health"]
  BY <1>2 DEF CachesInv, SwitchInv
<1>4. Land(r, req[r].group, flight[r].res, ~flight[r].res.ok)
      /\ (~flight[r].res.ok) \in BOOLEAN
  BY <1>1 DEF Return
<1> QED
  BY <1>1, <1>2, <1>3, <1>4, LandKeeps

-----------------------------------------------------------------------------
(* The switch and the clock *)

\* A cache is invalidated: what is on its way into it is marked.
LEMMA InvalidateKeeps ==
  ASSUME CachesInv, NEW r \in Reqs, NEW g \in {"health", "obs"}, NEW next \in Request,
         Invalidate(g, r, next),
         req[r].pc \in {"clearHealth", "clearObs"}, next.pc \in {"clearObs", "done"},
         next.kind = req[r].kind, next.group = req[r].group, next.res = req[r].res,
         next.floor = req[r].floor, next.answer # "cleared"
  PROVE  CachesInv'
<1>1. /\ g \in Groups /\ epoch \in Nat /\ shown \in Nat /\ settled[g] \in Nat
      /\ req[r].res.epoch \in Nat
      /\ \A q \in Reqs : flight[q] \in Flight /\ req[q] \in Request
  BY DEF CachesInv, TypeOK, Request, Result, Groups
<1>2. UNCHANGED <<now, epoch, key, shown>>
  BY DEF Invalidate
<1>3. /\ cache' \in [Groups -> Entry] /\ ~cache'[g].valid
      /\ \A h \in Groups : h # g => cache'[h] = cache[h]
  BY <1>1 DEF Invalidate, CachesInv, TypeOK, Entry, NoEntry, NoResult, Result
<1>4. /\ settled' \in [Groups -> Nat]
      /\ \A h \in Groups : h # g => settled'[h] = settled[h]
      /\ settled'[g] \in {settled[g], req[r].res.epoch}
  BY <1>1 DEF Invalidate, CachesInv, TypeOK, Later
<1>5. ASSUME NEW q \in Reqs
      PROVE  /\ flight'[q] \in Flight
             /\ flight'[q].pc = flight[q].pc
             /\ flight'[q].res.epoch = flight[q].res.epoch
             /\ req[q].group # g => flight'[q] = flight[q]
             /\ req[q].group = g /\ flight[q].pc = "returned" => flight'[q].res.raced
             /\ req[q].group = g /\ flight[q].pc = "stored" => flight'[q].cut
  <2> DEFINE R == flight[q].res.raced \/ flight[q].pc = "returned"
             C == flight[q].pc = "stored"
  <2>1. flight'[q] = IF req[q].group # g THEN flight[q]
                     ELSE [flight[q] EXCEPT !.res = [flight[q].res EXCEPT !.raced = R],
                                            !.cut = C]
    BY DEF Invalidate
  <2>2. R \in BOOLEAN /\ C \in BOOLEAN
    BY <1>1 DEF Flight, Result
  <2>3. flight[q].res \in Result
    BY <1>1 DEF Flight
  <2>4. flight[q].pc = "returned" => R
    OBVIOUS
  <2>5. flight[q].pc = "stored" => C
    OBVIOUS
  <2> HIDE DEF R, C
  <2>6. [flight[q].res EXCEPT !.raced = R] \in Result
        /\ [flight[q].res EXCEPT !.raced = R].epoch = flight[q].res.epoch
        /\ [flight[q].res EXCEPT !.raced = R].raced = R
    BY <2>2, <2>3 DEF Result
  <2> QED
    BY <1>1, <2>1, <2>2, <2>4, <2>5, <2>6 DEF Flight
<1>6. req'[r] = next
  BY DEF Invalidate
<1>7. ASSUME NEW q \in Reqs, q # r
      PROVE  /\ req'[q] \in Request
             /\ req'[q].pc = req[q].pc /\ req'[q].kind = req[q].kind
             /\ req'[q].group = req[q].group /\ req'[q].on = req[q].on
             /\ req'[q].floor = req[q].floor /\ req'[q].answer = req[q].answer
             /\ req'[q].res.epoch = req[q].res.epoch
             /\ req[q].cut => req'[q].cut
             /\ req[q].group # g => req'[q] = req[q]
             /\ req[q].group = g /\ req[q].pc = "write" => req'[q].res.raced
             /\ req[q].group = g /\ req[q].pc = "back" => req'[q].cut
  <2> DEFINE R == req[q].res.raced \/ At(q, "write")
             C == req[q].cut \/ At(q, "back")
  <2>1. req'[q] = IF req[q].group # g THEN req[q]
                  ELSE [req[q] EXCEPT !.res = [req[q].res EXCEPT !.raced = R],
                                      !.cut = C]
    BY <1>7 DEF Invalidate
  <2>2. R \in BOOLEAN /\ C \in BOOLEAN
    BY <1>1 DEF Request, Result, At
  <2>3. req[q].res \in Result
    BY <1>1 DEF Request
  <2>4. /\ req[q].pc = "write" => R
        /\ req[q].pc = "back" => C
        /\ req[q].cut => C
    BY DEF At
  <2> HIDE DEF R, C
  <2>6. [req[q].res EXCEPT !.raced = R] \in Result
        /\ [req[q].res EXCEPT !.raced = R].epoch = req[q].res.epoch
        /\ [req[q].res EXCEPT !.raced = R].raced = R
    BY <2>2, <2>3 DEF Result
  <2>7. CASE req[q].group # g
    BY <2>7, <2>1, <1>1
  <2>8. CASE req[q].group = g
    <3>1. req'[q] = [req[q] EXCEPT !.res = [req[q].res EXCEPT !.raced = R], !.cut = C]
      BY <2>8, <2>1
    <3>2. req'[q] \in Request
      BY <3>1, <1>1, <2>2, <2>6 DEF Request
    <3>3. /\ req'[q].pc = req[q].pc /\ req'[q].kind = req[q].kind
          /\ req'[q].group = req[q].group /\ req'[q].on = req[q].on
          /\ req'[q].floor = req[q].floor /\ req'[q].answer = req[q].answer
          /\ req'[q].res = [req[q].res EXCEPT !.raced = R] /\ req'[q].cut = C
      BY <3>1, <1>1 DEF Request
    <3> QED
      BY <3>2, <3>3, <2>4, <2>6, <2>8
  <2> QED
    BY <2>7, <2>8
<1>8. flight' \in [Reqs -> Flight] /\ req' \in [Reqs -> Request]
  <2>1. flight' = [q \in Reqs |-> flight'[q]] /\ req' = [q \in Reqs |-> req'[q]]
    BY DEF Invalidate
  <2> QED
    BY <2>1, <1>5, <1>6, <1>7
<1>9. FlightsInv'
  <2>1. \A q \in Reqs : /\ flight[q].pc = "stored" => req[q].group # "health"
                        /\ flight[q].pc = "recheck" => req[q].group = "health"
    BY DEF CachesInv, FlightsInv
  <2> QED
    BY <2>1, <1>2, <1>5, <1>6, <1>7, FlightsFrame
<1>10. TypeOK'
  BY <1>2, <1>3, <1>4, <1>8, <1>9 DEF CachesInv, TypeOK, FlightsInv
<1>11. SwitchInv'
  <2>1. (\A h \in Groups : settled[h] <= epoch)'
    BY <1>2, <1>4 DEF CachesInv, SwitchInv
  <2>2. (\A q \in Reqs :
           /\ flight[q].pc = "returned"
           /\ ~flight[q].res.raced
           /\ req[q].group \in {"health", "obs"}
           => flight[q].res.epoch >= settled[req[q].group])'
    <3> SUFFICES ASSUME NEW q \in Reqs, flight'[q].pc = "returned",
                        ~flight'[q].res.raced, req'[q].group \in {"health", "obs"}
                 PROVE  flight'[q].res.epoch >= settled'[req'[q].group]
      OBVIOUS
    <3>1. req'[q].group = req[q].group /\ req[q].group \in Groups
      BY <1>1, <1>6, <1>7 DEF Request
    <3>2. req[q].group # g /\ flight'[q] = flight[q]
      BY <1>5
    <3> QED
      BY <3>1, <3>2, <1>4 DEF CachesInv, SwitchInv
  <2>3. (\A q \in Reqs : req[q].pc = "write" =>
           /\ req[q].group = "health"
           /\ ~req[q].res.raced => req[q].res.epoch >= settled["health"])'
    <3> SUFFICES ASSUME NEW q \in Reqs, req'[q].pc = "write"
                 PROVE  /\ req'[q].group = "health"
                        /\ ~req'[q].res.raced => req'[q].res.epoch >= settled'["health"]
      OBVIOUS
    <3>1. q # r /\ req[q].pc = "write" /\ req[q].group = "health" /\ "health" \in Groups
      BY <1>6, <1>7 DEF CachesInv, SwitchInv, Groups
    <3>2. CASE g = "health"
      BY <3>1, <3>2, <1>7
    <3>3. CASE g # "health"
      BY <3>1, <3>3, <1>4, <1>7 DEF CachesInv, SwitchInv
    <3> QED
      BY <3>2, <3>3
  <2>4. (\A q \in Reqs : req[q].pc \in {"clearHealth", "clearObs"}
                           => req[q].res.epoch <= epoch)'
    BY <1>2, <1>6, <1>7 DEF CachesInv, SwitchInv
  <2>5. SwitchReflected'
    BY <1>1, <1>3, <1>4 DEF CachesInv, SwitchInv, SwitchReflected, Groups
  <2> QED
    BY <2>1, <2>2, <2>3, <2>4, <2>5, Zenon DEF SwitchInv
<1>12. StatusInv'
  <2>1. "obs" \in Groups
    BY DEF Groups
  <2>2. cache'["obs"].valid => cache'["obs"] = cache["obs"]
    BY <2>1, <1>3
  <2>3. (/\ shown <= epoch
         /\ cache["obs"].valid => /\ shown <= cache["obs"].res.epoch
                                  /\ cache["obs"].res.epoch <= epoch)'
    BY <2>2, <1>2, <1>3 DEF CachesInv, StatusInv
  <2>g. \A q \in Reqs : req'[q].group = req[q].group /\ req'[q].kind = req[q].kind
                        /\ req'[q].floor = req[q].floor
    BY <1>6, <1>7
  <2>4. (\A q \in Reqs : flight[q].pc = "returned" /\ req[q].group = "obs" =>
           /\ shown <= flight[q].res.epoch
           /\ flight[q].res.epoch <= epoch
           /\ cache["obs"].valid => cache["obs"].res.epoch <= flight[q].res.epoch)'
    BY <2>2, <2>g, <1>2, <1>5 DEF CachesInv, StatusInv
  <2>5. (\A q \in Reqs : /\ req[q].floor <= shown
                         /\ req[q].kind = "status" => req[q].group = "obs")'
    BY <2>g, <1>2 DEF CachesInv, StatusInv
  <2>6. StatusesNeverGoBack'
    <3>1. req[r].kind = "switch"
      BY DEF CachesInv, KindInv
    <3> QED
      BY <3>1, <1>6, <1>7 DEF CachesInv, StatusInv, StatusesNeverGoBack, At
  <2> QED
    BY <2>3, <2>4, <2>5, <2>6, Zenon DEF StatusInv
<1>13. EmptyInv'
  <2>1. (\A q \in Reqs : flight[q].pc = "stored" =>
           cache[req[q].group].valid \/ flight[q].cut)'
    <3> SUFFICES ASSUME NEW q \in Reqs, flight'[q].pc = "stored"
                 PROVE  cache'[req'[q].group].valid \/ flight'[q].cut
      OBVIOUS
    <3>1. req'[q].group = req[q].group /\ req[q].group \in Groups
      BY <1>1, <1>6, <1>7 DEF Request
    <3>2. CASE req[q].group = g
      BY <3>2, <1>5
    <3>3. CASE req[q].group # g
      BY <3>1, <3>3, <1>3, <1>5 DEF CachesInv, EmptyInv
    <3> QED
      BY <3>2, <3>3
  <2>2. (\A q \in Reqs : req[q].pc = "back" =>
           req[q].group # "health" /\ (cache[req[q].group].valid \/ req[q].cut))'
    <3> SUFFICES ASSUME NEW q \in Reqs, req'[q].pc = "back"
                 PROVE  req'[q].group # "health"
                        /\ (cache'[req'[q].group].valid \/ req'[q].cut)
      OBVIOUS
    <3>1. q # r /\ req[q].pc = "back" /\ req'[q].group = req[q].group
          /\ req[q].group \in Groups
      BY <1>1, <1>6, <1>7 DEF Request
    <3>2. CASE req[q].group = g
      BY <3>1, <3>2, <1>7 DEF CachesInv, EmptyInv
    <3>3. CASE req[q].group # g
      BY <3>1, <3>3, <1>3, <1>7 DEF CachesInv, EmptyInv
    <3> QED
      BY <3>2, <3>3
  <2>3. (\A q \in Reqs : req[q].answer = "cleared" => req[q].pc = "done" /\ req[q].cut)'
    BY <1>6, <1>7 DEF CachesInv, EmptyInv
  <2> QED
    BY <2>1, <2>2, <2>3, Zenon DEF EmptyInv
<1>14. KindInv'
  BY <1>6, <1>7 DEF CachesInv, KindInv
<1> QED
  BY <1>9, <1>10, <1>11, <1>12, <1>13, <1>14 DEF CachesInv

\* A switch empties the caches.
LEMMA ClearKeeps ==
  ASSUME CachesInv, NEW r \in Reqs, ClearHealth(r) \/ ClearObs(r)
  PROVE  CachesInv'
<1>1. req[r] \in Request
  BY DEF CachesInv, TypeOK
<1>2. CASE ClearHealth(r)
  <2> DEFINE next == [req[r] EXCEPT !.pc = "clearObs"]
  <2>1. req[r].pc = "clearHealth" /\ Invalidate("health", r, next)
    BY <1>2 DEF ClearHealth, At
  <2>2. next \in Request /\ next.pc = "clearObs" /\ next.kind = req[r].kind
        /\ next.group = req[r].group /\ next.res = req[r].res
        /\ next.floor = req[r].floor /\ next.answer = req[r].answer
    BY <1>1 DEF Request
  <2>3. req[r].answer # "cleared"
    BY <2>1 DEF CachesInv, EmptyInv
  <2> HIDE DEF next
  <2> QED
    BY <2>1, <2>2, <2>3, InvalidateKeeps
<1>3. CASE ClearObs(r)
  <2> DEFINE next == [req[r] EXCEPT !.pc = "done", !.answer = "data"]
  <2>1. req[r].pc = "clearObs" /\ Invalidate("obs", r, next)
    BY <1>3 DEF ClearObs, At
  <2>2. next \in Request /\ next.pc = "done" /\ next.kind = req[r].kind
        /\ next.group = req[r].group /\ next.res = req[r].res
        /\ next.floor = req[r].floor /\ next.answer # "cleared"
    BY <1>1 DEF Request
  <2> HIDE DEF next
  <2> QED
    BY <2>1, <2>2, InvalidateKeeps
<1> QED
  BY <1>2, <1>3

\* Time passes, or the state of Xray changes.
LEMMA ClockKeeps ==
  ASSUME CachesInv, Tick \/ Drift \/ UNCHANGED vars
  PROVE  CachesInv'
<1>1. /\ now \in Nat /\ epoch \in Nat
      /\ now' \in Nat /\ epoch' \in Nat /\ epoch <= epoch'
      /\ UNCHANGED <<settled, cache, key, flight, req, shown>>
  BY DEF Tick, Drift, vars, CachesInv, TypeOK
<1>2. TypeOK'
  BY <1>1 DEF CachesInv, TypeOK
<1>3. FlightsInv'
  BY <1>1 DEF CachesInv, FlightsInv
<1>t. /\ shown \in Nat /\ settled \in [Groups -> Nat]
      /\ \A q \in Reqs : req[q].res.epoch \in Nat /\ flight[q].res.epoch \in Nat
      /\ cache["obs"].res.epoch \in Nat
  BY DEF CachesInv, TypeOK, Request, Flight, Entry, Result, Groups
<1>4. SwitchInv'
  <2>1. (\A g \in Groups : settled[g] <= epoch)'
    BY <1>1, <1>t DEF CachesInv, SwitchInv
  <2>2. (\A q \in Reqs : req[q].pc \in {"clearHealth", "clearObs"}
                           => req[q].res.epoch <= epoch)'
    BY <1>1, <1>t DEF CachesInv, SwitchInv
  <2>3. SwitchReflected'
    BY <1>1 DEF CachesInv, SwitchInv, SwitchReflected
  <2> QED
    BY <2>1, <2>2, <2>3, <1>1 DEF CachesInv, SwitchInv
<1>5. StatusInv'
  <2>1. (/\ shown <= epoch
         /\ cache["obs"].valid => /\ shown <= cache["obs"].res.epoch
                                  /\ cache["obs"].res.epoch <= epoch)'
    BY <1>1, <1>t DEF CachesInv, StatusInv
  <2>2. (\A q \in Reqs : flight[q].pc = "returned" /\ req[q].group = "obs" =>
           /\ shown <= flight[q].res.epoch
           /\ flight[q].res.epoch <= epoch
           /\ cache["obs"].valid => cache["obs"].res.epoch <= flight[q].res.epoch)'
    BY <1>1, <1>t DEF CachesInv, StatusInv
  <2>3. StatusesNeverGoBack'
    BY <1>1 DEF CachesInv, StatusInv, StatusesNeverGoBack, At
  <2> QED
    BY <2>1, <2>2, <2>3, <1>1 DEF CachesInv, StatusInv
<1>6. EmptyInv' /\ KindInv'
  BY <1>1 DEF CachesInv, EmptyInv, KindInv
<1> QED
  BY <1>2, <1>3, <1>4, <1>5, <1>6 DEF CachesInv

\* Every step of the requests, their calls, the clock and Xray keeps the
\* invariant.
LEMMA InvStep == CachesInv /\ [Next]_vars => CachesInv'
<1> SUFFICES ASSUME CachesInv, [Next]_vars PROVE CachesInv'
  OBVIOUS
<1>1. ASSUME NEW r \in Reqs, Step(r) PROVE CachesInv'
  BY <1>1, BeginKeeps, BalancerInfoKeeps, ReadKeeps, DoKeeps, ReadBackKeeps,
     WriteHealthKeeps, RecheckKeeps, XrayAnswersKeeps, StoreKeeps, ReturnKeeps,
     OverrideKeeps, ClearKeeps, Zenon DEF Step
<1>2. CASE Tick \/ Drift \/ UNCHANGED vars
  BY <1>2, ClockKeeps
<1> QED
  BY <1>1, <1>2 DEF Next, Finished

-----------------------------------------------------------------------------
\* The invariant holds in every reachable state, whatever the number of
\* requests and the times to live.
THEOREM CachesInvCorrect == Spec => []CachesInv
BY InvInit, InvStep, PTL DEF Spec

\* Every variable keeps its type, and a key always names a call that runs.
THEOREM CachesTypes == Spec => []TypeOK
<1>1. CachesInv => TypeOK
  BY DEF CachesInv
<1> QED
  BY <1>1, CachesInvCorrect, PTL

\* A switch is reflected: handleSwitchOutbound's invalidations leave nothing
\* older than the override in the caches, but for a result that was on its way.
THEOREM SwitchIsReflected == Spec => []SwitchReflected
<1>1. CachesInv => SwitchReflected
  BY DEF CachesInv, SwitchInv
<1> QED
  BY <1>1, CachesInvCorrect, PTL

\* Statuses never go back: one call at a time fills the cache.
THEOREM StatusesOnlyAdvance == Spec => []StatusesNeverGoBack
<1>1. CachesInv => StatusesNeverGoBack
  BY DEF CachesInv, StatusInv
<1> QED
  BY <1>1, CachesInvCorrect, PTL

-----------------------------------------------------------------------------
(* How old a result is when it is looked at *)

\* A result that was stored is no newer than what the cache holds, and whoever
\* found its entry expired has waited out the time to live.
AgeInv ==
  /\ \A g \in Groups : /\ cache[g].at <= now
                       /\ g # "health" /\ cache[g].valid => cache[g].ttl = ObsTTL
  /\ \A r \in Reqs : flight[r].pc = "stored" =>
       /\ flight[r].at <= now
       /\ cache[req[r].group].valid => flight[r].at <= cache[req[r].group].at
  /\ \A r \in Reqs : req[r].pc = "back" =>
       /\ req[r].since <= now
       /\ cache[req[r].group].valid => req[r].since <= cache[req[r].group].at
  /\ \A r \in Reqs : req[r].answer = "expired" =>
       req[r].pc = "done" /\ now - req[r].since >= ObsTTL

\* A step that stores nothing in the two shared caches and sends nobody to look
\* at them keeps the ages.  (Every step but Store, Return and ReadBack.)
LEMMA AgeFrame ==
  ASSUME CachesInv, AgeInv, TypeOK', now <= now',
         \A g \in Groups : cache'[g].at <= now',
         \A g \in Groups : g # "health" => cache'[g] = cache[g] \/ ~cache'[g].valid,
         \A q \in Reqs : flight'[q].pc = "stored" =>
           /\ flight[q].pc = "stored" /\ flight'[q].at = flight[q].at
           /\ req'[q].group = req[q].group,
         \A q \in Reqs : req'[q].pc = "back" =>
           /\ req[q].pc = "back" /\ req'[q].since = req[q].since
           /\ req'[q].group = req[q].group,
         \A q \in Reqs : req'[q].answer = "expired" =>
           /\ req[q].answer = "expired" /\ req'[q].pc = "done"
           /\ req'[q].since = req[q].since
  PROVE  AgeInv'
<1>t. /\ now \in Nat /\ now' \in Nat /\ ObsTTL \in Nat
      /\ \A q \in Reqs : /\ req[q].since \in Nat /\ flight[q].at \in Nat
                         /\ req[q].group \in Groups
  BY CachesAssumption DEF CachesInv, TypeOK, Request, Flight
<1>1. (\A g \in Groups : /\ cache[g].at <= now
                         /\ g # "health" /\ cache[g].valid => cache[g].ttl = ObsTTL)'
  BY DEF AgeInv
<1>2. (\A r \in Reqs : flight[r].pc = "stored" =>
       /\ flight[r].at <= now
       /\ cache[req[r].group].valid => flight[r].at <= cache[req[r].group].at)'
  BY <1>t DEF AgeInv, CachesInv, FlightsInv
<1>3. (\A r \in Reqs : req[r].pc = "back" =>
       /\ req[r].since <= now
       /\ cache[req[r].group].valid => req[r].since <= cache[req[r].group].at)'
  BY <1>t DEF AgeInv, CachesInv, EmptyInv
<1>4. (\A r \in Reqs : req[r].answer = "expired" =>
       req[r].pc = "done" /\ now - req[r].since >= ObsTTL)'
  BY <1>t DEF AgeInv
<1> QED
  BY <1>1, <1>2, <1>3, <1>4 DEF AgeInv

\* Obtain hands a request the answer it is told, or sends it to the next cache.
LEMMA ObtainEffect ==
  ASSUME CachesInv, NEW r \in Reqs, NEW res, NEW answer, Obtain(r, res, answer)
  PROVE  /\ \A q \in Reqs : q # r => req'[q] = req[q]
         /\ req'[r].pc \in {"read", "done"} /\ req'[r].since = req[r].since
         /\ \/ req'[r].answer = req[r].answer
            \/ req'[r].answer = answer /\ req'[r].pc = "done"
<1>1. req[r] \in Request
  BY DEF CachesInv, TypeOK
<1>2. req' = [req EXCEPT ![r] =
         IF req[r].kind = "current" /\ req[r].group = "obs" /\ answer = "data"
         THEN [req[r] EXCEPT !.pc = "read", !.group = "excluded", !.res = res]
         ELSE [req[r] EXCEPT !.pc = "done", !.res = res, !.answer = answer]]
  BY DEF Obtain
<1>3. \/ req'[r] = [req[r] EXCEPT !.pc = "read", !.group = "excluded", !.res = res]
      \/ req'[r] = [req[r] EXCEPT !.pc = "done", !.res = res, !.answer = answer]
  BY <1>2 DEF CachesInv, TypeOK
<1>4. \A q \in Reqs : q # r => req'[q] = req[q]
  BY <1>2 DEF CachesInv, TypeOK
<1> QED
  BY <1>1, <1>3, <1>4 DEF Request

\* Two calls of a cache never run at once: what is being stored has no rival.
LEMMA AgeStep == CachesInv /\ CachesInv' /\ AgeInv /\ [Next]_vars => AgeInv'
<1> SUFFICES ASSUME CachesInv, CachesInv', AgeInv, [Next]_vars PROVE AgeInv'
  OBVIOUS
<1>t. /\ TypeOK /\ TypeOK' /\ now \in Nat /\ now' \in Nat /\ ObsTTL \in Nat
      /\ \A q \in Reqs : /\ req[q] \in Request /\ req[q].since \in Nat
                         /\ flight[q] \in Flight /\ flight[q].at \in Nat
                         /\ req[q].group \in Groups
      /\ \A g \in Groups : cache[g] \in Entry /\ cache[g].at \in Nat
  BY CachesAssumption DEF CachesInv, TypeOK, Request, Flight, Entry
<1>p. \A q \in Reqs : req[q].answer = "expired" => req[q].pc = "done"
  BY DEF AgeInv
<1>a. \A g \in Groups : cache[g].at <= now
  BY DEF AgeInv
<1>1. ASSUME NEW r \in Reqs, (\E k \in Kinds : Begin(r, k)) \/ BalancerInfo(r) \/ Override(r)
      PROVE  AgeInv'
  <2>1. /\ UNCHANGED <<now, cache, flight>> /\ req[r].pc \in {"new", "info", "override"}
        /\ \A q \in Reqs : q # r => req'[q] = req[q]
    BY <1>1 DEF Begin, BalancerInfo, Override, At, CachesInv, TypeOK
  <2>2. req'[r].pc # "back" /\ req'[r].answer # "expired"
    <3>1. req[r] \in Request /\ req[r].answer # "expired"
      BY <2>1, <1>t, <1>p
    <3>2. CASE \E k \in Kinds : Begin(r, k)
      BY <3>1, <3>2 DEF Begin, CachesInv, TypeOK, Request
    <3>3. CASE BalancerInfo(r)
      BY <3>1, <3>3 DEF BalancerInfo, CachesInv, TypeOK, Request
    <3>4. CASE Override(r)
      BY <3>1, <3>4 DEF Override, CachesInv, TypeOK, Request
    <3> QED
      BY <1>1, <3>2, <3>3, <3>4
  <2>3. flight[r].pc # "stored"
    BY <2>1 DEF CachesInv, FlightsInv
  <2> QED
    BY <2>1, <2>2, <2>3, <1>t, <1>p, <1>a, AgeFrame
<1>2. ASSUME NEW r \in Reqs, Read(r) PROVE AgeInv'
  <2>1. UNCHANGED <<now, cache, flight>> /\ req[r].pc = "read"
    BY <1>2 DEF Read, At
  <2>2. /\ \A q \in Reqs : q # r => req'[q] = req[q]
        /\ req'[r].pc # "back" /\ req'[r].answer # "expired"
    <3>1. CASE Obtain(r, cache[req[r].group].res, Outcome(cache[req[r].group].res))
      <4>1. Outcome(cache[req[r].group].res) # "expired"
        BY DEF Outcome
      <4> QED
        BY <3>1, <4>1, <2>1, <1>p, ObtainEffect
    <3>2. CASE req' = [req EXCEPT ![r].pc = "do"]
      BY <3>2, <2>1, <1>t, <1>p DEF CachesInv, TypeOK, Request
    <3> QED
      BY <1>2, <3>1, <3>2 DEF Read
  <2>3. flight[r].pc # "stored"
    BY <2>1 DEF CachesInv, FlightsInv
  <2> QED
    BY <2>1, <2>2, <2>3, <1>t, <1>p, <1>a, AgeFrame
<1>3. ASSUME NEW r \in Reqs, Do(r) PROVE AgeInv'
  <2>1. /\ UNCHANGED <<now, cache>> /\ req[r].pc = "do"
        /\ \A q \in Reqs : q # r => req'[q] = req[q] /\ flight'[q] = flight[q]
    BY <1>3 DEF Do, At, CachesInv, TypeOK
  <2>2. /\ req'[r].pc = "wait" /\ req'[r].answer = req[r].answer
    <3>1. req' = [req EXCEPT ![r] = [req[r] EXCEPT !.pc = "wait",
                   !.on = IF Leads(r) THEN r ELSE key[req[r].group]]]
      BY <1>3 DEF Do
    <3> QED
      BY <3>1, <1>t DEF CachesInv, TypeOK, Request
  <2>3. flight[r].pc # "stored"
    BY <2>1 DEF CachesInv, FlightsInv
  <2>4. flight'[r].pc # "stored"
    BY <1>3, <1>t, <2>3 DEF Do, CachesInv, TypeOK, Flight
  <2> QED
    BY <2>1, <2>2, <2>4, <1>t, <1>p, <1>a, AgeFrame
<1>4. ASSUME NEW r \in Reqs, ReadBack(r) PROVE AgeInv'
  <2> DEFINE g == req[r].group
  <2>1. UNCHANGED <<now, cache, flight>> /\ req[r].pc = "back" /\ g # "health"
    BY <1>4 DEF ReadBack, At, CachesInv, EmptyInv
  <2>2. PICK res, answer : /\ Obtain(r, res, answer)
                           /\ answer = "expired" => cache[g].valid /\ ~Fresh(g)
    BY <1>4 DEF ReadBack, Outcome
  <2>3. /\ \A q \in Reqs : q # r => req'[q] = req[q]
        /\ req'[r].pc # "back" /\ req'[r].since = req[r].since
        /\ req'[r].answer = "expired" => req'[r].pc = "done" /\ answer = "expired"
    BY <2>1, <2>2, <1>p, ObtainEffect
  <2>4. req'[r].answer = "expired" => now - req[r].since >= ObsTTL
    BY <2>1, <2>2, <2>3, <1>t DEF Fresh, AgeInv
  <2>5. flight[r].pc # "stored"
    BY <2>1 DEF CachesInv, FlightsInv
  <2> QED
    BY <2>1, <2>3, <2>4, <2>5, <1>t DEF AgeInv
<1>5. ASSUME NEW r \in Reqs, WriteHealth(r) PROVE AgeInv'
  <2>1. /\ UNCHANGED <<now, flight>> /\ req[r].pc = "write"
        /\ \A q \in Reqs : q # r => req'[q] = req[q]
        /\ \A h \in Groups : h # "health" => cache'[h] = cache[h]
        /\ cache'["health"].at = now
    BY <1>5 DEF WriteHealth, At, CachesInv, TypeOK, Groups
  <2>2. req'[r].pc = "done" /\ req'[r].answer # "expired"
    BY <1>5, <1>t DEF WriteHealth, Outcome, CachesInv, TypeOK, Request
  <2>3. flight[r].pc # "stored"
    BY <2>1 DEF CachesInv, FlightsInv
  <2> QED
    BY <2>1, <2>2, <2>3, <1>t, <1>p, <1>a, AgeFrame
<1>6. ASSUME NEW r \in Reqs, NEW g \in Groups, NEW res \in Result, NEW err \in BOOLEAN,
             Land(r, g, res, err), flight[r].pc # "none", req[r].group = g,
             g # "health" => flight[r].pc = "stored"
      PROVE  AgeInv'
  <2>1. /\ UNCHANGED <<now, cache>> /\ flight'[r].pc = "none"
        /\ \A q \in Reqs : q # r => flight'[q] = flight[q]
        /\ \A q \in Reqs : req[q].pc = "wait" /\ req[q].on = r =>
              req'[q].group = g /\ req[q].group = g
        /\ \A q \in Reqs : ~(req[q].pc = "wait" /\ req[q].on = r) => req'[q] = req[q]
    <3>1. UNCHANGED <<now, cache>>
      BY <1>6 DEF Land
    <3>2. \A q \in Reqs : req[q].pc = "wait" /\ req[q].on = r => req[q].group = g
      BY <1>6 DEF CachesInv, FlightsInv
    <3> QED
      BY <1>6, <3>1, <3>2, LandEffect
  <2>2. ASSUME NEW q \in Reqs, req[q].pc = "wait", req[q].on = r
        PROVE  /\ req'[q].answer # "expired"
               /\ req'[q].pc = "back" => g # "health" /\ req'[q].since = flight[r].at
    <3>1. req'[q] = IF g = "health"
                    THEN [req[q] EXCEPT !.pc = "write", !.on = None, !.res = res,
                                        !.answer = IF err THEN "error" ELSE "none"]
                    ELSE [req[q] EXCEPT !.pc = "back", !.on = None,
                                        !.since = flight[r].at, !.cut = flight[r].cut]
      BY <2>2, <1>6 DEF Land, At
    <3>2. req[q] \in Request /\ req[q].answer # "expired"
      BY <2>2, <1>t, <1>p
    <3> QED
      BY <3>1, <3>2 DEF Request
  <2>3. \A q \in Reqs : req'[q].group = req[q].group
    BY <2>1
  <2>4. (\A q \in Reqs : flight[q].pc = "stored" =>
         /\ flight[q].at <= now
         /\ cache[req[q].group].valid => flight[q].at <= cache[req[q].group].at)'
    BY <2>1, <2>3 DEF AgeInv
  <2>5. (\A q \in Reqs : req[q].pc = "back" =>
         /\ req[q].since <= now
         /\ cache[req[q].group].valid => req[q].since <= cache[req[q].group].at)'
    BY <2>1, <2>2, <2>3, <1>6 DEF AgeInv
  <2>6. (\A q \in Reqs : req[q].answer = "expired" =>
         req[q].pc = "done" /\ now - req[q].since >= ObsTTL)'
    BY <2>1, <2>2 DEF AgeInv
  <2> QED
    BY <2>1, <2>4, <2>5, <2>6 DEF AgeInv
<1>7. ASSUME NEW r \in Reqs, Recheck(r) PROVE AgeInv'
  <2>1. CASE Land(r, "health", cache["health"].res, FALSE)
    <3>1. req[r].group = "health" /\ flight[r].pc = "recheck"
      BY <1>7 DEF Recheck, CachesInv, FlightsInv
    <3>2. cache["health"].res \in Result /\ "health" \in Groups
      BY <1>t DEF Groups, Entry
    <3> QED
      BY <2>1, <3>1, <3>2, <1>6
  <2>2. CASE flight' = [flight EXCEPT ![r].pc = "calling"] /\ UNCHANGED <<now, cache, req>>
    <3>1. /\ flight'[r].pc # "stored" /\ \A q \in Reqs : q # r => flight'[q] = flight[q]
      BY <2>2, <1>t DEF CachesInv, TypeOK, Flight
    <3> QED
      BY <2>2, <3>1, <1>t, <1>p, <1>a, AgeFrame
  <2> QED
    BY <1>7, <2>1, <2>2 DEF Recheck
<1>8. ASSUME NEW r \in Reqs, XrayAnswers(r) PROVE AgeInv'
  <2>1. /\ flight'[r].pc # "stored" /\ \A q \in Reqs : q # r => flight'[q] = flight[q]
        /\ UNCHANGED <<now, cache, req>>
    BY <1>8, <1>t DEF XrayAnswers, CachesInv, TypeOK, Flight
  <2> QED
    BY <2>1, <1>t, <1>p, <1>a, AgeFrame
<1>9. ASSUME NEW r \in Reqs, Store(r) PROVE AgeInv'
  <2> DEFINE g == req[r].group
  <2>1. /\ UNCHANGED <<now, req>> /\ g # "health"
        /\ \A h \in Groups : h # g => cache'[h] = cache[h]
        /\ cache'[g].at = now /\ cache'[g].ttl = ObsTTL
        /\ \A q \in Reqs : q # r => flight'[q] = flight[q]
    BY <1>9, <1>t DEF Store, CachesInv, TypeOK
  <2>2. flight'[r].at = now
    BY <1>9, <1>t DEF Store, CachesInv, TypeOK, Flight
  <2>3. (\A q \in Reqs : req[q].pc = "back" =>
         /\ req[q].since <= now
         /\ cache[req[q].group].valid => req[q].since <= cache[req[q].group].at)'
    BY <2>1, <1>t DEF AgeInv
  <2>4. (\A q \in Reqs : flight[q].pc = "stored" =>
         /\ flight[q].at <= now
         /\ cache[req[q].group].valid => flight[q].at <= cache[req[q].group].at)'
    BY <2>1, <2>2, <1>t DEF AgeInv
  <2> QED
    BY <2>1, <2>3, <2>4, <1>t DEF AgeInv
<1>10. ASSUME NEW r \in Reqs, Return(r) PROVE AgeInv'
  <2>1. Land(r, req[r].group, flight[r].res, ~flight[r].res.ok) /\ flight[r].pc # "none"
        /\ (req[r].group # "health" => flight[r].pc = "stored")
    BY <1>10 DEF Return, Returned
  <2>2. flight[r].res \in Result /\ (~flight[r].res.ok) \in BOOLEAN
    BY <1>t DEF Flight, Result
  <2> QED
    BY <2>1, <2>2, <1>6, <1>t
<1>11. ASSUME NEW r \in Reqs, ClearHealth(r) \/ ClearObs(r) PROVE AgeInv'
  <2>1. PICK g \in Groups, next \in Request :
          /\ Invalidate(g, r, next) /\ req[r].pc \in {"clearHealth", "clearObs"}
          /\ next.pc # "back" /\ next.answer # "expired" /\ next.group = req[r].group
    <3> DEFINE h == [req[r] EXCEPT !.pc = "clearObs"]
               o == [req[r] EXCEPT !.pc = "done", !.answer = "data"]
    <3>1. /\ h \in Request /\ h.pc = "clearObs" /\ h.answer = req[r].answer
          /\ h.group = req[r].group
          /\ o \in Request /\ o.pc = "done" /\ o.answer = "data"
          /\ o.group = req[r].group
      BY <1>t DEF Request
    <3>2. CASE ClearHealth(r)
      <4>1. /\ Invalidate("health", r, h) /\ req[r].pc = "clearHealth"
            /\ h.answer # "expired"
        BY <3>1, <3>2, <1>p DEF ClearHealth, At
      <4> QED
        BY <3>1, <4>1, Zenon DEF Groups
    <3>3. CASE ClearObs(r)
      <4>1. Invalidate("obs", r, o) /\ req[r].pc = "clearObs"
        BY <3>3 DEF ClearObs, At
      <4> QED
        BY <3>1, <4>1, Zenon DEF Groups
    <3> QED
      BY <1>11, <3>2, <3>3
  <2>2. /\ UNCHANGED now /\ req'[r] = next
        /\ cache' = [cache EXCEPT ![g] = NoEntry]
    BY <2>1 DEF Invalidate
  <2>3. /\ ~cache'[g].valid /\ cache'[g].at = 0
        /\ \A h \in Groups : h # g => cache'[h] = cache[h]
    BY <2>2, <1>t DEF CachesInv, TypeOK, NoEntry
  <2>4. ASSUME NEW q \in Reqs, q # r
        PROVE  /\ req'[q].pc = req[q].pc /\ req'[q].since = req[q].since
               /\ req'[q].group = req[q].group /\ req'[q].answer = req[q].answer
    <3> DEFINE R == [req[q].res EXCEPT !.raced = @ \/ At(q, "write")]
               C == req[q].cut \/ At(q, "back")
    <3>1. req'[q] = IF req[q].group # g THEN req[q]
                    ELSE [req[q] EXCEPT !.res = R, !.cut = C]
      BY <2>1, <2>4 DEF Invalidate
    <3> HIDE DEF R, C
    <3> QED
      BY <3>1, <1>t DEF Request
  <2>5. ASSUME NEW q \in Reqs
        PROVE  flight'[q].pc = flight[q].pc /\ flight'[q].at = flight[q].at
    <3> DEFINE R == [flight[q].res EXCEPT !.raced = @ \/ flight[q].pc = "returned"]
               C == flight[q].pc = "stored"
    <3>1. flight'[q] = IF req[q].group # g THEN flight[q]
                       ELSE [flight[q] EXCEPT !.res = R, !.cut = C]
      BY <2>1 DEF Invalidate
    <3> HIDE DEF R, C
    <3> QED
      BY <3>1, <1>t DEF Flight
  <2>6. \A h \in Groups : cache'[h].at <= now'
    BY <2>2, <2>3, <1>a, <1>t
  <2>7. \A h \in Groups : h # "health" => cache'[h] = cache[h] \/ ~cache'[h].valid
    BY <2>3
  <2>8. \A q \in Reqs : flight'[q].pc = "stored" =>
           /\ flight[q].pc = "stored" /\ flight'[q].at = flight[q].at
           /\ req'[q].group = req[q].group
    BY <2>1, <2>2, <2>4, <2>5
  <2>9. \A q \in Reqs : req'[q].pc = "back" =>
           /\ req[q].pc = "back" /\ req'[q].since = req[q].since
           /\ req'[q].group = req[q].group
    BY <2>1, <2>2, <2>4
  <2>10. \A q \in Reqs : req'[q].answer = "expired" =>
           /\ req[q].answer = "expired" /\ req'[q].pc = "done"
           /\ req'[q].since = req[q].since
    BY <2>1, <2>2, <2>4, <1>p
  <2> QED
    BY <2>2, <2>6, <2>7, <2>8, <2>9, <2>10, <1>t, AgeFrame
<1>12. CASE Tick \/ Drift \/ UNCHANGED vars
  <2>1. now <= now' /\ UNCHANGED <<cache, flight, req>>
    BY <1>12, <1>t DEF Tick, Drift, vars
  <2>2. \A h \in Groups : cache[h].at <= now'
    BY <2>1, <1>a, <1>t
  <2> QED
    BY <2>1, <2>2, <1>t, <1>p, AgeFrame
<1>13. ASSUME NEW r \in Reqs, Step(r) PROVE AgeInv'
  BY <1>13, <1>1, <1>2, <1>3, <1>4, <1>5, <1>7, <1>8, <1>9, <1>10, <1>11, Zenon DEF Step
<1> QED
  BY <1>12, <1>13 DEF Next, Finished

\* Results have the ages AgeInv claims, in every reachable state.
THEOREM AgesCorrect == Spec => []AgeInv
<1>1. Init => AgeInv
  BY DEF Init, AgeInv, NoEntry, NoFlight, NewReq
<1> QED
  BY <1>1, CachesInvCorrect, AgeStep, PTL DEF Spec

\* Only a switch, or the time to live, leaves a caller of a coalesced fetch
\* without data: getAllOutboundStatuses and buildExcludedTags look at the cache
\* a second time after the call (handleroutbound.go:226-232, 381-387).
THEOREM OnlySwitchOrExpiryEmpties == Spec => []EmptyOnlyClearedOrExpired
<1>1. CachesInv /\ AgeInv => EmptyOnlyClearedOrExpired
  BY DEF CachesInv, EmptyInv, AgeInv, EmptyOnlyClearedOrExpired
<1> QED
  BY <1>1, CachesInvCorrect, AgesCorrect, PTL

=============================================================================
