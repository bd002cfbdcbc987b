------------------------------ MODULE Browser ------------------------------
(***************************************************************************)
(* The page (frontend/network.js): initializePage, which several events    *)
(* may start while an earlier one is waiting for an answer, the polling    *)
(* it leaves behind, and the statuses that the server caches for it        *)
(* (server/handleroutbound.go).  An answer of the server and what the page *)
(* does with it are one step; between two awaits anything else may run.    *)
(***************************************************************************)
EXTENDS Outbounds, FiniteSets

CONSTANTS
  Inits,          \* concurrent calls of initializePage, each with its polling
  None,
  XrayOutbounds,  \* the outbounds of Xray, in its order
  TagOrder,       \* the tags in the order of localeCompare
  Targets,        \* what the user may switch to
  Observed,       \* the tags its observatory knows, in its order
  Finds,          \* tag -> what a probe may find of it
  FirstFound,     \* statuses when the page is opened
  MaxRounds,      \* maxRounds of the polling
  MaxProbes,      \* bound on the changes of the statuses
  MaxReloads      \* bound on the reloads scheduled at a time

ASSUME BrowserAssumption ==
  /\ None \notin Inits
  /\ XrayOutbounds \in Seq(OutboundHandlerConfig)
  /\ Observed \in Seq(STRING)
  /\ TagOrder \in Seq(STRING)
  /\ MaxRounds \in Nat \ {0}
  /\ MaxProbes \in Nat
  /\ MaxReloads \in Nat \ {0}

\* What Xray guarantees: it refuses a second outbound with a tag that is taken,
\* and its observatory probes tagged outbounds.  Every listed tag has its place
\* in the order.
ASSUME XrayAssumption ==
  /\ \A o, p \in ToSet(XrayOutbounds) : o.tag = p.tag /\ o.tag # "" => o = p
  /\ \A t \in ToSet(Observed) :
       t # "" /\ \E o \in ToSet(XrayOutbounds) : o.tag = t
  /\ Listed(XrayOutbounds) \subseteq ToSet(TagOrder)

VARIABLES
  found,      \* history, what the observatory has found, tag -> status; last: now
  override,   \* target of the balancer's override, "" for none
  cached,     \* obsCache: {n} for found[n], {0} for no data, {} when not fresh
  init,       \* the calls of initializePage
  pageReady,
  didInitialAutoSelect,
  polling,    \* the polling each call has started
  postInit,   \* _postInitTimer: whose timer it names
  retryTimer, \* showRetryUI's countdown runs
  reloads     \* reloads that applyOutboundChange has scheduled

pageVars == <<init, pageReady, didInitialAutoSelect, polling, postInit, retryTimer,
              reloads>>
serverVars == <<found, override, cached>>
vars == <<pageVars, serverVars>>

\* auto, active: the answer of /api/current-outbound; list: that of
\* /api/outbounds; button: started by the refresh button.  History: failed: no
\* answer; blind: the server lacked the excluded tags; asOf: the statuses it chose
\* from, 0 for none; seen: those the page has compared with.
Call == [pc : {"none", "load", "statuses", "modal", "apply", "again", "done"},
         current : BOOLEAN, listed : BOOLEAN, list : Seq(STRING),
         auto : BOOLEAN, active : {""} \cup ToSet(Observed), button : BOOLEAN,
         failed : BOOLEAN, blind : BOOLEAN, asOf : Nat, seen : Nat]
NoCall == [pc |-> "none", current |-> FALSE, listed |-> FALSE, list |-> <<>>,
           auto |-> TRUE, active |-> "", button |-> FALSE,
           failed |-> FALSE, blind |-> FALSE, asOf |-> 0, seen |-> 0]

\* escaped: history, stopPostInitPolling met it in the middle of a round, or such
\* a one has taken its place in _postInitTimer: nothing stops it any more.
Polling == [pc : {"none", "timer", "round", "ended"}, round : 0..MaxRounds,
            escaped : BOOLEAN]
NoPolling == [pc |-> "none", round |-> 0, escaped |-> FALSE]

\* handleGetCurrentOutbound's current; "" when the balancer, its override or the
\* target is missing: the choice is the balancer's.
OverrideInfo == {""} \cup Targets

Statuses == [alive : BOOLEAN, delay : Nat]

ASSUME FoundAssumption ==
  /\ FirstFound \subseteq [ToSet(Observed) -> Statuses]
  /\ Finds \in [ToSet(Observed) -> SUBSET Statuses]

\* The statuses of found[n] as the server answers them, none for 0.
Reported(n) ==
  IF n = 0 THEN <<>>
  ELSE [i \in 1..Len(Observed) |->
          [tag |-> Observed[i], alive |-> found[n][Observed[i]].alive,
           delay |-> found[n][Observed[i]].delay]]

TypeOK ==
  /\ found \in Seq([ToSet(Observed) -> Statuses])
  /\ Len(found) \in 1..(MaxProbes + 1)
  /\ override \in OverrideInfo
  /\ cached \in {{}} \cup {{n} : n \in 0..Len(found)}
  /\ init \in [Inits -> Call]
  /\ pageReady \in BOOLEAN
  /\ didInitialAutoSelect \in BOOLEAN
  /\ polling \in [Inits -> Polling]
  /\ postInit \in Inits \cup {None}
  /\ retryTimer \in BOOLEAN
  /\ reloads \in 0..MaxReloads

\* window.onload: loadConfig, whose answer only fills in the balancer's tag and
\* shows the log tab, then initializePage.
Init ==
  /\ \E first \in FirstFound : found = <<first>>
  /\ override = ""
  /\ cached = {}
  /\ init = [i \in Inits |-> NoCall]
  /\ pageReady = FALSE
  /\ didInitialAutoSelect = FALSE
  /\ polling = [i \in Inits |-> NoPolling]
  /\ postInit = None
  /\ retryTimer = FALSE
  /\ reloads = 1

-----------------------------------------------------------------------------
(* The server *)

\* getAllOutboundStatuses answers Reported(n): from the cache, or with what it
\* fetches and stores, or without data: the fetch fails, or the cache expires
\* between the write and the read.
AllStatuses(n) ==
  \/ cached = {n} /\ UNCHANGED cached
  \/ cached = {} /\ n \in {0, Len(found)} /\ cached' = {n}
  \/ cached = {} /\ n = 0 /\ UNCHANGED cached

\* /api/outbounds-status as the page sees it, with no statuses for a failure.
OutboundsStatus(n) ==
  \/ AllStatuses(n)
  \/ n = 0 /\ (UNCHANGED cached \/ \E m \in 0..Len(found) : AllStatuses(m))

\* observatoryCacheTTL has passed.
ObsExpires ==
  /\ cached # {}
  /\ cached' = {}
  /\ UNCHANGED <<pageVars, found, override>>

\* handleSwitchOutbound for a valid tag succeeds; or it fails, although Xray may
\* have done what it was asked.
SwitchDone(tag) == override' = tag /\ cached' = {}
SwitchFailed(tag) == override' \in {tag, override} /\ UNCHANGED cached

-----------------------------------------------------------------------------
(* Polling *)

\* A mistake: the timer is forgotten but not cleared.
BugStopPolling(p) == p
\* stopPostInitPolling: a round that is waiting for its answers goes on.
StopPolling(p) ==
  [i \in Inits |->
     CASE i = postInit /\ p[i].pc = "timer" -> [p[i] EXCEPT !.pc = "ended"]
       [] p[i].pc = "round" -> [p[i] EXCEPT !.escaped = TRUE]
       [] OTHER -> p[i]]

MayPoll(p) == pageReady /\ p.round < MaxRounds
\* A mistake: the rounds are not counted.
BugNextRound(p) == p.round
NextRound(p) == p.round + 1

PollTimer(i) ==
  /\ polling[i].pc = "timer"
  /\ polling' = [polling EXCEPT ![i] =
       IF MayPoll(@)
       THEN [@ EXCEPT !.pc = "round", !.round = NextRound(polling[i])]
       ELSE [@ EXCEPT !.pc = "ended"]]
  /\ UNCHANGED <<serverVars, init, pageReady, didInitialAutoSelect, postInit,
                 retryTimer, reloads>>

\* progressiveLoadStatuses: a node without a status counts as dead.
OfNodes(list, reported) ==
  [i \in 1..Len(list) |->
     LET k == SelectInSeq(reported, LAMBDA st : st.tag = list[i]) IN
     IF k = 0 THEN [tag |-> list[i], alive |-> FALSE, delay |-> 0]
     ELSE reported[k]]

PollAnswered(i) ==
  /\ polling[i].pc = "round"
  /\ \E n \in 0..Len(found) :
       /\ OutboundsStatus(n)
       /\ IF FindBestNode(OfNodes(init[i].list, Reported(n))) # ""
          THEN /\ polling' = [polling EXCEPT ![i].pc = "ended"]
               /\ UNCHANGED postInit
          ELSE /\ polling' = [k \in Inits |->
                    CASE k = i -> [polling[k] EXCEPT !.pc = "timer"]
                      [] k # i /\ k = postInit -> [polling[k] EXCEPT !.escaped = TRUE]
                      [] OTHER -> polling[k]]
               /\ postInit' = i
  /\ UNCHANGED <<found, override, init, pageReady, didInitialAutoSelect, retryTimer,
                 reloads>>

-----------------------------------------------------------------------------
(* initializePage *)

\* A call and its polling have come to their end, so i can stand for another.
Free(i) == init[i].pc \in {"none", "done"} /\ polling[i].pc \in {"none", "ended"}

Enter(i, button) ==
  /\ Free(i)
  /\ init' = [init EXCEPT ![i] = [NoCall EXCEPT !.pc = "load", !.button = button]]
  /\ polling' = StopPolling([polling EXCEPT ![i] = NoPolling])
  /\ postInit' = None
  /\ pageReady' = FALSE
  /\ didInitialAutoSelect' = FALSE
  /\ UNCHANGED serverVars

\* The page is loaded, or 500 ms have passed since a switch.
Reload(i) ==
  /\ reloads > 0
  /\ reloads' = reloads - 1
  /\ Enter(i, FALSE)
  /\ UNCHANGED retryTimer

\* The countdown of showRetryUI, or its button.
Retry(i) ==
  /\ retryTimer
  /\ retryTimer' = FALSE
  /\ Enter(i, FALSE)
  /\ UNCHANGED reloads

\* The refresh button does nothing while the call it has started runs.
Refresh(i) ==
  /\ \A k \in Inits : ~init[k].button
  /\ Enter(i, TRUE)
  /\ UNCHANGED <<retryTimer, reloads>>

\* Promise.all: the cards are rendered when both answers are there.
Awaiting(pc, other) == IF other THEN "statuses" ELSE pc

\* handleGetCurrentOutbound: the override, or the best node the server finds in
\* the statuses it has; buildExcludedTags knows no tags after a failure.
CurrentArrives(i) ==
  /\ init[i].pc = "load"
  /\ ~init[i].current
  /\ IF override # ""
     THEN /\ init' = [init EXCEPT ![i] =
               [init[i] EXCEPT !.current = TRUE, !.pc = Awaiting(@, init[i].listed),
                               !.auto = FALSE]]
          /\ UNCHANGED cached
     ELSE \E n \in 0..Len(found), excluded \in {ExcludedTags(XrayOutbounds), {}} :
            /\ AllStatuses(n)
            /\ init' = [init EXCEPT ![i] =
                 [init[i] EXCEPT
                    !.current = TRUE, !.pc = Awaiting(@, init[i].listed),
                    !.active = FindBestAvailableNode(Reported(n), excluded),
                    !.blind = excluded # ExcludedTags(XrayOutbounds),
                    !.asOf = n]]
  /\ UNCHANGED <<found, override, pageReady, didInitialAutoSelect, polling, postInit,
                 retryTimer, reloads>>

\* A failure counts as automatic with no active node, whatever the override.
CurrentFails(i) ==
  /\ init[i].pc = "load"
  /\ ~init[i].current
  /\ init' = [init EXCEPT ![i] =
       [init[i] EXCEPT !.current = TRUE, !.pc = Awaiting(@, init[i].listed),
                       !.failed = TRUE]]
  /\ UNCHANGED <<serverVars, pageReady, didInitialAutoSelect, polling, postInit,
                 retryTimer, reloads>>

\* The list is sorted by tag.  As the outbounds stay the same while the page is
\* open, so does fixedNodeOrder, by which later lists are ordered.
Ordered(tags) ==
  LET upto[k \in 0..Len(TagOrder)] ==
        IF k = 0 THEN <<>>
        ELSE IF TagOrder[k] \in tags THEN Append(upto[k - 1], TagOrder[k])
        ELSE upto[k - 1]
  IN  upto[Len(TagOrder)]

ListArrives(i) ==
  /\ init[i].pc = "load"
  /\ ~init[i].listed
  /\ init' = [init EXCEPT ![i] =
       [init[i] EXCEPT !.listed = TRUE, !.pc = Awaiting(@, init[i].current),
                       !.list = Ordered(Listed(XrayOutbounds))]]
  /\ UNCHANGED <<serverVars, pageReady, didInitialAutoSelect, polling, postInit,
                 retryTimer, reloads>>

\* A mistake: the call just returns.
BugShowRetryUI == retryTimer
ShowRetryUI == TRUE

\* /api/outbounds fails: the retry UI is shown, and the call returns, when the
\* other answer is there too.
ListFails(i) ==
  /\ init[i].pc = "load"
  /\ ~init[i].listed
  /\ init' = [init EXCEPT ![i] = [NoCall EXCEPT !.pc = "done"]]
  /\ retryTimer' = ShowRetryUI
  /\ UNCHANGED <<serverVars, pageReady, didInitialAutoSelect, polling, postInit,
                 reloads>>

\* pageReady = true; startPostInitPolling.
Finish(i) ==
  /\ init' = [init EXCEPT ![i] = [NoCall EXCEPT !.pc = "done", !.list = init[i].list]]
  /\ pageReady' = TRUE
  /\ LET stopped == StopPolling(polling) IN
     IF init[i].list = <<>>
     THEN polling' = stopped /\ postInit' = None
     ELSE /\ polling' = [stopped EXCEPT ![i].pc = "timer"]
          /\ postInit' = i

StatusesArrive(i) ==
  /\ init[i].pc = "statuses"
  /\ \E n \in 0..Len(found) :
       /\ OutboundsStatus(n)
       /\ LET best == FindBestNode(OfNodes(init[i].list, Reported(n)))
              select == best # "" /\ init[i].auto /\ ~didInitialAutoSelect
          IN
          IF select /\ best # init[i].active
          THEN /\ init' = [init EXCEPT ![i] =
                              [init[i] EXCEPT !.pc = "modal", !.seen = n]]
               /\ UNCHANGED <<pageReady, didInitialAutoSelect, polling, postInit>>
          ELSE /\ Finish(i)
               /\ didInitialAutoSelect' = (didInitialAutoSelect \/ select)
  /\ UNCHANGED <<found, override, retryTimer, reloads>>

\* What is left of a call that has asked: the answers it has had are only used to
\* draw the cards once more.
Asked(c, pc) == [NoCall EXCEPT !.pc = pc, !.list = c.list, !.button = c.button]

\* The user confirms, and the override is to be reset, or not.
Answered(i) ==
  /\ init[i].pc = "modal"
  /\ \E pc \in {"apply", "again"} :
       init' = [init EXCEPT ![i] = Asked(init[i], pc)]
  /\ UNCHANGED <<serverVars, pageReady, didInitialAutoSelect, polling, postInit,
                 retryTimer, reloads>>

Applied(i) ==
  /\ init[i].pc = "apply"
  /\ SwitchDone("") \/ SwitchFailed("")
  /\ init' = [init EXCEPT ![i].pc = "again"]
  /\ UNCHANGED <<found, pageReady, didInitialAutoSelect, polling, postInit,
                 retryTimer, reloads>>

StatusesAgain(i) ==
  /\ init[i].pc = "again"
  /\ \E n \in 0..Len(found) : OutboundsStatus(n)
  /\ Finish(i)
  /\ didInitialAutoSelect' = TRUE
  /\ UNCHANGED <<found, override, retryTimer, reloads>>

\* applyOutboundChange from a card or the reset button: the page is reloaded when
\* /api/switch-outbound has succeeded; a failure only shows a message.
Switch(tag) ==
  /\ ValidateOutboundTag(tag)
  /\ \/ SwitchDone(tag) /\ reloads < MaxReloads /\ reloads' = reloads + 1
     \/ SwitchFailed(tag) /\ UNCHANGED reloads
  /\ UNCHANGED <<found, init, pageReady, didInitialAutoSelect, polling, postInit,
                 retryTimer>>

\* The observatory probes a node.
Probe(tag, st) ==
  /\ Len(found) <= MaxProbes
  /\ st # Last(found)[tag]
  /\ found' = Append(found, [Last(found) EXCEPT ![tag] = st])
  /\ UNCHANGED <<pageVars, override, cached>>

-----------------------------------------------------------------------------
PageWork(i) ==
  \/ Reload(i) \/ Retry(i) \/ CurrentArrives(i) \/ CurrentFails(i) \/ ListArrives(i)
  \/ ListFails(i) \/ StatusesArrive(i) \/ Applied(i) \/ StatusesAgain(i)

PollWork(i) == PollTimer(i) \/ PollAnswered(i)

Next ==
  \/ \E i \in Inits : PageWork(i) \/ PollWork(i) \/ Refresh(i) \/ Answered(i)
  \/ \E tag \in Targets : Switch(tag)
  \/ \E tag \in ToSet(Observed) : \E st \in Finds[tag] : Probe(tag, st)
  \/ ObsExpires

\* Timers fire, and requests are answered or fail.
Spec == Init /\ [][Next]_vars
        /\ \A i \in Inits : WF_vars(PollWork(i))

-----------------------------------------------------------------------------
(* Properties *)

\* The page is never stuck half loaded: it is ready, or a call of initializePage
\* is under way, or a timer will start one (network.js:95-151).
NeverStuck ==
  /\ TypeOK
  /\ \/ pageReady
     \/ \E i \in Inits : init[i].pc \notin {"none", "done"}
     \/ retryTimer
     \/ reloads > 0

\* At most one polling is armed, unless the call that should have stopped it met
\* it in the middle of a round (network.js:160-174): then it arms itself again.
OnePolling ==
  Cardinality({i \in Inits : polling[i].pc \in {"timer", "round"}}) > 1
    => \E i \in Inits : polling[i].escaped

\* The polling ends, whatever the server answers, also one that has escaped.
PollingEnds == \A i \in Inits : polling[i].pc = "timer" ~> polling[i].pc = "ended"

\* In the statuses of found[n] the least delay is that of one listed node only.
Clear(list, n) ==
  LET sts == {st \in ToSet(OfNodes(list, Reported(n))) : st.alive /\ st.delay > 0} IN
  \A s, t \in sts : s.delay = t.delay => s = t

\* The page asks whether to go to the best node only when the server has not
\* chosen that very node: if it answered, knew the excluded tags, and chose from
\* statuses as new as those the page compares with, and no two nodes are equally
\* good in them, the page does not ask (network.js:57-76, 129-147 against
\* handleroutbound.go:95-170, with its cache of statuses).
PromptJustified ==
  \A i \in Inits :
    init[i].pc = "modal" /\ Clear(init[i].list, init[i].seen)
      => init[i].failed \/ init[i].blind \/ init[i].asOf < init[i].seen

=============================================================================
