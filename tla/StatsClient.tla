---------------------------- MODULE StatsClient ----------------------------
(***************************************************************************)
(* The client of the stats stream (connectStatsSSE, frontend/network.js    *)
(* 181-282): an EventSource that is replaced after an error, at most       *)
(* maxRetries times in a row, then only when the user asks for it.         *)
(***************************************************************************)
EXTENDS Integers

CONSTANT MaxRetries   \* maxRetries

ASSUME StatsClientAssumption == MaxRetries \in Nat \ {0}

\* source: evtSource; timer: reconnectTimer is pending; retries: retryCount;
\* button: the banner offers to reconnect; live: EventSources not closed.
VARIABLE sse

Stream == [source : {"null", "connecting", "open"}, timer : BOOLEAN,
           retries : 0..MaxRetries, button : BOOLEAN, live : Nat]
StreamOK == sse \in Stream

\* connectStatsSSE connects at once.
StreamInit == sse = [source |-> "connecting", timer |-> FALSE, retries |-> 0,
                     button |-> FALSE, live |-> 1]

\* A mistake: connect() leaves the old source open.
BugLiveAfter(s) == s.live
LiveAfter(s) == IF s.source = "null" THEN s.live ELSE s.live - 1

NewSource(s) == [s EXCEPT !.timer = FALSE, !.source = "connecting",
                          !.live = LiveAfter(s) + 1]

\* onopen; it hides the banner, with its button, as does every update.
Opened == /\ sse.source = "connecting"
          /\ sse' = [sse EXCEPT !.source = "open", !.retries = 0, !.button = FALSE]

\* showPermanentDisconnect: the banner with its button.
GiveUp(s) == [s EXCEPT !.retries = MaxRetries, !.button = TRUE]

\* A mistake: the failures are not counted.
BugCountRetry(s) == s.retries
CountRetry(s) == s.retries + 1

\* onerror: refused, or cut off.  The delay until the next attempt, doubled each
\* time up to 30 s, only matters as a delay.
Failed ==
  /\ sse.source # "null"
  /\ LET closed == [sse EXCEPT !.source = "null", !.live = @ - 1] IN
     sse' = IF CountRetry(sse) >= MaxRetries THEN GiveUp(closed)
            ELSE [closed EXCEPT !.retries = CountRetry(sse), !.timer = TRUE, !.button = FALSE]

Reconnect == sse.timer /\ sse' = NewSource(sse)

\* The button stays until the stream is open or the next error.
ButtonClicked == sse.button /\ sse' = NewSource([sse EXCEPT !.retries = 0])

=============================================================================
