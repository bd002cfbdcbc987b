----------------------------- MODULE Deployment -----------------------------
(***************************************************************************)
(* The process, which stops, crashes and starts again, and a page that     *)
(* stays open meanwhile and keeps its stats stream connected to whatever   *)
(* process is there.                                                       *)
(***************************************************************************)
EXTENDS Lifecycle, StatsClient

siteVars == <<vars, sse>>

SiteTypeOK == TypeOK /\ StreamOK

SiteInit == Init /\ StreamInit

\* Streams are served from the start of the HTTP server until CloseAll.
Serving == main = "serve"

Process == Next /\ UNCHANGED sse
Open == Serving /\ Opened /\ UNCHANGED vars
\* A stream may be lost or refused (the limit of connections, the rate limit)
\* at any time, and does not survive its server.
Lose == Failed /\ UNCHANGED vars
Refused == ~Serving /\ Lose
Again == Reconnect /\ UNCHANGED vars
Click == ButtonClicked /\ UNCHANGED vars

SiteNext == Process \/ Open \/ Lose \/ Again \/ Click

\* Goroutines and timers run, and the browser hears of every attempt; select
\* is fair between two ready channels, so a monitor that is woken again and
\* again still sees its timeout and the shutdown.
SiteSpec ==
  /\ SiteInit
  /\ [][SiteNext]_siteVars
  /\ WF_siteVars(Startup /\ UNCHANGED sse)
  /\ WF_siteVars(Shutdown /\ UNCHANGED sse)
  /\ WF_siteVars(MonitorSteps /\ UNCHANGED sse)
  /\ WF_siteVars(MonitorTick /\ UNCHANGED sse)
  /\ SF_siteVars(MonitorGivesUp /\ UNCHANGED sse)
  /\ SF_siteVars(MonitorEnds /\ UNCHANGED sse)
  /\ WF_siteVars(Open) /\ WF_siteVars(Refused) /\ WF_siteVars(Again)

-----------------------------------------------------------------------------
(* Properties *)

\* The page never has two streams, which would cost the server two of its
\* slots, and is never left without a way to get one: a source, the timer that
\* makes the next, or the button (network.js:229-279).
OneStream ==
  /\ SiteTypeOK
  /\ sse.live <= 1
  /\ sse.source # "null" \/ sse.timer \/ sse.button

\* A stream that was cut off comes back or the user is told, through any number of
\* restarts and refusals (the retries of connectStatsSSE, network.js:250-279).
StreamResumes ==
  sse.source # "open" ~> sse.source = "open" \/ sse.button

=============================================================================
