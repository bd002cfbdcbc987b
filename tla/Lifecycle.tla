----------------------------- MODULE Lifecycle -----------------------------
(***************************************************************************)
(* The life of the process (main.go) over its restarts: the configuration  *)
(* file it reads and may create (config/config.go), the attempts to reach  *)
(* Xray, the reconnect monitor (server/server.go 134-190), the cleanup     *)
(* goroutines of the middleware, and the shutdown.  The process may be     *)
(* killed at any point; only the file survives.  The parts of the shutdown *)
(* that concern the streams are in StatsStream.                            *)
(***************************************************************************)
EXTENDS Integers

CONSTANTS
  UserFiles,    \* what the user may put into the file, see Content
  MaxAttempts,  \* maxRetries of main.go
  MaxStarts     \* bound on the starts of the process

ASSUME LifecycleAssumption ==
  /\ MaxAttempts \in Nat \ {0}
  /\ MaxStarts \in Nat

VARIABLES
  file,      \* the configuration file
  config,    \* what LoadConfig gave this start or, when it has not run, the last
  touched,   \* history: what happened to the file since it was loaded
  main,      \* where main() is
  attempt,   \* failed attempts to connect
  starts,    \* starts so far
  conn,      \* connectivity state of the gRPC connection
  monitor,   \* the goroutine of StartReconnectMonitor
  cancelled, \* shutdownCtx is done
  loops      \* the cleanup goroutines that run, told: those told to stop

procVars == <<main, attempt, starts>>
fileVars == <<file, config, touched>>
runVars == <<monitor, cancelled, loops>>
vars == <<procVars, fileVars, runVars, conn>>

-----------------------------------------------------------------------------
(* Configuration.  host stands for the settings that have a default when they  *)
(* are empty, port for those that are also validated, maxBytes for those that  *)
(* are validated but have a default only when they are not in the file.        *)

Content == [host : {"missing", "", "default", "custom"},
            port : {"missing", "", "default", "custom", "bad"},
            maxBytes : {"missing", "default", "custom", "bad"}]
Default == [host |-> "default", port |-> "default", maxBytes |-> "default"]
Blank == [host |-> "missing", port |-> "missing", maxBytes |-> "missing"]
Absent == [Blank EXCEPT !.host = "absent"]
Garbled == [Blank EXCEPT !.host = "garbled"]   \* yaml.Unmarshal fails
NoConfig == [Blank EXCEPT !.host = "none"]
Rejected == [Blank EXCEPT !.host = "rejected"]

ASSUME UserFilesAssumption == UserFiles \subseteq Content \cup {Garbled}

\* What SaveDefaultConfig writes, and what a write that fails or is interrupted
\* leaves of it: some whole lines, or a last value that is cut short.
Saved == Default
WholeLines == {Blank, [Blank EXCEPT !.host = "default"],
               [Default EXCEPT !.maxBytes = "missing"], Saved}
CutShort == {[Blank EXCEPT !.host = "custom"],
             [Blank EXCEPT !.host = "default", !.port = "custom"],
             [Blank EXCEPT !.host = "default", !.port = "bad"],
             [Default EXCEPT !.maxBytes = "custom"], Garbled}

\* A mistake: the file is decoded into a zero Config.
BugDecoded(c) ==
  [k \in DOMAIN c |-> IF c[k] # "missing" THEN c[k]
                      ELSE IF k = "maxBytes" THEN "bad" ELSE ""]
\* The file is decoded over the defaults, so what it lacks keeps its default.
Decoded(c) == [k \in DOMAIN c |-> IF c[k] = "missing" THEN "default" ELSE c[k]]
ApplyDefault(c) == [c EXCEPT !.host = IF @ = "" THEN "default" ELSE @,
                             !.port = IF @ = "" THEN "default" ELSE @]
ValidateConfig(c) == c.port \notin {"bad", ""} /\ c.maxBytes # "bad"

\* LoadConfig for a file that exists.
Loaded(c) ==
  IF c # Garbled /\ ValidateConfig(ApplyDefault(Decoded(c)))
  THEN ApplyDefault(Decoded(c)) ELSE Rejected

-----------------------------------------------------------------------------
Monitor == [pc : {"none", "select", "check", "reread", "waiting", "ended"},
            notified : BOOLEAN, wasConnected : BOOLEAN]
NoMonitor == [pc |-> "none", notified |-> FALSE, wasConnected |-> TRUE]
NoLoops == [running |-> {}, told |-> {}]

Starting == {"load", "save", "write", "connect", "wait", "backoff", "check"}
Stopping == {"stopSSE", "background", "http", "cleanup"}

Configs == Content \cup {NoConfig, Rejected}

TypeOK ==
  /\ file \in Content \cup {Absent, Garbled}
  /\ config \in Configs
  /\ touched \in {"not", "cut", "edited"}
  /\ main \in Starting \cup Stopping \cup {"down", "serve"}
  /\ attempt \in 0..MaxAttempts
  /\ starts \in 0..MaxStarts
  /\ conn \in {"idle", "connecting", "ready", "failure"}
  /\ monitor \in Monitor
  /\ cancelled \in BOOLEAN
  /\ loops.running \subseteq {"rate", "auth"}
  /\ loops.told \subseteq loops.running

Init ==
  /\ file \in UserFiles \cup {Absent}
  /\ config = NoConfig
  /\ touched = "not"
  /\ main = "down"
  /\ attempt = 0
  /\ starts = 0
  /\ conn = "idle"
  /\ monitor = NoMonitor
  /\ cancelled = FALSE
  /\ loops = NoLoops

\* The process ends; its memory and its connection are gone.
Exit ==
  /\ main' = "down"
  /\ attempt' = 0
  /\ conn' = "idle"
  /\ monitor' = NoMonitor
  /\ cancelled' = FALSE
  /\ loops' = NoLoops
  /\ UNCHANGED starts

-----------------------------------------------------------------------------
(* main() up to ListenAndServe *)

\* GetConfigPath: the path of the flag, if it is that of a YAML file, or the one
\* beside the executable; without a path the process ends.  A start with another
\* flag finds another file: that is UserEdits.
Start ==
  /\ main = "down"
  /\ starts < MaxStarts
  /\ starts' = starts + 1
  /\ main' \in {"load", "down"}
  /\ UNCHANGED <<fileVars, runVars, attempt, conn>>

Take(c) ==
  /\ config' = c
  /\ touched' = "not"

\* os.ReadFile fails, and not because there is no file.
ReadFails == main = "load" /\ Exit /\ UNCHANGED fileVars

\* LoadConfig: the defaults, when there is no file ...
LoadAbsent ==
  /\ main = "load"
  /\ file = Absent
  /\ Take(Default)
  /\ main' = "save"
  /\ UNCHANGED <<runVars, attempt, starts, conn, file>>

\* ... which are saved, if the file can be created ...
SaveDefaultConfig ==
  /\ main = "save"
  /\ \/ file' = Blank /\ main' = "write"
     \/ file' = file /\ main' = "connect"
  /\ UNCHANGED <<runVars, attempt, starts, conn, config, touched>>

WriteStopped ==
  /\ file' \in WholeLines \cup CutShort
  /\ touched' = IF file' \in CutShort THEN "cut" ELSE touched
  /\ UNCHANGED config

\* ... and its write may fail half way: LoadConfig goes on with the defaults.
WriteFile ==
  /\ main = "write"
  /\ \/ file' = Saved /\ UNCHANGED <<config, touched>>
     \/ WriteStopped
  /\ main' = "connect"
  /\ UNCHANGED <<runVars, attempt, starts, conn>>

LoadFile ==
  /\ main = "load"
  /\ file # Absent
  /\ Take(Loaded(file))
  /\ IF Loaded(file) = Rejected
     THEN Exit
     ELSE main' = "connect" /\ UNCHANGED <<runVars, attempt, starts, conn>>
  /\ UNCHANGED file

\* conn.Connect(): only an idle connection starts to connect.
Connected(c) == IF c = "idle" THEN "connecting" ELSE c

Connect ==
  /\ main = "connect"
  /\ conn' = Connected(conn)
  /\ main' = "wait"
  /\ UNCHANGED <<fileVars, runVars, attempt, starts>>

\* waitForReady returns true.
WaitReady ==
  /\ main = "wait"
  /\ conn = "ready"
  /\ main' = "check"
  /\ UNCHANGED <<fileVars, runVars, attempt, starts, conn>>

AfterAttempt == IF attempt + 1 < MaxAttempts THEN "backoff" ELSE "check"

\* waitForReady returns false: the connection has failed, or five seconds have
\* passed.
WaitOver == conn # "ready"

WaitFails ==
  /\ main = "wait"
  /\ WaitOver
  /\ attempt' = attempt + 1
  /\ main' = AfterAttempt
  /\ UNCHANGED <<fileVars, runVars, starts, conn>>

Backoff ==
  /\ main = "backoff"
  /\ main' = "connect"
  /\ UNCHANGED <<fileVars, runVars, attempt, starts, conn>>

\* The state is read once more; the servers and goroutines start only if it is
\* Ready.  The auth cleanup runs only when credentials are configured.
Serve ==
  /\ main = "check"
  /\ conn = "ready"
  /\ main' = "serve"
  /\ monitor' = [NoMonitor EXCEPT !.pc = "select"]
  /\ \E running \in {{"rate"}, {"rate", "auth"}} :
       loops' = [running |-> running, told |-> {}]
  /\ attempt' = 0
  /\ UNCHANGED <<fileVars, starts, conn, cancelled>>

NotReady == main = "check" /\ conn # "ready" /\ Exit /\ UNCHANGED fileVars

\* ListenAndServe fails: log.Fatalf.
ListenFails == main = "serve" /\ Exit /\ UNCHANGED fileVars

-----------------------------------------------------------------------------
(* The shutdown *)

\* A signal: Server.Shutdown cancels shutdownCtx ...
Signal ==
  /\ main = "serve"
  /\ cancelled' = TRUE
  /\ main' = "stopSSE"
  /\ UNCHANGED <<fileVars, monitor, loops, attempt, starts, conn>>

\* ... stops the broadcaster and the streams (StatsStream) ...
StopSSE ==
  /\ main = "stopSSE"
  /\ main' = "background"
  /\ UNCHANGED <<fileVars, runVars, attempt, starts, conn>>

\* ... and waits for the monitor.
BackgroundWait ==
  /\ main = "background"
  /\ monitor.pc = "ended"
  /\ main' = "http"
  /\ UNCHANGED <<fileVars, runVars, attempt, starts, conn>>

\* httpServer.Shutdown, or Close after five seconds; then StopCleanup.
CloseHTTP ==
  /\ main = "http"
  /\ main' = "cleanup"
  /\ loops' = [loops EXCEPT !.told = loops.running]
  /\ UNCHANGED <<fileVars, attempt, starts, conn, monitor, cancelled>>

Return == main = "cleanup" /\ Exit /\ UNCHANGED fileVars

\* startCleanupLoop's goroutine sees its channel closed.
LoopEnds(l) ==
  /\ l \in loops.told
  /\ loops' = [running |-> loops.running \ {l}, told |-> loops.told \ {l}]
  /\ UNCHANGED <<fileVars, procVars, conn, monitor, cancelled>>

-----------------------------------------------------------------------------
(* The reconnect monitor *)

\* A mistake: only waitForReconnect reports a recovery.
BugSeenConnected == monitor.wasConnected
SeenConnected == monitor.wasConnected \/ conn = "ready"

\* The ticker: select may take it although shutdownCtx is done.
MonitorTick ==
  /\ monitor.pc = "select"
  /\ IF conn = "failure"
     THEN /\ monitor' = [monitor EXCEPT !.pc = "check", !.wasConnected = FALSE]
          /\ conn' = Connected(conn)
     ELSE /\ monitor' = [monitor EXCEPT !.wasConnected = SeenConnected]
          /\ UNCHANGED conn
  /\ UNCHANGED <<fileVars, procVars, cancelled, loops>>

\* waitForReconnect reads the state for the condition of its loop ...
MonitorCheck ==
  /\ monitor.pc = "check"
  /\ monitor' = IF conn = "ready"
                THEN [monitor EXCEPT !.pc = "select", !.wasConnected = TRUE]
                ELSE [monitor EXCEPT !.pc = "reread"]
  /\ UNCHANGED <<fileVars, procVars, cancelled, loops, conn>>

\* ... and again for WaitForStateChange, which waits for a change from what it
\* finds, also if that is Ready.
MonitorReread ==
  /\ monitor.pc = "reread"
  /\ monitor' = [monitor EXCEPT !.pc = "waiting"]
  /\ UNCHANGED <<fileVars, procVars, cancelled, loops, conn>>

MonitorWakes ==
  /\ monitor.pc = "waiting"
  /\ monitor.notified
  /\ monitor' = [monitor EXCEPT !.pc = "check", !.notified = FALSE]
  /\ UNCHANGED <<fileVars, procVars, cancelled, loops, conn>>

\* reconnectRecoveryTimeout, or the shutdown.
MonitorGivesUp ==
  /\ monitor.pc = "waiting"
  /\ monitor' = [monitor EXCEPT !.pc = "select", !.notified = FALSE]
  /\ UNCHANGED <<fileVars, procVars, cancelled, loops, conn>>

\* A mistake: the monitor looks at shutdownCtx only while it is connected.
BugSeesShutdown == cancelled /\ monitor.wasConnected
SeesShutdown == cancelled

MonitorEnds ==
  /\ monitor.pc = "select"
  /\ SeesShutdown
  /\ monitor' = [monitor EXCEPT !.pc = "ended"]
  /\ UNCHANGED <<fileVars, procVars, cancelled, loops, conn>>

-----------------------------------------------------------------------------
(* The environment *)

\* gRPC: an attempt succeeds or fails, is retried after a backoff, a connection
\* is lost, a call wakes an idle one.
ConnChanges(s) ==
  /\ main \notin {"down", "load", "save", "write"}
  /\ <<conn, s>> \in {<<"connecting", "ready">>, <<"connecting", "failure">>,
                      <<"failure", "connecting">>, <<"ready", "idle">>,
                      <<"idle", "connecting">>}
  /\ conn = "idle" => main \notin Starting
  /\ conn' = s
  /\ monitor' = [monitor EXCEPT !.notified = @ \/ monitor.pc = "waiting"]
  /\ UNCHANGED <<fileVars, procVars, cancelled, loops>>

\* The process is killed, perhaps in the middle of the write.
Crash ==
  /\ main # "down"
  /\ Exit
  /\ IF main = "write" THEN WriteStopped ELSE UNCHANGED fileVars

UserEdits ==
  /\ main = "down"
  /\ file' \in UserFiles \cup {Absent}
  /\ touched' = "edited"
  /\ UNCHANGED <<procVars, runVars, config, conn>>

Startup ==
  \/ ReadFails \/ LoadAbsent \/ SaveDefaultConfig \/ WriteFile \/ LoadFile
  \/ Connect \/ WaitReady \/ WaitFails \/ Backoff \/ Serve \/ NotReady
Shutdown == StopSSE \/ BackgroundWait \/ CloseHTTP \/ Return
MonitorSteps ==
  MonitorTick \/ MonitorCheck \/ MonitorReread \/ MonitorWakes \/ MonitorGivesUp

Next ==
  \/ Start \/ Startup \/ ListenFails \/ Signal \/ Shutdown
  \/ \E l \in {"rate", "auth"} : LoopEnds(l)
  \/ MonitorSteps \/ MonitorEnds
  \/ \E s \in {"connecting", "ready", "failure", "idle"} : ConnChanges(s)
  \/ Crash \/ UserEdits

-----------------------------------------------------------------------------
(* Properties *)

\* A start takes another configuration than the one before it only if the user
\* has edited the file, or a value of it was cut short: not because the file did
\* not exist before, could not be created, or was left with its first lines only
\* by a write that failed or a crash (config.go:97-118, 206-218).
RestartAgrees == [][config' # config =>
                      config = NoConfig \/ touched \in {"edited", "cut"}]_vars

\* main never hangs.  It comes to serve or gives up, the attempts and their waits
\* being bounded; and a shutdown comes to its end although it waits for the
\* monitor, which may be waiting for the connection (server.go:108).
MainProgresses ==
  /\ main \in Starting ~> main \in {"serve", "down"}
  /\ main \in Stopping ~> main = "down"

\* A loss the monitor has reported is followed by the report of its end, if the
\* connection stays up, even if it came up between the two reads of the state
\* in waitForReconnect (server.go:184-185), where the monitor waits in vain.
RecoveryReported ==
  ~monitor.wasConnected ~>
    monitor.wasConnected \/ conn # "ready" \/ main # "serve"

=============================================================================
