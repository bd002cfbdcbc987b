--------------------------- MODULE DeploymentProofs ---------------------------
(***************************************************************************)
(* Theorems about Deployment: the configuration over restarts, and the     *)
(* stream of a page over them.                                             *)
(***************************************************************************)
EXTENDS Deployment, TLAPS

-----------------------------------------------------------------------------
(* The configuration *)

\* What a start makes of the file.
Outcome(f) == IF f = Absent THEN Default ELSE Loaded(f)

Filled(v) == IF v = "missing" THEN "default" ELSE v

\* The special values differ from each other and from every content.
LEMMA SpecialFiles ==
  /\ Default \in Content
  /\ Absent \notin Content /\ Garbled \notin Content /\ Absent # Garbled
  /\ NoConfig \notin Content /\ Rejected # NoConfig
  /\ Default # Absent /\ Default # Garbled /\ Default # NoConfig
BY DEF Default, Content, Absent, Garbled, NoConfig, Rejected, Blank

\* The decoded file, field by field.
LEMMA DecodedFields ==
  ASSUME NEW c \in Content
  PROVE  Decoded(c) = [host |-> Filled(c.host), port |-> Filled(c.port),
                       maxBytes |-> Filled(c.maxBytes)]
<1>1. DOMAIN c = {"host", "port", "maxBytes"}
  BY DEF Content
<1> DEFINE d == Decoded(c)
           e == [host |-> Filled(c.host), port |-> Filled(c.port),
                 maxBytes |-> Filled(c.maxBytes)]
<1>2. d = [k \in {"host", "port", "maxBytes"} |-> Filled(c[k])]
  BY <1>1 DEF Decoded, Filled
<1>3. DOMAIN e = {"host", "port", "maxBytes"} /\ e = [k \in DOMAIN e |-> e[k]]
  OBVIOUS
<1>4. e["host"] = Filled(c["host"]) /\ e["port"] = Filled(c["port"])
      /\ e["maxBytes"] = Filled(c["maxBytes"])
  OBVIOUS
<1> HIDE DEF d, e
<1>5. d = e
  BY <1>2, <1>3, <1>4
<1> QED
  BY <1>5 DEF d, e

\* LoadConfig gives a content or refuses the file.
LEMMA LoadedType ==
  ASSUME NEW c \in Content \cup {Garbled}
  PROVE  Loaded(c) \in Content \cup {Rejected}
<1>1. CASE c = Garbled
  BY <1>1 DEF Loaded
<1>2. CASE c \in Content
  <2> DEFINE d == Decoded(c)
  <2>1. d = [host |-> Filled(c.host), port |-> Filled(c.port), maxBytes |-> Filled(c.maxBytes)]
    BY <1>2, DecodedFields
  <2>2. d \in Content
    <3>1. Filled(c.host) \in {"missing", "", "default", "custom"}
      BY <1>2 DEF Content, Filled
    <3>2. Filled(c.port) \in {"missing", "", "default", "custom", "bad"}
      BY <1>2 DEF Content, Filled
    <3>3. Filled(c.maxBytes) \in {"missing", "default", "custom", "bad"}
      BY <1>2 DEF Content, Filled
    <3> DEFINE h == Filled(c.host)
               q == Filled(c.port)
               m == Filled(c.maxBytes)
    <3>4. d = [host |-> h, port |-> q, maxBytes |-> m]
      BY <2>1
    <3> HIDE DEF d, h, q, m
    <3>5. h \in {"missing", "", "default", "custom"}
      BY <3>1 DEF h
    <3>6. q \in {"missing", "", "default", "custom", "bad"}
      BY <3>2 DEF q
    <3>7. m \in {"missing", "default", "custom", "bad"}
      BY <3>3 DEF m
    <3> QED
      BY <3>4, <3>5, <3>6, <3>7 DEF Content
  <2> HIDE DEF d
  <2>3. ApplyDefault(d) \in Content
    BY <2>2 DEF ApplyDefault, Content
  <2> QED
    BY <2>3 DEF Loaded, d
<1> QED
  BY <1>1, <1>2

\* What a write leaves of the defaults is a file: a content, or one that yaml does
\* not take.
LEMMA WrittenType == WholeLines \cup CutShort \subseteq Content \cup {Garbled}
<1>1. Blank \in Content /\ Default \in Content
  BY SpecialFiles DEF Blank, Content
<1>2. /\ [Blank EXCEPT !.host = "default"] \in Content
      /\ [Default EXCEPT !.maxBytes = "missing"] \in Content
      /\ [Blank EXCEPT !.host = "custom"] \in Content
      /\ [Default EXCEPT !.maxBytes = "custom"] \in Content
  BY <1>1 DEF Content
<1>3. /\ [Blank EXCEPT !.host = "default", !.port = "custom"] \in Content
      /\ [Blank EXCEPT !.host = "default", !.port = "bad"] \in Content
  BY <1>1 DEF Content
<1> QED
  BY <1>1, <1>2, <1>3 DEF WholeLines, CutShort, Saved

\* Whole lines of the saved defaults, and no file, are read as the defaults.
LEMMA WholeLinesAreDefault ==
  ASSUME NEW f \in WholeLines \cup {Absent}
  PROVE  Outcome(f) = Default
<1>1. CASE f = Absent
  BY <1>1 DEF Outcome
<1>2. CASE f \in WholeLines
  <2>1. /\ f.host \in {"missing", "default"} /\ f.port \in {"missing", "default"}
        /\ f.maxBytes \in {"missing", "default"}
    BY <1>2 DEF WholeLines, Saved, Default, Blank
  <2>2. f \in Content
    BY <1>2, <2>1, WrittenType DEF Garbled, Blank
  <2>3. f # Absent /\ f # Garbled
    BY <2>2, SpecialFiles
  <2>4. Decoded(f) = Default
    <3>1. Decoded(f) = [host |-> Filled(f.host), port |-> Filled(f.port),
                        maxBytes |-> Filled(f.maxBytes)]
      BY <2>2, DecodedFields
    <3>2. /\ Filled(f.host) = "default" /\ Filled(f.port) = "default"
          /\ Filled(f.maxBytes) = "default"
      BY <2>1 DEF Filled
    <3> QED
      BY <3>1, <3>2 DEF Default
  <2>5. ApplyDefault(Default) = Default /\ ValidateConfig(Default)
    BY DEF ApplyDefault, ValidateConfig, Default
  <2> QED
    BY <2>3, <2>4, <2>5 DEF Outcome, Loaded
<1> QED
  BY <1>1, <1>2

-----------------------------------------------------------------------------
(* The invariant *)

Loops == [running : SUBSET {"rate", "auth"}, told : SUBSET {"rate", "auth"}]

LifeInv ==
  /\ TypeOK
  /\ loops \in Loops
  /\ main # "check" => attempt < MaxAttempts
  /\ main \in {"save", "write"} => config = Default
  /\ config # NoConfig /\ touched = "not" => config = Outcome(file)

\* The page's sources are counted right, and only a source that is gone leaves a
\* timer behind.
StreamInv ==
  /\ StreamOK
  /\ sse.live = IF sse.source = "null" THEN 0 ELSE 1
  /\ sse.timer => sse.source = "null"
  /\ sse.source # "null" \/ sse.timer \/ sse.button

SiteInv == LifeInv /\ StreamInv

\* LifeInv holds when the machine has never run the program.
LEMMA InitLife == Init => LifeInv
<1> SUFFICES ASSUME Init PROVE LifeInv
  OBVIOUS
<1>1. MaxAttempts \in Nat \ {0} /\ MaxStarts \in Nat /\ UserFiles \subseteq Content \cup {Garbled}
  BY LifecycleAssumption, UserFilesAssumption
<1>a. config \in Configs
  BY DEF Init, Configs
<1>b. monitor \in Monitor /\ loops.running = {} /\ loops.told = {}
  BY DEF Init, Monitor, NoMonitor, NoLoops
<1>c. attempt \in 0..MaxAttempts /\ starts \in 0..MaxStarts
  BY <1>1 DEF Init
<1>d. touched = "not" /\ cancelled \in BOOLEAN /\ main = "down" /\ conn = "idle"
  BY DEF Init
<1>e. file \in Content \cup {Absent, Garbled}
  BY <1>1 DEF Init
<1>2. TypeOK
  BY <1>a, <1>b, <1>c, <1>d, <1>e DEF TypeOK
<1> QED
  BY <1>1, <1>2 DEF Init, LifeInv, Loops, NoLoops

\* The end of the process leaves nothing of it.
LEMMA ExitKeeps ==
  ASSUME LifeInv, Exit
  PROVE  /\ main' = "down" /\ attempt' \in 0..MaxAttempts /\ attempt' < MaxAttempts
         /\ starts' = starts /\ conn' = "idle" /\ monitor' \in Monitor
         /\ cancelled' \in BOOLEAN /\ loops' \in Loops
         /\ loops'.running \subseteq {"rate", "auth"} /\ loops'.told \subseteq loops'.running
<1>1. monitor' \in Monitor
  BY DEF Exit, Monitor, NoMonitor
<1>2. loops' = [running |-> {}, told |-> {}]
  BY DEF Exit, NoLoops
<1>3. loops' \in Loops /\ loops'.running = {} /\ loops'.told = {}
  BY <1>2 DEF Loops
<1>4. /\ main' = "down" /\ attempt' = 0 /\ starts' = starts /\ conn' = "idle"
      /\ cancelled' = FALSE
  BY DEF Exit
<1>5. MaxAttempts \in Nat \ {0}
  BY LifecycleAssumption
<1>6. attempt' \in 0..MaxAttempts /\ attempt' < MaxAttempts
  BY <1>4, <1>5
<1>7. loops'.running \subseteq {"rate", "auth"} /\ loops'.told \subseteq loops'.running
  BY <1>3
<1>8. cancelled' \in BOOLEAN
  BY <1>4
<1> QED
  BY <1>1, <1>3, <1>4, <1>6, <1>7, <1>8

\* A start takes the configuration, the one it had if nobody touched the file.
LEMMA TakeAgrees ==
  ASSUME LifeInv, Take(Outcome(file))
  PROVE  /\ config' = Outcome(file) /\ touched' = "not"
         /\ config = NoConfig \/ touched \in {"edited", "cut"} \/ config' = config
BY DEF Take, LifeInv, TypeOK

\* A write that stops leaves whole lines, or a file that is known to be cut.
LEMMA WriteStoppedKeeps ==
  ASSUME LifeInv, main = "write", WriteStopped
  PROVE  /\ file' \in Content \cup {Garbled} /\ config' = config
         /\ touched' \in {"not", "cut", "edited"}
         /\ config' = Default
         /\ touched' = "not" => config' = Outcome(file')
<1>1. /\ file' \in WholeLines \cup CutShort /\ config' = config /\ config = Default
      /\ touched \in {"not", "cut", "edited"}
      /\ touched' = IF file' \in CutShort THEN "cut" ELSE touched
  BY DEF WriteStopped, LifeInv, TypeOK
<1>2. touched' = "not" => file' \in WholeLines
  BY <1>1
<1> QED
  BY <1>1, <1>2, WrittenType, WholeLinesAreDefault

\* main() up to ListenAndServe keeps LifeInv: the saved defaults are what the file
\* gives at the next start.
LEMMA StartupKeeps ==
  ASSUME LifeInv, Startup
  PROVE  LifeInv'
<1>0. /\ MaxAttempts \in Nat \ {0} /\ MaxStarts \in Nat /\ TypeOK /\ LifeInv
      /\ attempt \in 0..MaxAttempts
  BY LifecycleAssumption DEF LifeInv, TypeOK
<1>1. CASE LoadAbsent
  <2>1. Outcome(file) = Default /\ file' = file /\ Default \in Configs
    BY <1>1, SpecialFiles DEF LoadAbsent, Outcome, Configs
  <2>2. config' = Outcome(file) /\ touched' = "not"
    BY <1>1, <2>1, TakeAgrees DEF LoadAbsent
  <2>3. main' = "save" /\ UNCHANGED <<monitor, cancelled, loops, attempt, starts, conn>>
        /\ main = "load"
    BY <1>1 DEF LoadAbsent, runVars
  <2>4. TypeOK'
    BY <1>0, <2>1, <2>2, <2>3 DEF TypeOK, Starting
  <2> QED
    BY <1>0, <2>1, <2>2, <2>3, <2>4 DEF LifeInv, Outcome, Loaded
<1>2. CASE SaveDefaultConfig
  <2>1. /\ main = "save" /\ main' \in {"write", "connect"}
        /\ file' = Blank \/ file' = file
        /\ UNCHANGED <<monitor, cancelled, loops, attempt, starts, conn, config, touched>>
    BY <1>2 DEF SaveDefaultConfig, runVars
  <2>2. config = Default
    BY <1>0, <2>1 DEF LifeInv
  <2>3. Outcome(Blank) = Default /\ Blank \in Content
    BY WholeLinesAreDefault DEF WholeLines, Blank, Content
  <2>4. TypeOK'
    BY <1>0, <2>1, <2>3 DEF TypeOK, Starting
  <2>5. config' # NoConfig /\ touched' = "not" => config' = Outcome(file')
    <3>1. CASE file' = Blank
      BY <2>1, <2>2, <2>3, <3>1
    <3>2. CASE file' = file
      BY <1>0, <2>1, <3>2 DEF LifeInv
    <3> QED
      BY <2>1, <3>1, <3>2
  <2> QED
    BY <1>0, <2>1, <2>2, <2>4, <2>5 DEF LifeInv
<1>7. CASE WriteFile
  <2>1. /\ main = "write" /\ main' = "connect"
        /\ UNCHANGED <<monitor, cancelled, loops, attempt, starts, conn>>
    BY <1>7 DEF WriteFile, runVars
  <2>2. /\ file' \in Content \cup {Garbled} /\ config' = config
        /\ touched' \in {"not", "cut", "edited"}
        /\ touched' = "not" => config' = Outcome(file')
    <3>1. CASE file' = Saved /\ UNCHANGED <<config, touched>>
      <4>1. Outcome(file') = Default /\ file' \in Content
        BY <3>1, WholeLinesAreDefault, SpecialFiles DEF WholeLines, Saved
      <4> QED
        BY <1>0, <2>1, <3>1, <4>1 DEF LifeInv, TypeOK
    <3>2. CASE WriteStopped
      BY <2>1, <3>2, WriteStoppedKeeps
    <3> QED
      BY <1>7, <3>1, <3>2 DEF WriteFile
  <2>3. TypeOK'
    BY <1>0, <2>1, <2>2 DEF TypeOK, Starting
  <2> QED
    BY <1>0, <2>1, <2>2, <2>3 DEF LifeInv
<1>3. CASE LoadFile
  <2>1. main = "load" /\ file # Absent /\ file' = file /\ Take(Loaded(file))
    BY <1>3 DEF LoadFile
  <2>2. Outcome(file) = Loaded(file)
    BY <2>1 DEF Outcome
  <2>3. Outcome(file) \in Configs
    <3>1. file \in Content \cup {Garbled}
      BY <1>0, <2>1 DEF TypeOK
    <3> QED
      BY <2>2, <3>1, LoadedType DEF Configs
  <2>4. config' = Outcome(file) /\ touched' = "not"
    BY <2>1, <2>2, TakeAgrees
  <2>5. CASE Exit
    <3>1. TypeOK'
      BY <1>0, <2>1, <2>3, <2>4, <2>5, ExitKeeps DEF TypeOK
    <3> QED
      BY <1>0, <2>1, <2>4, <2>5, <3>1, ExitKeeps DEF LifeInv, Outcome, Loaded
  <2>6. CASE main' = "connect" /\ UNCHANGED <<runVars, attempt, starts, conn>>
    <3>1. TypeOK'
      BY <1>0, <2>1, <2>3, <2>4, <2>6 DEF TypeOK, Starting, runVars
    <3> QED
      BY <1>0, <2>1, <2>4, <2>6, <3>1 DEF LifeInv, Outcome, Loaded, runVars
  <2> QED
    BY <1>3, <2>5, <2>6 DEF LoadFile
<1>4. CASE Connect \/ WaitReady \/ WaitFails \/ Backoff
  <2>1. /\ UNCHANGED <<file, config, touched, monitor, cancelled, loops, starts>>
        /\ main' \in {"wait", "check", "backoff", "connect"}
        /\ conn' \in {"idle", "connecting", "ready", "failure"}
        /\ attempt' \in 0..MaxAttempts
        /\ main' # "check" => attempt' < MaxAttempts
    BY <1>0, <1>4 DEF Connect, WaitReady, WaitFails, Backoff, AfterAttempt, Connected, TypeOK,
                      LifeInv, fileVars, runVars
  <2>2. TypeOK'
    BY <1>0, <2>1 DEF TypeOK, Starting
  <2> QED
    BY <1>0, <2>1, <2>2 DEF LifeInv, Outcome, Loaded
<1>5. CASE Serve
  <2>1. /\ UNCHANGED <<file, config, touched, starts, conn, cancelled>>
        /\ main' = "serve" /\ attempt' = 0 /\ monitor' = [NoMonitor EXCEPT !.pc = "select"]
    BY <1>5 DEF Serve, fileVars
  <2>2. loops' \in Loops /\ loops'.told \subseteq loops'.running /\ monitor' \in Monitor
        /\ loops'.running \subseteq {"rate", "auth"}
    <3>1. PICK running \in {{"rate"}, {"rate", "auth"}} : loops' = [running |-> running, told |-> {}]
      BY <1>5 DEF Serve
    <3>2. running \in SUBSET {"rate", "auth"}
      OBVIOUS
    <3>3. loops' \in Loops /\ loops'.told = {} /\ loops'.running = running
      BY <3>1, <3>2 DEF Loops
    <3>4. monitor' \in Monitor
      BY <2>1 DEF Monitor, NoMonitor
    <3> QED
      BY <3>2, <3>3, <3>4
  <2>3. TypeOK'
    BY <1>0, <2>1, <2>2 DEF TypeOK
  <2> QED
    BY <1>0, <2>1, <2>2, <2>3 DEF LifeInv, Outcome, Loaded
<1>6. CASE NotReady \/ ReadFails
  <2>1. Exit /\ UNCHANGED <<file, config, touched>>
    BY <1>6 DEF NotReady, ReadFails, fileVars
  <2>2. TypeOK'
    BY <1>0, <2>1, ExitKeeps DEF TypeOK
  <2> QED
    BY <1>0, <2>1, <2>2, ExitKeeps DEF LifeInv, Outcome, Loaded
<1> QED
  BY <1>1, <1>2, <1>7, <1>3, <1>4, <1>5, <1>6 DEF Startup

\* The monitor and the connection touch nothing but themselves.
LEMMA MonitorKeeps ==
  ASSUME LifeInv,
         \/ MonitorSteps \/ MonitorEnds
         \/ \E s \in {"connecting", "ready", "failure", "idle"} : ConnChanges(s)
  PROVE  LifeInv'
<1>0. TypeOK /\ monitor \in Monitor /\ conn \in {"idle", "connecting", "ready", "failure"}
  BY DEF LifeInv, TypeOK
<1>1. UNCHANGED <<file, config, touched, main, attempt, starts, cancelled, loops>>
  BY DEF MonitorSteps, MonitorTick, MonitorCheck, MonitorReread, MonitorWakes, MonitorGivesUp,
         MonitorEnds, ConnChanges, fileVars, procVars
<1>2. conn' \in {"idle", "connecting", "ready", "failure"}
  BY <1>0 DEF MonitorSteps, MonitorTick, MonitorCheck, MonitorReread, MonitorWakes,
              MonitorGivesUp, MonitorEnds, ConnChanges, Connected
<1>3. monitor' \in Monitor
  <2>1. CASE MonitorSteps \/ MonitorEnds
    BY <1>0, <2>1 DEF Monitor, MonitorSteps, MonitorTick, MonitorCheck, MonitorReread,
                      MonitorWakes, MonitorGivesUp, MonitorEnds, SeenConnected
  <2>2. ASSUME NEW s \in {"connecting", "ready", "failure", "idle"}, ConnChanges(s)
        PROVE  monitor' \in Monitor
    BY <1>0, <2>2 DEF Monitor, ConnChanges
  <2> QED
    BY <2>1, <2>2
<1>4. TypeOK'
  BY <1>0, <1>1, <1>2, <1>3 DEF TypeOK
<1> QED
  BY <1>1, <1>4 DEF LifeInv, Outcome, Loaded

\* Every step of the process keeps LifeInv, crashes and the user's edits included.
LEMMA LifeStep ==
  ASSUME LifeInv, Next
  PROVE  LifeInv'
<1>0. /\ MaxAttempts \in Nat \ {0} /\ MaxStarts \in Nat /\ TypeOK /\ LifeInv
      /\ UserFiles \subseteq Content \cup {Garbled}
  BY LifecycleAssumption, UserFilesAssumption DEF LifeInv
<1>1. CASE Start
  <2>1. /\ UNCHANGED <<file, config, touched, monitor, cancelled, loops, attempt, conn>>
        /\ main = "down" /\ main' \in {"load", "down"} /\ starts' \in 0..MaxStarts
    BY <1>0, <1>1 DEF Start, fileVars, runVars, TypeOK
  <2>2. TypeOK'
    BY <1>0, <2>1 DEF TypeOK, Starting
  <2> QED
    BY <1>0, <2>1, <2>2 DEF LifeInv, Outcome, Loaded
<1>2. CASE Startup
  BY <1>2, StartupKeeps
<1>3. CASE ListenFails \/ Return
  <2>1. Exit /\ UNCHANGED <<file, config, touched>>
    BY <1>3 DEF ListenFails, Return, fileVars
  <2>2. TypeOK'
    BY <1>0, <2>1, ExitKeeps DEF TypeOK
  <2> QED
    BY <1>0, <2>1, <2>2, ExitKeeps DEF LifeInv, Outcome, Loaded
<1>4. CASE Signal \/ StopSSE \/ BackgroundWait \/ CloseHTTP
  <2>1. /\ UNCHANGED <<file, config, touched, attempt, starts, conn, monitor>>
        /\ main \notin {"check"} /\ main' \in Stopping
        /\ cancelled' \in BOOLEAN
    BY <1>0, <1>4 DEF Signal, StopSSE, BackgroundWait, CloseHTTP, fileVars, runVars, Stopping, TypeOK
  <2>2. loops' \in Loops /\ loops'.told \subseteq loops'.running
        /\ loops'.running \subseteq {"rate", "auth"}
    <3>1. CASE loops' = loops
      BY <1>0, <3>1 DEF LifeInv, TypeOK
    <3>2. CASE loops' = [loops EXCEPT !.told = loops.running]
      BY <1>0, <3>2 DEF LifeInv, Loops
    <3> QED
      BY <1>4, <3>1, <3>2 DEF Signal, StopSSE, BackgroundWait, CloseHTTP, runVars
  <2>3. TypeOK'
    BY <1>0, <2>1, <2>2 DEF TypeOK
  <2> QED
    BY <1>0, <2>1, <2>2, <2>3 DEF LifeInv, Outcome, Loaded, Stopping
<1>5. ASSUME NEW l \in {"rate", "auth"}, LoopEnds(l) PROVE LifeInv'
  <2>1. /\ UNCHANGED <<file, config, touched, main, attempt, starts, conn, monitor, cancelled>>
        /\ loops' = [running |-> loops.running \ {l}, told |-> loops.told \ {l}]
    BY <1>5 DEF LoopEnds, fileVars, procVars
  <2>2. loops' \in Loops /\ loops'.told \subseteq loops'.running
        /\ loops'.running \subseteq {"rate", "auth"}
    BY <1>0, <2>1 DEF LifeInv, Loops, TypeOK
  <2>3. TypeOK'
    BY <1>0, <2>1, <2>2 DEF TypeOK
  <2> QED
    BY <1>0, <2>1, <2>2, <2>3 DEF LifeInv, Outcome, Loaded
<1>6. CASE \/ MonitorSteps \/ MonitorEnds
           \/ \E s \in {"connecting", "ready", "failure", "idle"} : ConnChanges(s)
  BY <1>6, MonitorKeeps
<1>7. CASE Crash
  <2>1. Exit
    BY <1>7 DEF Crash
  <2>2. /\ file' \in Content \cup {Absent, Garbled} /\ config' = config
        /\ touched' \in {"not", "cut", "edited"}
        /\ config' # NoConfig /\ touched' = "not" => config' = Outcome(file')
    <3>1. CASE main = "write"
      BY <1>7, <3>1, WriteStoppedKeeps DEF Crash
    <3>2. CASE main # "write"
      BY <1>0, <1>7, <3>2 DEF Crash, fileVars, LifeInv, TypeOK
    <3> QED
      BY <3>1, <3>2
  <2>4. TypeOK'
    BY <1>0, <2>1, <2>2, ExitKeeps DEF TypeOK
  <2> QED
    BY <1>0, <2>1, <2>2, <2>4, ExitKeeps DEF LifeInv
<1>8. CASE UserEdits
  <2>1. /\ UNCHANGED <<main, attempt, starts, monitor, cancelled, loops, config, conn>>
        /\ file' \in UserFiles \cup {Absent} /\ touched' = "edited"
    BY <1>8 DEF UserEdits, procVars, runVars
  <2>2. TypeOK'
    BY <1>0, <2>1 DEF TypeOK
  <2> QED
    BY <1>0, <2>1, <2>2 DEF LifeInv
<1> QED
  BY <1>1, <1>2, <1>3, <1>4, <1>5, <1>6, <1>7, <1>8 DEF Next, Shutdown

-----------------------------------------------------------------------------
(* The stream *)

\* Every step of the client keeps StreamInv.
LEMMA StreamStep ==
  ASSUME StreamInv, Opened \/ Failed \/ Reconnect \/ ButtonClicked
  PROVE  StreamInv'
<1> DEFINE Rec(src, t, n, b, l) ==
             [source |-> src, timer |-> t, retries |-> n, button |-> b, live |-> l]
<1>0. /\ MaxRetries \in Nat \ {0} /\ sse \in Stream
      /\ sse.live = IF sse.source = "null" THEN 0 ELSE 1
      /\ sse.timer => sse.source = "null"
  BY StatsClientAssumption DEF StreamInv, StreamOK
<1>1. /\ sse = Rec(sse.source, sse.timer, sse.retries, sse.button, sse.live)
      /\ sse.source \in {"null", "connecting", "open"} /\ sse.retries \in 0..MaxRetries
      /\ sse.timer \in BOOLEAN /\ sse.button \in BOOLEAN /\ sse.live \in Nat
  BY <1>0 DEF Stream
\* A record that is right is a step that is right.
<1>2. ASSUME NEW src \in {"null", "connecting", "open"}, NEW t \in BOOLEAN,
             NEW n \in 0..MaxRetries, NEW b \in BOOLEAN, NEW l \in Nat,
             sse' = Rec(src, t, n, b, l),
             l = IF src = "null" THEN 0 ELSE 1, t => src = "null",
             src # "null" \/ t \/ b
      PROVE  StreamInv'
  <2>1. sse' \in Stream
    BY <1>2 DEF Stream
  <2>2. sse'.source = src /\ sse'.live = l
    BY <1>2
  <2>3. (sse'.timer <=> t) /\ (sse'.button <=> b)
    BY <1>2
  <2> QED
    BY <1>2, <2>1, <2>2, <2>3 DEF StreamInv, StreamOK
<1>3. CASE Opened
  <2>1. sse.source = "connecting"
    BY <1>3 DEF Opened
  <2>2. sse' = Rec("open", sse.timer, 0, FALSE, sse.live)
    BY <1>1, <1>3 DEF Opened
  <2>3. 0 \in 0..MaxRetries /\ sse.live = 1 /\ sse.timer = FALSE
    BY <1>0, <1>1, <2>1
  <2> QED
    BY <1>1, <1>2, <2>2, <2>3
<1>4. CASE Failed
  <2>1. sse.source # "null" /\ sse.live = 1 /\ sse.timer = FALSE
    BY <1>0, <1>1, <1>4 DEF Failed
  <2>2. CASE CountRetry(sse) >= MaxRetries
    <3>1. sse' = Rec("null", sse.timer, MaxRetries, TRUE, sse.live - 1)
      BY <1>1, <1>4, <2>2 DEF Failed, GiveUp
    <3>2. MaxRetries \in 0..MaxRetries /\ sse.live - 1 = 0
      BY <1>0, <2>1
    <3> QED
      BY <1>2, <2>1, <3>1, <3>2
  <2>3. CASE ~(CountRetry(sse) >= MaxRetries)
    <3>1. sse' = Rec("null", TRUE, sse.retries + 1, FALSE, sse.live - 1)
      BY <1>1, <1>4, <2>3 DEF Failed, CountRetry
    <3>2. sse.retries + 1 \in 0..MaxRetries /\ sse.live - 1 = 0
      BY <1>0, <1>1, <2>1, <2>3 DEF CountRetry
    <3> QED
      BY <1>2, <3>1, <3>2
  <2> QED
    BY <2>2, <2>3
<1>5. CASE Reconnect
  <2>1. sse' = Rec("connecting", FALSE, sse.retries, sse.button, LiveAfter(sse) + 1)
    BY <1>1, <1>5 DEF Reconnect, NewSource
  <2>2. LiveAfter(sse) + 1 = 1
    BY <1>0, <1>1 DEF LiveAfter
  <2> QED
    BY <1>1, <1>2, <2>1, <2>2
<1>6. CASE ButtonClicked
  <2> DEFINE s == [sse EXCEPT !.retries = 0]
  <2>1. s = Rec(sse.source, sse.timer, 0, sse.button, sse.live)
    BY <1>1
  <2>2. sse' = NewSource(s)
    BY <1>6 DEF ButtonClicked
  <2> HIDE DEF s
  <2>3. sse' = Rec("connecting", FALSE, 0, sse.button, LiveAfter(s) + 1)
    BY <2>1, <2>2 DEF NewSource
  <2>4. LiveAfter(s) + 1 = 1 /\ 0 \in 0..MaxRetries
    BY <1>0, <1>1, <2>1 DEF LiveAfter
  <2> QED
    BY <1>1, <1>2, <2>3, <2>4
<1> QED
  BY <1>3, <1>4, <1>5, <1>6

\* Every step of the whole keeps SiteInv.
LEMMA SiteStep == SiteInv /\ [SiteNext]_siteVars => SiteInv'
<1> SUFFICES ASSUME SiteInv, [SiteNext]_siteVars PROVE SiteInv'
  OBVIOUS
<1>1. vars' = vars => (LifeInv => LifeInv')
  BY DEF vars, procVars, fileVars, runVars, LifeInv, TypeOK, Outcome, Loaded
<1>2. sse' = sse => (StreamInv => StreamInv')
  BY DEF StreamInv, StreamOK
<1>3. CASE Process
  BY <1>2, <1>3, LifeStep DEF Process, SiteInv
<1>4. CASE Open \/ Lose \/ Again \/ Click
  <2>1. vars' = vars /\ (Opened \/ Failed \/ Reconnect \/ ButtonClicked)
    BY <1>4 DEF Open, Lose, Again, Click
  <2> QED
    BY <1>1, <2>1, StreamStep DEF SiteInv
<1>5. CASE siteVars' = siteVars
  BY <1>1, <1>2, <1>5 DEF siteVars, SiteInv
<1> QED
  BY <1>3, <1>4, <1>5 DEF SiteNext

\* The inductive invariant holds through every restart.
THEOREM SiteInvariant == SiteSpec => []SiteInv
<1>1. SiteInit => SiteInv
  <2> SUFFICES ASSUME SiteInit PROVE SiteInv
    OBVIOUS
  <2>1. StreamInv
    BY StatsClientAssumption DEF SiteInit, StreamInit, StreamInv, StreamOK, Stream
  <2> QED
    BY <2>1, InitLife DEF SiteInit, SiteInv
<1> QED
  BY <1>1, SiteStep, PTL DEF SiteSpec

\* LoadConfig and SaveDefaultConfig (config.go:97-118, 206-218): a start takes the
\* configuration of the one before it unless the file was edited or a value in it
\* cut short, whatever users put into the file and wherever the processes were
\* killed or their writes failed.
THEOREM RestartsAgree == SiteSpec => RestartAgrees
<1>1. ASSUME LifeInv, Next
      PROVE  config' # config => config = NoConfig \/ touched \in {"edited", "cut"}
  <2>1. CASE LoadAbsent \/ LoadFile
    <3>1. Take(Outcome(file))
      BY <2>1 DEF LoadAbsent, LoadFile, Outcome
    <3> QED
      BY <1>1, <3>1, TakeAgrees
  <2>2. CASE ~(LoadAbsent \/ LoadFile)
    <3>1. config' = config
      <4>1. CASE Startup
        BY <2>2, <4>1
        DEF Startup, ReadFails, SaveDefaultConfig, WriteFile, WriteStopped, Connect, WaitReady,
            WaitFails, Backoff, Serve, NotReady, fileVars
      <4>2. CASE ~Startup
        BY <1>1, <4>2
        DEF Next, Start, ListenFails, Signal, Shutdown, StopSSE, BackgroundWait, CloseHTTP, Return,
            LoopEnds, MonitorSteps, MonitorTick, MonitorCheck, MonitorReread, MonitorWakes,
            MonitorGivesUp, MonitorEnds, ConnChanges, Crash, WriteStopped, UserEdits, fileVars
      <4> QED
        BY <4>1, <4>2
    <3> QED
      BY <3>1
  <2> QED
    BY <2>1, <2>2
<1>2. SiteInv /\ [SiteNext]_siteVars =>
        [config' # config => config = NoConfig \/ touched \in {"edited", "cut"}]_vars
  BY <1>1 DEF SiteInv, SiteNext, Process, Open, Lose, Again, Click, siteVars
<1> QED
  BY <1>2, SiteInvariant, PTL DEF SiteSpec, RestartAgrees

\* connectStatsSSE (network.js:229-279): a page has at most one live stream, and
\* always a way to the next, for every number of retries.
THEOREM StreamAlone == SiteSpec => []OneStream
<1>1. SiteInv => OneStream
  BY DEF SiteInv, LifeInv, StreamInv, StreamOK, Stream, OneStream, SiteTypeOK
<1> QED
  BY <1>1, SiteInvariant, PTL

=============================================================================
