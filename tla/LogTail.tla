------------------------------ MODULE LogTail ------------------------------
(***************************************************************************)
(* GET /api/logs: handleGetLogs and the two readers behind it              *)
(* (server/handlerlog.go, journal.go).  The file reader keeps the last     *)
(* lines in a ring it takes from a pool shared by all requests, with       *)
(* whatever an earlier read left in it; the journal reader walks back from *)
(* the end.  The log grows while they read.                                *)
(***************************************************************************)
EXTENDS Integers, Sequences, SequencesExt, FiniteSets, FiniteSetsExt

CONSTANTS
  Readers,       \* concurrent requests
  Buffers,       \* rings that are, or may come to be, in ringPool
  None,          \* no buffer, no line
  Marker,        \* truncationMarker
  Kinds,         \* lines: [hit, size, bad], see Line
  Searches,      \* search parameters, as sequences of bytes
  DefaultLines,  \* logDefaultLines
  LinesCap,      \* logMaxLines, also the capacity of a ring
  MaxSearch,     \* maxSearchLength
  MaxBytes,      \* log.max_bytes
  TooLarge,      \* logMaxFileSize, in lines
  MaxLog         \* bound on the length of the log

ASSUME LogTailAssumption ==
  /\ None \notin Buffers
  /\ Cardinality(Buffers) >= Cardinality(Readers)
  /\ LinesCap \in Nat
  /\ DefaultLines \in 1..LinesCap
  /\ MaxSearch \in Nat
  /\ MaxBytes \in Nat \ {0}      \* ValidateConfig
  /\ Kinds \subseteq [hit : BOOLEAN, size : Nat, bad : BOOLEAN]
  /\ Searches \subseteq Seq({"a", "2", "3", "c"})

VARIABLES
  source,  \* log.type: "file", "journal" or "none"
  log,     \* the lines of the log
  ring,    \* per buffer, what it holds
  pool,    \* the buffers a Get may return
  rd       \* the requests

vars == <<source, log, ring, pool, rd>>

\* no: its place; hit: it contains the search string; bad: longer than the
\* scanner's buffer, or a journal entry without MESSAGE.
Line == [no : Nat, hit : BOOLEAN, size : Nat, bad : BOOLEAN]

\* n: maxLines; filter: the search string is not empty; at: lines scanned, or
\* the journal entry reached; pos, count: of the ring; end: history, the last
\* line the read has seen; lines: the result.
Reader == [pc : {"idle", "query", "scan", "reply", "failed"},
           raw : Searches \cup {<<>>}, search : Seq({"a", "2", "3", "c"}),
           n : Nat, filter : BOOLEAN, buf : Buffers \cup {None},
           at : Nat, pos : Nat, count : Nat, end : Nat,
           lines : Seq(Line \cup {Marker})]
Idle == [pc |-> "idle", raw |-> <<>>, search |-> <<>>, n |-> 0,
         filter |-> FALSE, buf |-> None, at |-> 0, pos |-> 0, count |-> 0,
         end |-> 0, lines |-> <<>>]

TypeOK ==
  /\ source \in {"file", "journal", "none"}
  /\ log \in Seq(Line)
  /\ ring \in [Buffers -> [0..LinesCap - 1 -> Line \cup {None}]]
  /\ pool \subseteq Buffers
  /\ rd \in [Readers -> Reader]
  /\ \A r \in Readers : rd[r].pos < LinesCap

Init ==
  /\ source \in {"file", "journal", "none"}
  /\ log = <<>>
  /\ ring = [b \in Buffers |-> [i \in 0..LinesCap - 1 |-> None]]
  /\ pool = Buffers
  /\ rd = [r \in Readers |-> Idle]

-----------------------------------------------------------------------------
(* truncateSearch.  A byte is "a" (ASCII), "2" or "3" (the first of two or     *)
(* three), or "c" (one that follows); anything else is not UTF-8.              *)

ValidString(s) ==
  \A i \in 1..Len(s) :
    CASE s[i] = "a" -> TRUE
      [] s[i] = "2" -> i < Len(s) /\ s[i + 1] = "c"
      [] s[i] = "3" -> i + 1 < Len(s) /\ s[i + 1] = "c" /\ s[i + 2] = "c"
      [] s[i] = "c" -> \/ i > 1 /\ s[i - 1] \in {"2", "3"}
                       \/ i > 2 /\ s[i - 1] = "c" /\ s[i - 2] = "3"

\* DecodeLastRuneInString: the size of the last rune, 1 if it is none.
LastRune(s) ==
  CASE Len(s) > 1 /\ SubSeq(s, Len(s) - 1, Len(s)) = <<"2", "c">> -> 2
    [] Len(s) > 2 /\ SubSeq(s, Len(s) - 2, Len(s)) = <<"3", "c", "c">> -> 3
    [] OTHER -> 1

\* A mistake: cut at the byte limit.
BugTruncateSearch(s) == IF Len(s) <= MaxSearch THEN s ELSE SubSeq(s, 1, MaxSearch)
TruncateSearch(s) ==
  LET back[k \in 0..MaxSearch] ==
        LET t == SubSeq(s, 1, k) IN
        IF k = 0 \/ ValidString(t) THEN t ELSE back[k - LastRune(t)]
  IN  IF Len(s) <= MaxSearch THEN s ELSE back[MaxSearch]

\* The lines parameter: not a positive number (0) means the default.
MaxLines(p) == IF p = 0 THEN DefaultLines ELSE IF p > LinesCap THEN LinesCap ELSE p

-----------------------------------------------------------------------------
(* trimLinesToBytes *)

\* The loop's start, counted from 0: used is what the lines behind i take.
Start(lines) ==
  LET from[i \in 0..Len(lines)] ==
        [used \in Nat |->
           IF i = 0 \/ used + lines[i].size > MaxBytes THEN i
           ELSE from[i - 1][used + lines[i].size]]
  IN  from[Len(lines)][0]

TrimLinesToBytes(lines) ==
  IF Start(lines) > 0 /\ Start(lines) < Len(lines)
  THEN <<Marker>> \o SubSeq(lines, Start(lines) + 1, Len(lines))
  ELSE lines

-----------------------------------------------------------------------------
(* Requests *)

\* Another line is logged.
LogLine(k) ==
  /\ Len(log) < MaxLog
  /\ log' = Append(log, [no |-> Len(log) + 1, hit |-> k.hit, size |-> k.size,
                         bad |-> k.bad])
  /\ UNCHANGED <<source, ring, pool, rd>>

\* handleGetLogs up to the choice of a reader.  Without a log the answer is an
\* empty list.  The branch for an unsupported type is never taken: ValidateConfig
\* admits no other type.
Query(r, p, s) ==
  /\ rd[r].pc = "idle"
  /\ source # "none"
  /\ rd' = [rd EXCEPT ![r] =
       [Idle EXCEPT !.pc = "query", !.raw = s, !.search = TruncateSearch(s),
                    !.n = MaxLines(p), !.filter = TruncateSearch(s) # <<>>]]
  /\ UNCHANGED <<source, log, ring, pool>>

QueryNone(r) ==
  /\ rd[r].pc = "idle"
  /\ source = "none"
  /\ rd' = [rd EXCEPT ![r] = [Idle EXCEPT !.pc = "reply"]]
  /\ UNCHANGED <<source, log, ring, pool>>

Matches(r, line) == rd[r].filter => line.hit
Forgotten(q) == [q EXCEPT !.raw = <<>>, !.search = <<>>]

\* readLogFile: the file is opened and is not too large; a ring comes from the
\* pool.  LinesCap makes the branch for one that is too small unreachable.
OpenFile(r) ==
  /\ rd[r].pc = "query"
  /\ source = "file"
  /\ Len(log) <= TooLarge
  /\ \E b \in pool :
       /\ pool' = pool \ {b}
       /\ rd' = [rd EXCEPT ![r] = [Forgotten(rd[r]) EXCEPT !.pc = "scan", !.buf = b]]
  /\ UNCHANGED <<source, log, ring>>

NextPos(r) == (rd[r].pos + 1) % rd[r].n

\* scanner.Scan yields a line.
ScanLine(r) ==
  /\ rd[r].pc = "scan"
  /\ source = "file"
  /\ rd[r].at < Len(log)
  /\ LET line == log[rd[r].at + 1] IN
     /\ ~line.bad
     /\ IF Matches(r, line)
        THEN /\ ring' = [ring EXCEPT ![rd[r].buf][rd[r].pos] = line]
             /\ rd' = [rd EXCEPT ![r] =
                  [rd[r] EXCEPT !.at = @ + 1, !.pos = NextPos(r),
                                !.count = @ + 1]]
        ELSE /\ rd' = [rd EXCEPT ![r].at = @ + 1]
             /\ UNCHANGED ring
  /\ UNCHANGED <<source, log, pool>>

\* The deferred Put, on every way out.
PutBack(r) == pool \cup {rd[r].buf}

\* The result is copied out of the ring, the oldest line first.
CopyOut(r) ==
  LET n == rd[r].n
      held == ring[rd[r].buf]
  IN  IF rd[r].count < n
      THEN [i \in 1..rd[r].count |-> held[i - 1]]
      ELSE [i \in 1..n |-> held[(rd[r].pos + i - 1) % n]]

\* The end of the file.
ScanEnds(r) ==
  /\ rd[r].pc = "scan"
  /\ source = "file"
  /\ rd[r].at = Len(log)
  /\ rd' = [rd EXCEPT ![r] =
       [rd[r] EXCEPT !.pc = "reply", !.end = rd[r].at,
                     !.lines = TrimLinesToBytes(CopyOut(r))]]
  /\ pool' = PutBack(r)
  /\ UNCHANGED <<source, log, ring>>

\* A line too long for the scanner, or the context has ended.
ScanFails(r) ==
  /\ rd[r].pc = "scan"
  /\ source = "file"
  /\ rd[r].at < Len(log)
  /\ rd' = [rd EXCEPT ![r] = [Idle EXCEPT !.pc = "failed"]]
  /\ pool' = PutBack(r)
  /\ UNCHANGED <<source, log, ring>>

\* Open, Stat, the size or the journal's opening fails; a build without the
\* journal always fails.
OpenFails(r) ==
  /\ rd[r].pc = "query"
  /\ rd' = [rd EXCEPT ![r] = [Idle EXCEPT !.pc = "failed"]]
  /\ UNCHANGED <<source, log, ring, pool>>

\* readJournalLog: the journal is opened and its tail sought.
OpenJournal(r) ==
  /\ rd[r].pc = "query"
  /\ source = "journal"
  /\ rd' = [rd EXCEPT ![r] = [Forgotten(rd[r]) EXCEPT !.pc = "scan", !.at = Len(log) + 1,
                                                  !.end = Len(log)]]
  /\ UNCHANGED <<source, log, ring, pool>>

Previous(r) ==
  /\ rd[r].pc = "scan"
  /\ source = "journal"
  /\ Len(rd[r].lines) < rd[r].n
  /\ rd[r].at > 1
  /\ LET line == log[rd[r].at - 1] IN
     rd' = [rd EXCEPT ![r] =
       [rd[r] EXCEPT !.at = @ - 1,
                     !.lines = IF line.bad \/ ~Matches(r, line) THEN @
                               ELSE Append(@, line)]]
  /\ UNCHANGED <<source, log, ring, pool>>

JournalEnds(r) ==
  /\ rd[r].pc = "scan"
  /\ source = "journal"
  /\ Len(rd[r].lines) = rd[r].n \/ rd[r].at = 1
  /\ rd' = [rd EXCEPT ![r] =
       [rd[r] EXCEPT !.pc = "reply", !.lines = TrimLinesToBytes(Reverse(@))]]
  /\ UNCHANGED <<source, log, ring, pool>>

\* The context has ended, or the journal cannot be read.
JournalFails(r) ==
  /\ rd[r].pc = "scan"
  /\ source = "journal"
  /\ Len(rd[r].lines) < rd[r].n
  /\ rd' = [rd EXCEPT ![r] = [Idle EXCEPT !.pc = "failed"]]
  /\ UNCHANGED <<source, log, ring, pool>>

\* A mistake: the result shares the memory of the ring, as the comment at
\* handlerlog.go:204 warns.
BugEncoded(r) ==
  IF source = "file" /\ rd[r].count < rd[r].n /\ Marker \notin ToSet(rd[r].lines)
  THEN [i \in 1..rd[r].count |-> ring[rd[r].buf][i - 1]]
  ELSE rd[r].lines
\* The lines the answer is encoded from.
Encoded(r) == rd[r].lines

\* The answer is encoded and sent.
Reply(r) ==
  /\ rd[r].pc \in {"reply", "failed"}
  /\ rd' = [rd EXCEPT ![r] = Idle]
  /\ UNCHANGED <<source, log, ring, pool>>

Next ==
  \/ \E k \in Kinds : LogLine(k)
  \/ \E r \in Readers :
       \/ \E p \in 0..LinesCap + 1, s \in Searches : Query(r, p, s)
       \/ QueryNone(r)
       \/ OpenFile(r) \/ ScanLine(r) \/ ScanEnds(r) \/ ScanFails(r)
       \/ OpenFails(r)
       \/ OpenJournal(r) \/ Previous(r) \/ JournalEnds(r) \/ JournalFails(r)
       \/ Reply(r)

Spec == Init /\ [][Next]_vars

-----------------------------------------------------------------------------
(* Properties *)

LastOf(s, n) == IF Len(s) <= n THEN s ELSE SubSeq(s, Len(s) - n + 1, Len(s))

\* The size of all lines of s.
Bytes(s) ==
  LET sum[k \in 0..Len(s)] == IF k = 0 THEN 0 ELSE sum[k - 1] + s[k].size
  IN  sum[Len(s)]

\* Of the first k lines of s, those that are to be found.
Kept(s, filter) ==
  LET upto[k \in 0..Len(s)] ==
        IF k = 0 THEN <<>>
        ELSE IF ~s[k].bad /\ (filter => s[k].hit) THEN Append(upto[k - 1], s[k])
        ELSE upto[k - 1]
  IN  upto

\* The most recent lines that fit, behind the marker.  Where not even the last
\* one fits this is what the code does instead, and BytesBounded what it should
\* do: all lines, however many.
Fitted(s) ==
  LET k == Max({i \in 0..Len(s) : Bytes(LastOf(s, i)) <= MaxBytes})
  IN  IF k \in {0, Len(s)} THEN s ELSE <<Marker>> \o LastOf(s, k)

\* Both readers answer with the last maxLines lines that match, in order, of
\* the log as it was at the end of the read, cut to what fits: nothing an
\* earlier or a concurrent read left in the ring, no line twice, none left out.
TailExact ==
  /\ TypeOK
  /\ \A r \in Readers :
       rd[r].pc = "reply" =>
         Encoded(r) = Fitted(LastOf(Kept(log, rd[r].filter)[rd[r].end], rd[r].n))

\* max_bytes is the "upper bound on bytes returned per /api/logs call"
\* (config.go:40), except that a single line that exceeds it is returned as it
\* is (handlerlog.go:28-31).  The code violates it: when the last line exceeds
\* the limit, start stays at len(lines) and all lines are returned.
BytesBounded ==
  \A r \in Readers :
    LET lines == SelectSeq(rd[r].lines, LAMBDA line : line # Marker) IN
    rd[r].pc = "reply" => Len(lines) <= 1 \/ Bytes(lines) <= MaxBytes

\* A search string that is cut is cut to the longest prefix that is UTF-8 and
\* fits, also when it was not UTF-8 to begin with.
SearchCut ==
  \A r \in Readers :
    LET raw == rd[r].raw
        fit == {k \in 0..MaxSearch : ValidString(SubSeq(raw, 1, k))} IN
    rd[r].pc = "query" /\ Len(raw) > MaxSearch
      => rd[r].search = SubSeq(raw, 1, Max(fit))

=============================================================================
