----------------------------- MODULE ServerBoot -----------------------------
(***************************************************************************)
(* Processes of the server from their command line to their end: main(),   *)
(* bootstrapServer() in its three modes, and the health endpoint of the    *)
(* headless mode, which looks for a free port, listens on it, records it   *)
(* in the active-port file and serves HTTP until the shutdown.             *)
(*                                                                         *)
(* Ports belong to the machine: all processes scan the same range, and a   *)
(* scan holds each port it tries for a moment.                             *)
(***************************************************************************)
EXTENDS Naturals, Sequences, SequencesExt, FiniteSets

CONSTANTS
  Servers,        \* processes
  CommandLines,   \* the argv each may get
  RangeEnd,       \* the health range is 1 .. RangeEnd
  MaxRequests     \* bound: HTTP requests of each process, or children it starts

Nobody == "nobody"

ASSUME BootAssumption == RangeEnd \in Nat \ {0} /\ MaxRequests \in Nat /\ Nobody \notin Servers

\* Command lines are sequences of words; see Word and Inline.
ASSUME CommandLineAssumption ==
  \A c \in CommandLines :
    c \in Seq(ToSet(c)) /\ \A w \in ToSet(c) : w = [flag |-> w.flag, inline |-> w.inline]

VARIABLES
  argv,           \* of each process
  at,             \* where it is
  exitCode,       \* how it ended: "0", "1" or "killed"
  shutdown,       \* the processes told to shut down
  port,           \* of each process: the port it tries or has, 0 before the scan
  os,             \* of each port: who listens on it, or Nobody
  portFile,       \* "health" in the active-port file, 0 when it is not there
  requests,       \* of each process: HTTP requests, or children of the CLI channel, in progress
  served,         \* how many it has accepted or started
  ended           \* history: a process that listened has stopped or died

bootVars == <<argv, at, exitCode, shutdown, port, os, portFile, requests, served, ended>>

HEALTH_RANGE  == 1 .. RangeEnd

\* A word of the command line: a flag or value, or flag=value.
Word(f)        == [flag |-> f, inline |-> "none"]
Inline(f, v)   == [flag |-> f, inline |-> v]
ALLOWED_PROFILES   == {"Full", "Lite", "Minimal", "RPG-only"}
ALLOWED_LOG_LEVELS == {"debug", "info", "warn", "error"}

\* What a flag with a value accepts.  A word with "=" in it is a path like any other.
Accepts(f, v) ==
  CASE f = "--profile" -> v \in ALLOWED_PROFILES
    [] f = "--mcp-log-level" -> v \in ALLOWED_LOG_LEVELS
    [] f = "--license-dir" -> v # ""
Valued == {"--profile", "--mcp-log-level", "--license-dir"}

DEFAULT_OPTIONS == [ok |-> TRUE, stdio |-> FALSE, smoke |-> FALSE, awaits |-> "none",
                    value |-> [f \in Valued |-> IF f = "--profile" THEN "Full"
                                                ELSE IF f = "--mcp-log-level" THEN "info" ELSE "none"]]

\* parseCliArgs(), one word after the other; "awaits" is the flag whose value comes next, and
\* that word is taken whatever it looks like.
asValue(w)    == IF w.inline = "none" THEN w.flag ELSE "a=b"
Take(o, f, v) == IF Accepts(f, v) THEN [o EXCEPT !.value[f] = v, !.awaits = "none"] ELSE [o EXCEPT !.ok = FALSE]
parseWord_FlagIsNoValue(o, w) ==
  CASE ~o.ok -> o
    [] o.ok /\ w = Word("--stdio") -> [o EXCEPT !.stdio = TRUE]
    [] o.ok /\ w = Word("--smoke") -> [o EXCEPT !.smoke = TRUE]
    [] o.ok /\ w.flag \in Valued ->
         IF w.inline = "none" THEN [o EXCEPT !.awaits = w.flag] ELSE Take(o, w.flag, w.inline)
    [] o.ok /\ o.awaits # "none" /\ w.flag \notin Valued \cup {"--stdio", "--smoke"} ->
         Take(o, o.awaits, asValue(w))
    [] OTHER -> [o EXCEPT !.ok = FALSE]

parseWord(o, w) ==
  CASE ~o.ok -> o
    [] o.ok /\ o.awaits # "none" ->
         Take(o, o.awaits, asValue(w))
    [] o.ok /\ o.awaits = "none" /\ w = Word("--stdio") -> [o EXCEPT !.stdio = TRUE]
    [] o.ok /\ o.awaits = "none" /\ w = Word("--smoke") -> [o EXCEPT !.smoke = TRUE]
    [] o.ok /\ o.awaits = "none" /\ w.flag \in Valued ->
         IF w.inline = "none" THEN [o EXCEPT !.awaits = w.flag] ELSE Take(o, w.flag, w.inline)
    [] OTHER -> [o EXCEPT !.ok = FALSE]

parseCliArgs(words) ==
  LET o == FoldLeft(parseWord, DEFAULT_OPTIONS, words)
  IN  [o EXCEPT !.ok = @ /\ o.awaits = "none"]

options(s) == parseCliArgs(argv[s])

BootTypeOK ==
  /\ argv \in [Servers -> CommandLines]
  /\ at \in [Servers -> {"main", "discover", "profiles", "connect", "wait", "scan", "probe", "listen",
                         "write", "up", "stop", "over"}]
  /\ exitCode \in [Servers -> {"none", "0", "1", "killed"}]
  /\ shutdown \subseteq Servers
  /\ port \in [Servers -> 0 .. RangeEnd + 1]
  /\ os \in [HEALTH_RANGE -> Servers \cup {Nobody}]
  /\ portFile \in 0 .. RangeEnd
  /\ requests \in [Servers -> 0 .. MaxRequests] /\ served \in [Servers -> 0 .. MaxRequests]
  /\ ended \in BOOLEAN

BootInit ==
  /\ argv \in [Servers -> CommandLines]
  /\ at = [s \in Servers |-> "main"]
  /\ exitCode = [s \in Servers |-> "none"]
  /\ shutdown = {}
  /\ port = [s \in Servers |-> 0]
  /\ os = [p \in HEALTH_RANGE |-> Nobody]
  /\ portFile = 0
  /\ requests = [s \in Servers |-> 0] /\ served = [s \in Servers |-> 0]
  /\ ended = FALSE

-----------------------------------------------------------------------------
Moves(s, to) == at' = [at EXCEPT ![s] = to]

\* The process ends, and with it whatever it held.
Ends(s, code) ==
  /\ Moves(s, "over")
  /\ exitCode' = [exitCode EXCEPT ![s] = code]
  /\ os' = [p \in HEALTH_RANGE |-> IF os[p] = s THEN Nobody ELSE os[p]]
  /\ ended' = (ended \/ \E p \in HEALTH_RANGE : os[p] = s)
  /\ requests' = [requests EXCEPT ![s] = 0]

\* main(): an Error leaves with code 1.  Otherwise the licenses are looked for, and a failure
\* of that only means that there are none.
Main(s) ==
  /\ at[s] = "main"
  /\ IF options(s).ok THEN Moves(s, "discover") /\ UNCHANGED <<exitCode, os, ended, requests>>
                      ELSE Ends(s, "1")
  /\ UNCHANGED <<argv, shutdown, port, portFile, served>>

\* bootstrapServer(): --smoke wins over --stdio.  The headless mode has a health endpoint if
\* its caller gave it one; otherwise it just waits.
Bootstrap(s) ==
  /\ at[s] = "discover"
  /\ \/ options(s).smoke /\ Ends(s, "0")
     \/ /\ ~options(s).smoke /\ options(s).stdio
        /\ Moves(s, "profiles") /\ UNCHANGED <<exitCode, os, ended, requests>>
     \/ /\ ~options(s).smoke /\ ~options(s).stdio
        /\ Moves(s, "scan") \/ Moves(s, "wait")
        /\ UNCHANGED <<exitCode, os, ended, requests>>
  /\ port' = [port EXCEPT ![s] = 1]
  /\ UNCHANGED <<argv, shutdown, portFile, served>>

\* loadDefaultProfiles(): a second candidate is read after the first; then connect().
LoadDefaultProfiles(s) ==
  /\ at[s] = "profiles"
  /\ \/ Moves(s, "connect") /\ UNCHANGED <<exitCode, os, ended, requests>>
     \/ Ends(s, "1")
  /\ UNCHANGED <<argv, shutdown, port, portFile, served>>
Connect(s) ==
  /\ at[s] = "connect" /\ Moves(s, "wait")
  /\ UNCHANGED <<argv, exitCode, shutdown, port, os, portFile, requests, served, ended>>

\* scanFreePort(): isTcpPortFree() listens on the next port of the range, or cannot.
Probe(s) ==
  /\ at[s] = "scan"
  /\ \/ port[s] > RangeEnd /\ Ends(s, "1") /\ UNCHANGED port                \* RangeExhaustedError
     \/ /\ port[s] \in HEALTH_RANGE /\ os[port[s]] # Nobody
        /\ port' = [port EXCEPT ![s] = @ + 1]
        /\ UNCHANGED <<at, exitCode, os, ended, requests>>
     \/ /\ port[s] \in HEALTH_RANGE /\ os[port[s]] = Nobody
        /\ os' = [os EXCEPT ![port[s]] = s]
        /\ Moves(s, "probe")
        /\ UNCHANGED <<exitCode, port, ended, requests>>
  /\ UNCHANGED <<argv, shutdown, portFile, served>>

\* It is free: the probe closes, and the port is anybody's again.
ProbeClosed(s) ==
  /\ at[s] = "probe"
  /\ os' = [os EXCEPT ![port[s]] = Nobody]
  /\ Moves(s, "listen")
  /\ UNCHANGED <<argv, exitCode, shutdown, port, portFile, requests, served, ended>>

\* HealthEndpoint.start() listens on it; start() rejects when somebody else does by now.
Listen_IgnoringErrors(s) ==
  /\ at[s] = "listen"
  /\ os' = [os EXCEPT ![port[s]] = IF @ = Nobody THEN s ELSE @]
  /\ Moves(s, "write")
  /\ UNCHANGED <<argv, exitCode, shutdown, port, portFile, requests, served, ended>>

Listen(s) ==
  /\ at[s] = "listen"
  /\ IF os[port[s]] = Nobody
     THEN /\ os' = [os EXCEPT ![port[s]] = s]
          /\ Moves(s, "write") /\ UNCHANGED <<exitCode, ended, requests>>
     ELSE Ends(s, "1")
  /\ UNCHANGED <<argv, shutdown, port, portFile, served>>

\* writeActivePort(), the last thing start() does, and its failure is start()'s.
WriteActivePort(s) ==
  /\ at[s] = "write"
  /\ \/ portFile' = port[s] /\ Moves(s, "up") /\ UNCHANGED <<exitCode, os, ended, requests>>
     \/ Ends(s, "1") /\ UNCHANGED portFile
  /\ UNCHANGED <<argv, shutdown, port, served>>

\* SIGTERM or SIGINT: until waitUntilShutdown() has installed its handlers it simply kills, and
\* so does a second one, for which they are no longer there.
Signal(s) ==
  /\ at[s] # "over"
  /\ shutdown' = shutdown \cup {s}
  /\ IF at[s] \in {"wait", "up"} /\ s \notin shutdown
     THEN UNCHANGED <<at, exitCode, os, ended, requests>>
     ELSE Ends(s, "killed")
  /\ UNCHANGED <<argv, port, portFile, served>>

\* A GET of /version or /trace: its answer waits for git or for files of the log.  The other
\* paths are answered at once.  stop() takes the port first, so nobody else comes in.
Get(s) ==
  /\ at[s] \in {"write", "up"} /\ served[s] < MaxRequests
  /\ served' = [served EXCEPT ![s] = @ + 1]
  /\ requests' = [requests EXCEPT ![s] = @ + 1]
  /\ UNCHANGED <<argv, at, exitCode, shutdown, port, os, portFile, ended>>

\* A tools/call of the stdio mode that spawns Godot or adb.
StartChild(s) ==
  /\ at[s] = "wait" /\ served[s] < MaxRequests /\ options(s).stdio
  /\ served' = [served EXCEPT ![s] = @ + 1]
  /\ requests' = [requests EXCEPT ![s] = @ + 1]
  /\ UNCHANGED <<argv, at, exitCode, shutdown, port, os, portFile, ended>>

OneLess(s) ==
  /\ requests[s] > 0
  /\ requests' = [requests EXCEPT ![s] = @ - 1]
  /\ UNCHANGED <<argv, at, exitCode, shutdown, port, os, portFile, served, ended>>

Answer_KeptAlive(s) == requests[s] > 0 /\ UNCHANGED bootVars
Answer(s) == OneLess(s) /\ ~options(s).stdio

\* A child ends when it likes: there is no timeout, and nobody kills it.
ChildEnds(s) == OneLess(s) /\ options(s).stdio

\* The shutdown: server.close() of the MCP server, or stop() of the endpoint, which no longer
\* listens and ends when every request has been answered.  Nobody clears the file.  main() then
\* returns 0, which calls no exit(): a child in progress keeps the process alive.
Shutdown(s) ==
  /\ s \in shutdown
  /\ \/ at[s] = "wait" /\ Moves(s, "stop") /\ UNCHANGED <<exitCode, os, ended, requests>>
     \/ /\ at[s] = "up"
        /\ os' = [os EXCEPT ![port[s]] = Nobody] /\ ended' = TRUE
        /\ Moves(s, "stop") /\ UNCHANGED <<exitCode, requests>>
     \/ at[s] = "stop" /\ requests[s] = 0 /\ Ends(s, "0")
  /\ UNCHANGED <<argv, shutdown, port, portFile, served>>

\* Handlers of signals keep no process alive: without an endpoint, or when stdin has ended and no
\* child runs, nothing is left to wait for and node exits.
NothingLeft(s) ==
  /\ at[s] = "wait" /\ requests[s] = 0 /\ Ends(s, "0")
  /\ UNCHANGED <<argv, shutdown, port, portFile, served>>

BootStep(s) ==
  \/ Main(s) \/ Bootstrap(s) \/ LoadDefaultProfiles(s) \/ Connect(s)
  \/ Probe(s) \/ ProbeClosed(s) \/ Listen(s) \/ WriteActivePort(s) \/ Shutdown(s) \/ Answer(s)
BootNext == \E s \in Servers : BootStep(s) \/ Signal(s) \/ Get(s) \/ StartChild(s) \/ ChildEnds(s) \/ NothingLeft(s)

-----------------------------------------------------------------------------
\* The file names a port somebody serves: until a process that listened is gone, "health" is
\* never a port that nobody listens on.  (Afterwards it may be: stop() leaves it there.)
FileNamesListener == (portFile # 0 /\ ~ended) => os[portFile] # Nobody

\* However many processes start together and get into each other's way, with their probes or
\* by taking a port another one has found free, they do not all fail for want of a port.
Headless == {s \in Servers : options(s).ok /\ ~options(s).smoke /\ ~options(s).stdio}
SomebodyGetsAPort ==
  (Headless # {} /\ ~ended /\ shutdown = {}) =>
     \E s \in Headless : exitCode[s] # "1"

\* Both: ports are found, and the file says which.
PortsServed == FileNamesListener /\ SomebodyGetsAPort

\* A command line means what it says: it is accepted exactly when it can be cut into options,
\* each with a value it accepts, and then the last option of each kind is the one that counts.
Words == UNION {ToSet(c) : c \in CommandLines}
Item(f, v, words) == [flag |-> f, value |-> v, words |-> words]
Items ==
  {Item(f, "none", <<Word(f)>>) : f \in {"--stdio", "--smoke"}}
    \cup {i \in {Item(w.flag, w.inline, <<w>>) : w \in {x \in Words : x.inline # "none"}}
               \cup {Item(f, asValue(w), <<Word(f), w>>) : f \in Valued, w \in Words} :
            i.flag \in Valued /\ Accepts(i.flag, i.value)}

\* The words of a row of items, and the rows that have these words.
addWords(words, item) == words \o item.words
Spelled(row)          == FoldLeft(addWords, <<>>, row)
Cuts(words) == {row \in UNION {[1 .. n -> Items] : n \in 0 .. Len(words)} : Spelled(row) = words}
Flags(row)  == {row[i].flag : i \in DOMAIN row}
OptionsMeanWhatTheySay ==
  \A s \in Servers : at[s] = "main" =>
    /\ options(s).ok <=> Cuts(argv[s]) # {}
    /\ \A row \in Cuts(argv[s]) :
         /\ options(s).stdio <=> "--stdio" \in Flags(row)
         /\ options(s).smoke <=> "--smoke" \in Flags(row)
         /\ \A f \in Valued \ Flags(row) : options(s).value[f] = DEFAULT_OPTIONS.value[f]
         /\ \A i \in DOMAIN row :
              (row[i].flag \in Valued /\ \A j \in i + 1 .. Len(row) : row[j].flag # row[i].flag)
                => options(s).value[row[i].flag] = row[i].value

\* A process told to shut down ends: the health endpoint waits only for requests it accepted, and
\* the stdio mode only for its children.  Nothing makes those end: it is assumed that there is
\* always again a moment at which none runs.
HasChild(s)  == requests[s] > 0 /\ options(s).stdio
ShutdownEnds == \A s \in Servers : []<>~HasChild(s) => ((s \in shutdown) ~> (at[s] = "over"))
=============================================================================
