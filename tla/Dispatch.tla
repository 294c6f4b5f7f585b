------------------------------ MODULE Dispatch ------------------------------
(***************************************************************************)
(* ChannelDispatcher.dispatch(): ChannelRouter over the channel clients,   *)
(* CliExecutor and the cross executor, with its timer of 30 s, and         *)
(* DispatchLoggerMiddleware around it when the server has one.             *)
(*                                                                         *)
(* dispatch() runs to its first await in one piece: the line "before", the *)
(* lookup, the check of the connection and the call of the channel.  What  *)
(* it awaits is the race of the call against the timer; whoever loses goes *)
(* on and is ignored.  Parameters, results and durations are left out.     *)
(*                                                                         *)
(* A log line that cannot be written makes dispatch() reject, although its *)
(* contract forbids that: both callers answer -32603 then.                 *)
(***************************************************************************)
EXTENDS ToolCatalog, Integers, FiniteSets

CONSTANTS
  MaxCalls,       \* bound: calls of dispatch()
  MaxLogFailures, \* bound: log lines that cannot be written
  ToolErrors      \* what a tool may throw: the codes of its errors, or "none" for a plain Error

Calls == 1 .. MaxCalls
NoName == "no tool"

ASSUME DispatchAssumption == MaxCalls \in Nat /\ MaxLogFailures \in Nat /\ NoName \notin Names

VARIABLES
  tools,          \* the entries of profiles.json
  logLevel,       \* of the logger of the middleware, "off" without it
  method,         \* of each call
  work,           \* what the channel does for each call: "none", "running", "done" or "failed"
  timer,          \* the calls whose timer is armed
  answer,         \* what dispatch() has returned for each call
  log,            \* the lines about each call
  logFailures

dispatchVars == <<tools, logLevel, method, work, timer, answer, log, logFailures>>

METHOD_NOT_FOUND    == -32601
INVALID_PARAMS      == -32602
INTERNAL_ERROR      == -32603
CHANNEL_TIMEOUT     == -32001
CHANNEL_UNAVAILABLE == -32000

\* DispatchResult.  The two kinds of failure are told apart by their codes.
None      == [kind |-> "none", code |-> 0]
Ok        == [kind |-> "ok", code |-> 0]
Error(c)  == [kind |-> "error", code |-> c]
Rejected  == [kind |-> "rejected", code |-> INTERNAL_ERROR]      \* the promise rejects
Unavailable == [kind |-> "channel-unavailable", code |-> CHANNEL_UNAVAILABLE]

Line(phase, status) == [phase |-> phase, status |-> status]

DispatchTypeOK ==
  /\ method \in [Calls -> Names \cup {NoName}]
  /\ work \in [Calls -> {"none", "running", "done", "failed"}]
  /\ timer \subseteq Calls
  /\ \A c \in Calls : answer[c].kind \in {"none", "ok", "error", "rejected", "channel-unavailable"}
  /\ \A c \in Calls : log[c] \in Seq([phase : {"before", "after"}, status : {"-", "ok", "error"}])
  /\ logFailures \in 0 .. MaxLogFailures

DispatchInit(catalogs) ==
  /\ tools \in catalogs
  /\ logLevel \in {"off", "info", "warn"}
  /\ method = [c \in Calls |-> NoName]
  /\ work = [c \in Calls |-> "none"]
  /\ timer = {}
  /\ answer = [c \in Calls |-> None]
  /\ log = [c \in Calls |-> <<>>]
  /\ logFailures = 0

Idle(c)    == method[c] = NoName
Pending(c) == method[c] # NoName /\ answer[c] = None

-----------------------------------------------------------------------------
\* mapToolError(): the validation classes, errors that carry a number, all others.
mapToolError(err) ==
  CASE err \in {"INVALID_ARGUMENT", "TEST_REPORT_PARSE_ERROR"} -> INVALID_PARAMS
    [] err \in {"MODULE_NOT_FOUND"} -> -32005
    [] OTHER -> INTERNAL_ERROR

\* errorFromException(): whatever was thrown: its code, if it has one, is dropped.
errorFromException_Swallowed(thrown) == Ok
errorFromException(thrown) == Error(INTERNAL_ERROR)

\* summarizeResult()
Status(result) == IF result.kind = "ok" THEN "ok" ELSE "error"

\* log() of the logger: below its level nothing is written.  Otherwise appendFileSync() may throw.
Severity_Same(result) == "info"
Severity(result) == IF result.kind = "ok" THEN "info" ELSE "error"
Writes(severity) == logLevel = "info" \/ (logLevel = "warn" /\ severity = "error")
CanFail(severity) == Writes(severity) /\ logFailures < MaxLogFailures

\* The result of call c is known: the timer is cleared and, with the middleware, the line
\* "after" is written.  If it cannot be, the result is lost.
Settle(c, lines, result) ==
  /\ timer' = timer \ {c}
  /\ \/ /\ answer' = [answer EXCEPT ![c] = result]
        /\ log' = [log EXCEPT ![c] = IF Writes(Severity(result))
                                     THEN Append(lines, Line("after", Status(result))) ELSE lines]
        /\ UNCHANGED logFailures
     \/ /\ CanFail(Severity(result))
        /\ answer' = [answer EXCEPT ![c] = Rejected]
        /\ log' = [log EXCEPT ![c] = lines]
        /\ logFailures' = logFailures + 1

\* The call reaches its channel: callTransport() with a promise.
Forward_NoTimer(c, lines) ==
  /\ work' = [work EXCEPT ![c] = "running"]
  /\ log' = [log EXCEPT ![c] = lines]
  /\ UNCHANGED <<timer, answer, logFailures>>

Forward(c, lines) ==
  /\ work' = [work EXCEPT ![c] = "running"]
  /\ timer' = timer \cup {c}
  /\ log' = [log EXCEPT ![c] = lines]
  /\ UNCHANGED <<answer, logFailures>>

\* ChannelRouter.dispatch()
Route(c, m, lines) ==
  IF m \notin DOMAIN toolIndex(tools)
  THEN Settle(c, lines, Error(METHOD_NOT_FOUND)) /\ UNCHANGED work
  ELSE LET channel == toolIndex(tools)[m] IN
    \/ /\ channel \in {"editor", "runtime"}
       /\ \/ Settle(c, lines, Unavailable) /\ UNCHANGED work      \* isConnected() is false
          \/ Forward(c, lines)
    \/ /\ channel = "cli"
       /\ \/ /\ ~hasHandler(tools, m)                      \* a CliDispatchError with -32601
             /\ Settle(c, lines, errorFromException(METHOD_NOT_FOUND))
             /\ UNCHANGED work
          \/ hasHandler(tools, m) /\ Forward(c, lines)
    \/ channel = "cross" /\ Forward(c, lines)

\* dispatch() of the middleware, or of the router itself.
StartDispatch(c, m) ==
  /\ Idle(c)
  /\ method' = [method EXCEPT ![c] = m]
  /\ UNCHANGED <<tools, logLevel>>
  /\ \/ Route(c, m, IF Writes("info") THEN <<Line("before", "-")>> ELSE <<>>)
     \/ /\ CanFail("info")                                 \* the line "before"
        /\ answer' = [answer EXCEPT ![c] = Rejected]
        /\ logFailures' = logFailures + 1
        /\ UNCHANGED <<work, timer, log>>

\* What the channel returns or throws.  Nobody awaits it any more after the timeout.
Completes_NotRaced(c, ends) ==
  /\ work[c] = "running"
  /\ work' = [work EXCEPT ![c] = ends]
  /\ UNCHANGED <<tools, logLevel, method>>
  /\ \/ ends = "done" /\ Settle(c, log[c], Ok)
     \/ ends = "failed" /\ Settle(c, log[c], Error(INTERNAL_ERROR))

Completes(c, ends) ==
  /\ work[c] = "running"
  /\ work' = [work EXCEPT ![c] = ends]
  /\ UNCHANGED <<tools, logLevel, method>>
  /\ IF answer[c] # None
     THEN UNCHANGED <<timer, answer, log, logFailures>>
     ELSE \/ ends = "done" /\ Settle(c, log[c], Ok)
          \/ /\ ends = "failed"
             /\ \E err \in ToolErrors :
                  Settle(c, log[c], errorFromException(
                    IF toolIndex(tools)[method[c]] = "cli" THEN mapToolError(err) ELSE err))

\* setTimeout() of callTransport()
RouterTimeout(c) ==
  /\ c \in timer
  /\ Settle(c, log[c], Error(CHANNEL_TIMEOUT))
  /\ UNCHANGED <<tools, logLevel, method, work>>

DispatchStep ==
  \E c \in Calls : RouterTimeout(c) \/ (\E ends \in {"done", "failed"} : Completes(c, ends))
=============================================================================
