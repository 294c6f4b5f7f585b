---------------------------- MODULE ToolRequests ----------------------------
(***************************************************************************)
(* The tools/list and tools/call handlers that registerToolHandlers()      *)
(* installs in the MCP server: the filter by profile and licenses, the     *)
(* validation of the arguments, and the call of the dispatcher.  Calls are *)
(* handled concurrently; a handler runs to the await of dispatch() in one  *)
(* piece.                                                                  *)
(*                                                                         *)
(* The server tells nobody when the list changes (listChanged: false).     *)
(***************************************************************************)
EXTENDS Dispatch, LicenseWatch

CONSTANT ClientCalls        \* bound: the calls that clients of the MCP server make

ASSUME RequestAssumption == ClientCalls \subseteq Calls

VARIABLES
  profile,        \* --profile
  live,           \* whether the handlers got getUnlockedModules, or only the set at startup
  startupModules, \* that set
  listed,         \* what a client was last told: the names, and the unlocked modules then
  refusal         \* of each call refused before dispatch(): the code, else 0

requestVars == <<profile, live, startupModules, listed, refusal>>

PROFILE_TOOL_FILTERED == -32024

RequestTypeOK ==
  /\ profile \in VALID_PROFILES /\ live \in BOOLEAN
  /\ startupModules \subseteq RpgModules
  /\ listed.names \subseteq Names /\ listed.under \subseteq RpgModules
  /\ refusal \in [Calls -> {0, PROFILE_TOOL_FILTERED, METHOD_NOT_FOUND, INVALID_PARAMS}]

RequestInit ==
  /\ profile \in VALID_PROFILES
  /\ live \in BOOLEAN
  /\ startupModules = {}
  /\ listed = [names |-> {}, under |-> {}]
  /\ refusal = [c \in Calls |-> 0]

\* The handlers are registered when the licenses have been loaded.
Registered == poll \notin {"off", "load"}
RegisterHandlers ==
  /\ startupModules' = IF poll = "load" /\ poll' # "load" THEN unlocked' ELSE startupModules
  /\ UNCHANGED <<profile, live, listed, refusal>>

\* filterEntries(): the live set, if there is an accessor, wins.
Effective_AtStartup == startupModules
Effective == IF live THEN unlocked ELSE startupModules
Exposed   == currentlyAllowed(tools, profile, Effective)

ListTools ==
  /\ Registered
  /\ listed' = [names |-> Exposed, under |-> Effective]
  /\ UNCHANGED <<dispatchVars, licenseVars, profile, live, startupModules, refusal>>

\* A call of tool n with arguments that its schema accepts, or does not.
Refuse(c, n, code) ==
  /\ method' = [method EXCEPT ![c] = n]
  /\ refusal' = [refusal EXCEPT ![c] = code]
  /\ UNCHANGED <<tools, logLevel, work, timer, answer, log, logFailures>>

CallTool(c, n, valid) ==
  /\ Registered /\ Idle(c)
  /\ \/ /\ n \notin Exposed
        /\ Refuse(c, n, IF n \in NameSet(tools) THEN PROFILE_TOOL_FILTERED ELSE METHOD_NOT_FOUND)
     \/ n \in Exposed /\ ~valid /\ Refuse(c, n, INVALID_PARAMS)
     \/ n \in Exposed /\ valid /\ StartDispatch(c, n) /\ UNCHANGED refusal
  /\ UNCHANGED <<licenseVars, profile, live, startupModules, listed>>

\* shapeDispatchResult(): what the client receives; a promise that rejects is an internal error.
Shaped(c) == IF refusal[c] # 0 THEN Error(refusal[c])
             ELSE IF answer[c] = Rejected THEN Error(INTERNAL_ERROR) ELSE answer[c]

RequestNext ==
  \/ ListTools
  \/ \E c \in ClientCalls, n \in Names, valid \in BOOLEAN : CallTool(c, n, valid)
  \/ DispatchStep /\ UNCHANGED <<licenseVars, requestVars>>
  \/ LicenseNext /\ RegisterHandlers /\ UNCHANGED dispatchVars

-----------------------------------------------------------------------------
\* What a client is told is what happened.  Success means that the tool has ended well.  A tool
\* that is filtered, unknown, called with wrong arguments or behind a channel that is down was
\* never started.  An internal error means that the tool failed or that there is none, unless a
\* line of the log could not be written; and a timeout says nothing.
NotStarted == {PROFILE_TOOL_FILTERED, METHOD_NOT_FOUND, INVALID_PARAMS, CHANNEL_UNAVAILABLE}
AnswerTells ==
  \A c \in Calls :
    /\ Shaped(c) = Ok => work[c] = "done"
    /\ Shaped(c).code \in NotStarted => work[c] = "none"
    /\ Shaped(c) = Error(INTERNAL_ERROR) => (work[c] \in {"none", "failed"} \/ logFailures > 0)

\* An answer is final: the result of a call that ends after the timeout, and the timer of a call
\* that has ended, change nothing.
AnswerFinal == [][\A c \in Calls : answer[c] # None => answer'[c] = answer[c]]_dispatchVars

\* A tool of a subsystem starts only while the profile or a license, as the server knows them at
\* that moment, exposes it.
StartsOnlyExposed ==
  [][\A c \in Calls : (work[c] = "none" /\ work'[c] = "running") =>
       \/ \E k \in DOMAIN tools : tools[k].name = method'[c] /\ selectByProfile(profile, tools[k])
       \/ \E k \in DOMAIN tools : tools[k].name = method'[c] /\ tools[k].module \in
            (IF live THEN unlocked ELSE startupModules)]_dispatchVars

\* The list keeps its word: a tool that was listed is refused later only for its arguments, or
\* because the modules unlocked have changed since.
ListKeepsItsWord ==
  [][\A c \in Calls :
       (refusal[c] = 0 /\ refusal'[c] \notin {0, INVALID_PARAMS} /\ method'[c] \in listed.names)
         => (IF live THEN unlocked ELSE startupModules) # listed.under]_<<dispatchVars, requestVars>>

\* Both: filters, list and licenses agree about what may be called.
ExposureHolds == StartsOnlyExposed /\ ListKeepsItsWord

\* The log tells what the client was told: every error has its line, whatever the level, and at
\* the level "info" a tool never starts before its line is there, nor ends well without one.
LogTells ==
  \A c \in Calls :
    /\ (logLevel # "off" /\ answer[c].kind \in {"error", "channel-unavailable"}) =>
         (log[c] # <<>> /\ Last(log[c]) = Line("after", "error"))
    /\ (logLevel = "info" /\ work[c] # "none") => (log[c] # <<>> /\ log[c][1].phase = "before")
    /\ (logLevel = "info" /\ answer[c] = Ok) => log[c] = <<Line("before", "-"), Line("after", "ok")>>

\* Every call is answered, even if the tool never ends: the router's timer sees to it.
CallsAnswered == \A c \in ClientCalls : (Pending(c) /\ refusal[c] = 0) ~> ~Pending(c)
=============================================================================
