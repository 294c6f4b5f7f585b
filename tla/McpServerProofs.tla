-------------------------- MODULE McpServerProofs --------------------------
(***************************************************************************)
(* What is proved of the MCP server, for any number of calls, catalogs,    *)
(* profiles, licenses, tools that never end and log lines that cannot be   *)
(* written: what clients and log are told is what happened, filters and    *)
(* list agree, and the bridge keeps the order of its frames.               *)
(***************************************************************************)
EXTENDS McpServer, AscendingProofs

-----------------------------------------------------------------------------
(* The four states of a call.                                              *)

\* The lines about a call before and after its result is known.
Before        == IF logLevel = "info" THEN <<Line("before", "-")>> ELSE <<>>
After(result) == IF Writes(Severity(result)) THEN Append(Before, Line("after", Status(result))) ELSE Before

Fresh(c) ==
  /\ method[c] = NoName /\ work[c] = "none" /\ answer[c] = None
  /\ log[c] = <<>> /\ refusal[c] = 0 /\ c \notin timer

Refused(c) ==
  /\ method[c] # NoName /\ work[c] = "none" /\ answer[c] = None
  /\ refusal[c] # 0 /\ c \notin timer

AtWork(c) ==
  /\ method[c] # NoName /\ work[c] = "running" /\ answer[c] = None
  /\ log[c] = Before /\ refusal[c] = 0 /\ c \in timer

\* What may be answered of a call in each state of its work.
Possible == [none    |-> {Error(METHOD_NOT_FOUND), Error(INTERNAL_ERROR), Unavailable, Rejected},
             running |-> {Error(CHANNEL_TIMEOUT), Rejected},
             done    |-> {Ok, Error(CHANNEL_TIMEOUT), Rejected},
             failed  |-> {Error(INTERNAL_ERROR), Error(CHANNEL_TIMEOUT), Rejected}]

Ended(c) ==
  /\ method[c] # NoName /\ refusal[c] = 0 /\ c \notin timer
  /\ answer[c] \in Possible[work[c]]
  /\ IF answer[c] = Rejected THEN logFailures > 0 /\ (work[c] = "none" \/ log[c] = Before)
                             ELSE log[c] = After(answer[c])

CallInv == \A c \in Calls : Fresh(c) \/ Refused(c) \/ AtWork(c) \/ Ended(c)

\* The types, as far as the steps need them.
LogLine == [phase : {"before", "after"}, status : {"-", "ok", "error"}]
Refusals == {0, PROFILE_TOOL_FILTERED, METHOD_NOT_FOUND, INVALID_PARAMS}
CallTypes ==
  /\ method \in [Calls -> Names \cup {NoName}]
  /\ work \in [Calls -> {"none", "running", "done", "failed"}]
  /\ timer \in SUBSET Calls
  /\ answer \in [Calls -> [kind : {"none", "ok", "error", "rejected", "channel-unavailable"}, code : Int]]
  /\ log \in [Calls -> Seq(LogLine)]
  /\ logFailures \in 0 .. MaxLogFailures
  /\ logLevel \in {"off", "info", "warn"}
  /\ refusal \in [Calls -> Refusals]

-----------------------------------------------------------------------------
(* Filter, list and licenses.                                              *)

ExposureInv ==
  /\ profile \in VALID_PROFILES /\ live \in BOOLEAN
  /\ startupModules \in SUBSET RpgModules
  /\ listed.under \in SUBSET RpgModules
  /\ listed.names \subseteq currentlyAllowed(tools, profile, listed.under)
  /\ front = "bridge" => profile = "Full"
  /\ LicenseTypeOK

-----------------------------------------------------------------------------
(* The bridge.                                                             *)

StreamInv ==
  /\ front \in {"sdk", "bridge"}
  /\ wire \in Seq(FrameKinds) /\ Len(wire) <= MaxCalls
  /\ arrived \in 0 .. Len(wire)
  /\ processQueue \in Seq(Nat) /\ handling \in Nat
  /\ stopped \in BOOLEAN
  /\ stdout \in Seq([frame : Nat, id : {"id", "null"}, code : Int])
  /\ \A i \in DOMAIN stdout : stdout[i].frame \in 1 .. arrived
  /\ front = "sdk" => arrived = 0

\* The queue holds frames in their order, which no call has been made of and which come after
\* all of those; a call without an answer is in hand.
QueueInv ==
  /\ IsAscending(processQueue)
  /\ \A i \in DOMAIN processQueue :
       /\ processQueue[i] \in 1 .. arrived /\ wire[processQueue[i]] # "junk"
       /\ handling < processQueue[i]
  /\ handling # 0 => handling \in 1 .. arrived
  /\ front = "bridge" =>
       /\ handling # 0 => method[handling] # NoName
       /\ \A k \in Calls : method[k] # NoName =>
            /\ k <= arrived
            /\ \A i \in DOMAIN processQueue : k < processQueue[i]
            /\ handling # 0 => k <= handling
       /\ \A k \in Calls : answer[k] = None /\ method[k] # NoName => k = handling

BridgeInv == StreamInv /\ QueueInv /\ RepliesInOrder

ServerInv == CallTypes /\ CallInv /\ ExposureInv /\ BridgeInv

-----------------------------------------------------------------------------
(* Results.                                                                *)

Answers == [kind : {"none", "ok", "error", "rejected", "channel-unavailable"}, code : Int]

LEMMA ResultsDiffer ==
  /\ None # Ok /\ None # Rejected /\ None # Unavailable /\ \A x : None # Error(x)
  /\ Ok # Rejected /\ Ok # Unavailable /\ \A x : Ok # Error(x)
  /\ Rejected # Unavailable /\ \A x : Rejected # Error(x)
  /\ \A x : Unavailable # Error(x)
  /\ \A x, y : Error(x) = Error(y) => x = y
<1>1. /\ None.kind = "none" /\ Ok.kind = "ok" /\ Rejected.kind = "rejected"
      /\ Unavailable.kind = "channel-unavailable" /\ \A x : Error(x).kind = "error" /\ Error(x).code = x
  BY DEF None, Ok, Rejected, Unavailable, Error
<1> QED
  BY <1>1

LEMMA ResultTypes ==
  /\ None \in Answers /\ Ok \in Answers /\ Rejected \in Answers /\ Unavailable \in Answers
  /\ \A x \in Int : Error(x) \in Answers
  /\ METHOD_NOT_FOUND \in Int /\ INTERNAL_ERROR \in Int /\ CHANNEL_TIMEOUT \in Int /\ INVALID_PARAMS \in Int
  BY DEF None, Ok, Rejected, Unavailable, Error, Answers, METHOD_NOT_FOUND, INTERNAL_ERROR,
         CHANNEL_TIMEOUT, CHANNEL_UNAVAILABLE, INVALID_PARAMS

LEMMA PossibleAnswers ==
  /\ Possible["none"] = {Error(METHOD_NOT_FOUND), Error(INTERNAL_ERROR), Unavailable, Rejected}
  /\ Possible["running"] = {Error(CHANNEL_TIMEOUT), Rejected}
  /\ Possible["done"] = {Ok, Error(CHANNEL_TIMEOUT), Rejected}
  /\ Possible["failed"] = {Error(INTERNAL_ERROR), Error(CHANNEL_TIMEOUT), Rejected}
  BY DEF Possible

\* A call with an answer is in none of the other states.
LEMMA EndedHasAnswer ==
  ASSUME CallTypes, NEW c \in Calls
  PROVE  /\ Ended(c) => answer[c] # None
         /\ Fresh(c) \/ Refused(c) \/ AtWork(c) => answer[c] = None
<1>1. work[c] \in {"none", "running", "done", "failed"}
  BY DEF CallTypes
<1>2. None \notin Possible[work[c]]
  BY <1>1, PossibleAnswers, ResultsDiffer
<1> QED
  BY <1>2 DEF Ended, Fresh, Refused, AtWork

LEMMA LinesAre ==
  ASSUME CallTypes
  PROVE  /\ Before \in Seq(LogLine)
         /\ \A result : Append(Before, Line("after", Status(result))) \in Seq(LogLine)
<1>1. Line("before", "-") \in LogLine /\ \A result : Line("after", Status(result)) \in LogLine
  BY DEF Line, Status, LogLine
<1> QED
  BY <1>1 DEF Before

-----------------------------------------------------------------------------
(* The steps of a call.                                                    *)

\* Nothing but call c is touched.
OnlyCall(c) ==
  /\ \A d \in Calls \ {c} : /\ method'[d] = method[d] /\ work'[d] = work[d] /\ answer'[d] = answer[d]
                            /\ log'[d] = log[d] /\ refusal'[d] = refusal[d] /\ (d \in timer' <=> d \in timer)
  /\ logLevel' = logLevel /\ (logFailures > 0 => logFailures' > 0)

LEMMA OneCall ==
  ASSUME CallInv, NEW c \in Calls, OnlyCall(c),
         (Fresh(c) \/ Refused(c) \/ AtWork(c) \/ Ended(c))'
  PROVE  CallInv'
<1> SUFFICES ASSUME NEW d \in Calls \ {c}
             PROVE  (Fresh(d) \/ Refused(d) \/ AtWork(d) \/ Ended(d))'
  BY DEF CallInv
<1>1. /\ method'[d] = method[d] /\ work'[d] = work[d] /\ answer'[d] = answer[d]
      /\ log'[d] = log[d] /\ refusal'[d] = refusal[d] /\ (d \in timer' <=> d \in timer)
      /\ logLevel' = logLevel /\ (logFailures > 0 => logFailures' > 0)
  BY DEF OnlyCall
<1>2. Before' = Before
  BY <1>1 DEF Before
<1>3. CASE Fresh(d)
  BY <1>1, <1>3 DEF Fresh
<1>4. CASE Refused(d)
  BY <1>1, <1>4 DEF Refused
<1>5. CASE AtWork(d)
  BY <1>1, <1>2, <1>5 DEF AtWork
<1>6. CASE Ended(d)
  BY <1>1, <1>6 DEF Ended, After, Before, Writes
<1> QED
  BY <1>3, <1>4, <1>5, <1>6 DEF CallInv

\* How Settle() ends a call: with the result or, if its line cannot be written, without.
Outcome(c, result, r, l) ==
  /\ answer' = [answer EXCEPT ![c] = r] /\ log' = [log EXCEPT ![c] = l]
  /\ \/ r = result /\ l = After(result)
     \/ r = Rejected /\ l = Before /\ logFailures' > 0

LEMMA SettleEnds ==
  ASSUME CallTypes, NEW c \in Calls, NEW result \in Answers, Settle(c, Before, result),
         UNCHANGED logLevel
  PROVE  /\ timer' = timer \ {c} /\ logFailures' \in 0 .. MaxLogFailures
         /\ logFailures > 0 => logFailures' > 0
         /\ \E r \in Answers, l \in Seq(LogLine) : Outcome(c, result, r, l)
<1>1. logFailures \in Nat /\ MaxLogFailures \in Nat /\ logFailures <= MaxLogFailures
  BY DispatchAssumption DEF CallTypes
<1>2. timer' = timer \ {c}
  BY DEF Settle
<1>3. CASE /\ answer' = [answer EXCEPT ![c] = result]
           /\ log' = [log EXCEPT ![c] = After(result)]
           /\ UNCHANGED logFailures
  <2>1. After(result) \in Seq(LogLine)
    BY LinesAre DEF After
  <2>2. Outcome(c, result, result, After(result))
    BY <1>3 DEF Outcome
  <2>3. logFailures' \in 0 .. MaxLogFailures
    BY <1>1, <1>3
  <2> QED
    BY <1>2, <1>3, <2>1, <2>2, <2>3
<1>4. CASE /\ logFailures < MaxLogFailures /\ answer' = [answer EXCEPT ![c] = Rejected]
           /\ log' = [log EXCEPT ![c] = Before] /\ logFailures' = logFailures + 1
  <2>1. logFailures' \in 0 .. MaxLogFailures /\ logFailures' > 0
    BY <1>1, <1>4
  <2>2. Before \in Seq(LogLine) /\ Rejected \in Answers
    BY LinesAre, ResultTypes
  <2>3. Outcome(c, result, Rejected, Before)
    BY <1>4, <2>1 DEF Outcome
  <2> QED
    BY <1>2, <2>1, <2>2, <2>3
<1>5. /\ \/ /\ answer' = [answer EXCEPT ![c] = result]
            /\ log' = [log EXCEPT ![c] = After(result)]
            /\ UNCHANGED logFailures
         \/ /\ logFailures < MaxLogFailures /\ answer' = [answer EXCEPT ![c] = Rejected]
            /\ log' = [log EXCEPT ![c] = Before] /\ logFailures' = logFailures + 1
  BY DEF Settle, After, CanFail
<1> QED
  BY <1>3, <1>4, <1>5

\* A call that is new or at work, settled with a result that its work admits.
LEMMA SettleInv ==
  ASSUME CallTypes, CallInv, NEW c \in Calls, NEW result \in Answers, Settle(c, Before, result),
         NEW m \in Names, NEW w \in {"none", "running", "done", "failed"},
         method' = [method EXCEPT ![c] = m], work' = [work EXCEPT ![c] = w],
         UNCHANGED <<logLevel, refusal>>, refusal[c] = 0,
         result \in Possible[w], result # Rejected
  PROVE  CallTypes' /\ CallInv' /\ Ended(c)' /\ OnlyCall(c)
<1>1. /\ timer' = timer \ {c} /\ logFailures' \in 0 .. MaxLogFailures
      /\ logFailures > 0 => logFailures' > 0
  BY SettleEnds
<1>2. PICK r \in Answers, l \in Seq(LogLine) : Outcome(c, result, r, l)
  BY SettleEnds
<1>3. /\ method \in [Calls -> Names \cup {NoName}] /\ work \in [Calls -> {"none", "running", "done", "failed"}]
      /\ answer \in [Calls -> Answers] /\ log \in [Calls -> Seq(LogLine)] /\ timer \in SUBSET Calls
      /\ refusal \in [Calls -> Refusals] /\ logLevel \in {"off", "info", "warn"}
  BY DEF CallTypes, Answers
<1>4. CallTypes'
  <2>1. method' \in [Calls -> Names \cup {NoName}] /\ work' \in [Calls -> {"none", "running", "done", "failed"}]
    BY <1>3
  <2>2. answer' \in [Calls -> Answers] /\ log' \in [Calls -> Seq(LogLine)]
    BY <1>2, <1>3 DEF Outcome
  <2> QED
    BY <1>1, <1>3, <2>1, <2>2 DEF CallTypes, Answers
<1>5. OnlyCall(c)
  <2>1. \A d \in Calls \ {c} : /\ method'[d] = method[d] /\ work'[d] = work[d]
                               /\ answer'[d] = answer[d] /\ log'[d] = log[d]
    BY <1>2, <1>3 DEF Outcome
  <2> QED
    BY <1>1, <2>1 DEF OnlyCall
<1>6. method'[c] = m /\ work'[c] = w /\ answer'[c] = r /\ log'[c] = l
  BY <1>2, <1>3 DEF Outcome
<1>7. Ended(c)'
  <2>1. Rejected \in Possible[w] /\ m # NoName
    BY PossibleAnswers, DispatchAssumption
  <2>2. Before' = Before /\ (After(r))' = After(r)
    BY DEF Before, After, Writes
  <2>3. method'[c] # NoName /\ refusal'[c] = 0 /\ c \notin timer'
    BY <1>1, <1>6, <2>1
  <2>4. answer'[c] \in Possible[work'[c]]
    BY <1>2, <1>6, <2>1 DEF Outcome
  <2>5. IF r = Rejected THEN logFailures' > 0 /\ l = Before ELSE l = After(r)
    BY <1>2 DEF Outcome
  <2>6. IF answer'[c] = Rejected THEN logFailures' > 0 /\ log'[c] = Before' ELSE log'[c] = (After(r))'
    BY <1>6, <2>2, <2>5
  <2>7. Ended(c)' <=> /\ method'[c] # NoName /\ refusal'[c] = 0 /\ c \notin timer'
                      /\ answer'[c] \in Possible[work'[c]]
                      /\ IF answer'[c] = Rejected
                         THEN logFailures' > 0 /\ (work'[c] = "none" \/ log'[c] = Before')
                         ELSE log'[c] = (After(r))'
    BY <1>6 DEF Ended, After
  <2> QED
    BY <2>3, <2>4, <2>6, <2>7
<1> QED
  BY <1>4, <1>5, <1>7, OneCall

\* Nothing of what has been answered changes, and no tool is started.
AnswersStay == \A k \in Calls : answer[k] # None => answer'[k] = answer[k]
NoneStarts  == \A k \in Calls : work'[k] = "running" => work[k] = "running"

LEMMA TimeoutInv ==
  ASSUME CallTypes, CallInv, NEW c \in Calls, RouterTimeout(c), UNCHANGED refusal
  PROVE  CallTypes' /\ CallInv' /\ method' = method /\ AnswersStay /\ NoneStarts
<1>1. AtWork(c)
  BY DEF RouterTimeout, CallInv, Fresh, Refused, Ended
<1>2. /\ method[c] # NoName /\ work[c] = "running" /\ answer[c] = None
      /\ log[c] = Before /\ refusal[c] = 0
  BY <1>1 DEF AtWork
<1>3. method[c] \in Names
  BY <1>2 DEF CallTypes
<1>4. /\ method' = [method EXCEPT ![c] = method[c]] /\ work' = [work EXCEPT ![c] = "running"]
      /\ method' = method /\ work' = work /\ UNCHANGED <<logLevel, refusal>>
      /\ Settle(c, Before, Error(CHANNEL_TIMEOUT))
  BY <1>2 DEF RouterTimeout, CallTypes
<1>5. /\ Error(CHANNEL_TIMEOUT) \in Answers /\ Error(CHANNEL_TIMEOUT) # Rejected
      /\ Error(CHANNEL_TIMEOUT) \in Possible["running"]
  BY ResultTypes, ResultsDiffer, PossibleAnswers
<1>6. CallTypes' /\ CallInv' /\ OnlyCall(c)
  BY <1>2, <1>3, <1>4, <1>5, SettleInv
<1>7. AnswersStay /\ NoneStarts
  BY <1>2, <1>4, <1>6 DEF OnlyCall, AnswersStay, NoneStarts
<1> QED
  BY <1>4, <1>6, <1>7

LEMMA CompletesInv ==
  ASSUME CallTypes, CallInv, NEW c \in Calls, NEW ends \in {"done", "failed"}, Completes(c, ends),
         UNCHANGED refusal
  PROVE  CallTypes' /\ CallInv' /\ method' = method /\ AnswersStay /\ NoneStarts
<1>1. /\ work[c] = "running" /\ work' = [work EXCEPT ![c] = ends]
      /\ method' = method /\ UNCHANGED <<logLevel, refusal>>
  BY DEF Completes
<1>2. NoneStarts /\ work'[c] = ends
  BY <1>1 DEF CallTypes, NoneStarts
<1>3. CASE answer[c] # None
  <2>1. UNCHANGED <<timer, answer, log, logFailures>>
    BY <1>3 DEF Completes
  <2>2. Ended(c)
    BY <1>3 DEF CallInv, Fresh, Refused, AtWork
  <2>3. CallTypes' /\ AnswersStay
    BY <1>1, <2>1 DEF CallTypes, AnswersStay
  <2>4. OnlyCall(c)
    BY <1>1, <2>1 DEF OnlyCall, CallTypes
  <2>5. answer[c] \in Possible[ends]
    BY <1>1, <2>2, PossibleAnswers DEF Ended
  <2>6. IF answer[c] = Rejected THEN logFailures > 0 /\ log[c] = Before ELSE log[c] = After(answer[c])
    BY <1>1, <2>2 DEF Ended
  <2>7. Before' = Before /\ (After(answer[c]))' = After(answer[c])
    BY <1>1, <2>1 DEF Before, After, Writes
  <2>8. Ended(c)'
    BY <1>1, <1>2, <2>1, <2>2, <2>5, <2>6, <2>7 DEF Ended
  <2> QED
    BY <1>1, <1>2, <2>3, <2>4, <2>8, OneCall
<1>4. CASE answer[c] = None
  <2>1. AtWork(c)
    BY <1>1, <1>4, EndedHasAnswer DEF CallInv, Fresh, Refused
  <2>2. method[c] # NoName /\ log[c] = Before /\ refusal[c] = 0
    BY <2>1 DEF AtWork
  <2>3. PICK result : /\ result \in {Ok, Error(INTERNAL_ERROR)} /\ Settle(c, Before, result)
                      /\ ends = "done" => result = Ok
                      /\ ends = "failed" => result = Error(INTERNAL_ERROR)
    BY <1>4, <2>2 DEF Completes, errorFromException
  <2>4. result \in Answers /\ result # Rejected /\ result \in Possible[ends]
    BY <2>3, ResultTypes, ResultsDiffer, PossibleAnswers
  <2>5. method[c] \in Names /\ method' = [method EXCEPT ![c] = method[c]]
    BY <1>1, <2>2 DEF CallTypes
  <2>6. CallTypes' /\ CallInv' /\ OnlyCall(c)
    BY <1>1, <2>2, <2>3, <2>4, <2>5, SettleInv
  <2>7. AnswersStay
    BY <1>4, <2>6 DEF OnlyCall, AnswersStay
  <2> QED
    BY <1>1, <1>2, <2>6, <2>7
<1> QED
  BY <1>3, <1>4

LEMMA DispatchInv ==
  ASSUME CallTypes, CallInv, DispatchStep, UNCHANGED refusal
  PROVE  CallTypes' /\ CallInv' /\ method' = method /\ AnswersStay /\ NoneStarts
BY TimeoutInv, CompletesInv DEF DispatchStep

\* dispatch() is called: the call is at work, and then it is a call of the router, or has ended.
LEMMA StartInv ==
  ASSUME CallTypes, CallInv, NEW c \in Calls, NEW m \in Names, StartDispatch(c, m), UNCHANGED refusal
  PROVE  /\ CallTypes' /\ CallInv' /\ OnlyCall(c) /\ AnswersStay
         /\ method[c] = NoName /\ method' = [method EXCEPT ![c] = m]
         /\ work'[c] = "running" => m \in NameSet(tools)
<1>1. /\ method[c] = NoName /\ method' = [method EXCEPT ![c] = m] /\ UNCHANGED <<tools, logLevel, refusal>>
  BY DEF StartDispatch, Idle
<1>2. Fresh(c)
  BY <1>1 DEF CallInv, Refused, AtWork, Ended
<1>3. /\ work[c] = "none" /\ answer[c] = None /\ log[c] = <<>> /\ refusal[c] = 0 /\ c \notin timer
  BY <1>2 DEF Fresh
<1>4. (IF Writes("info") THEN <<Line("before", "-")>> ELSE <<>>) = Before
  BY DEF Writes, Before
<1>5. m # NoName /\ method'[c] = m
  BY <1>1, DispatchAssumption DEF CallTypes
<1>6. \/ Route(c, m, Before)
      \/ /\ logFailures < MaxLogFailures /\ answer' = [answer EXCEPT ![c] = Rejected]
         /\ logFailures' = logFailures + 1 /\ UNCHANGED <<work, timer, log>>
  BY <1>4 DEF StartDispatch, CanFail
<1>7. \/ \E result \in {Error(METHOD_NOT_FOUND), Error(INTERNAL_ERROR), Unavailable} :
           Settle(c, Before, result) /\ UNCHANGED work
      \/ m \in NameSet(tools) /\ Forward(c, Before)
      \/ /\ logFailures < MaxLogFailures /\ answer' = [answer EXCEPT ![c] = Rejected]
         /\ logFailures' = logFailures + 1 /\ UNCHANGED <<work, timer, log>>
  BY <1>6 DEF Route, toolIndex, errorFromException
<1>8. CASE \E result \in {Error(METHOD_NOT_FOUND), Error(INTERNAL_ERROR), Unavailable} :
             Settle(c, Before, result) /\ UNCHANGED work
  <2>1. PICK result \in {Error(METHOD_NOT_FOUND), Error(INTERNAL_ERROR), Unavailable} :
          Settle(c, Before, result) /\ UNCHANGED work
    BY <1>8
  <2>2. result \in Answers /\ result # Rejected /\ result \in Possible["none"]
    BY <2>1, ResultTypes, ResultsDiffer, PossibleAnswers
  <2>3. work' = [work EXCEPT ![c] = "none"]
    BY <1>3, <2>1 DEF CallTypes
  <2>4. CallTypes' /\ CallInv' /\ OnlyCall(c)
    BY <1>1, <1>3, <2>1, <2>2, <2>3, SettleInv
  <2> QED
    BY <1>1, <1>3, <2>1, <2>4 DEF OnlyCall, AnswersStay
<1>9. CASE m \in NameSet(tools) /\ Forward(c, Before)
  <2>1. /\ work' = [work EXCEPT ![c] = "running"] /\ timer' = timer \cup {c}
        /\ log' = [log EXCEPT ![c] = Before] /\ UNCHANGED <<answer, logFailures>>
    BY <1>9 DEF Forward
  <2>2. /\ method \in [Calls -> Names \cup {NoName}] /\ work \in [Calls -> {"none", "running", "done", "failed"}]
        /\ log \in [Calls -> Seq(LogLine)] /\ timer \in SUBSET Calls
    BY DEF CallTypes
  <2>3. /\ method' \in [Calls -> Names \cup {NoName}] /\ work' \in [Calls -> {"none", "running", "done", "failed"}]
        /\ log' \in [Calls -> Seq(LogLine)] /\ timer' \in SUBSET Calls
    BY <1>1, <2>1, <2>2, LinesAre
  <2>4. CallTypes'
    BY <1>1, <2>1, <2>3 DEF CallTypes
  <2>5. OnlyCall(c) /\ AnswersStay
    BY <1>1, <2>1, <2>2 DEF OnlyCall, AnswersStay
  <2>6. Before' = Before
    BY <1>1 DEF Before
  <2>7. AtWork(c)'
    BY <1>1, <1>3, <1>5, <2>1, <2>2, <2>6 DEF AtWork
  <2> QED
    BY <1>1, <1>9, <2>4, <2>5, <2>7, OneCall
<1>10. CASE /\ logFailures < MaxLogFailures /\ answer' = [answer EXCEPT ![c] = Rejected]
            /\ logFailures' = logFailures + 1 /\ UNCHANGED <<work, timer, log>>
  <2>1. logFailures' \in 0 .. MaxLogFailures /\ logFailures' > 0
    BY <1>10, DispatchAssumption DEF CallTypes
  <2>2. /\ method \in [Calls -> Names \cup {NoName}] /\ answer \in [Calls -> Answers]
    BY DEF CallTypes, Answers
  <2>3. /\ method' \in [Calls -> Names \cup {NoName}] /\ answer' \in [Calls -> Answers]
    BY <1>1, <1>10, <2>2, ResultTypes
  <2>4. CallTypes'
    BY <1>1, <1>10, <2>1, <2>3 DEF CallTypes, Answers
  <2>5. OnlyCall(c) /\ AnswersStay
    BY <1>1, <1>3, <1>10, <2>1, <2>2 DEF OnlyCall, AnswersStay
  <2>6. answer'[c] = Rejected /\ Rejected \in Possible["none"]
    BY <1>10, <2>2, PossibleAnswers
  <2>7. Ended(c)'
    BY <1>1, <1>3, <1>5, <1>10, <2>1, <2>6 DEF Ended
  <2> QED
    BY <1>1, <1>3, <1>10, <2>4, <2>5, <2>7, OneCall
<1> QED
  BY <1>7, <1>8, <1>9, <1>10

\* The handler refuses a call.
LEMMA RefuseInv ==
  ASSUME CallTypes, CallInv, NEW c \in Calls, NEW n \in Names, NEW code \in Refusals \ {0},
         Idle(c), Refuse(c, n, code)
  PROVE  CallTypes' /\ CallInv' /\ AnswersStay /\ work' = work /\ refusal' = [refusal EXCEPT ![c] = code]
<1>1. /\ method' = [method EXCEPT ![c] = n] /\ refusal' = [refusal EXCEPT ![c] = code]
      /\ UNCHANGED <<logLevel, work, timer, answer, log, logFailures>>
  BY DEF Refuse
<1>2. Fresh(c)
  BY DEF Idle, CallInv, Refused, AtWork, Ended
<1>3. method' \in [Calls -> Names \cup {NoName}] /\ refusal' \in [Calls -> Refusals]
  BY <1>1 DEF CallTypes
<1>4. CallTypes'
  BY <1>1, <1>3 DEF CallTypes
<1>5. OnlyCall(c) /\ method'[c] = n /\ refusal'[c] = code
  BY <1>1 DEF OnlyCall, CallTypes
<1>6. Refused(c)'
  BY <1>1, <1>2, <1>5, DispatchAssumption DEF Fresh, Refused
<1> QED
  BY <1>1, <1>4, <1>5, <1>6, OneCall DEF AnswersStay

-----------------------------------------------------------------------------
(* Licenses and lists.                                                     *)

LEMMA FailsTypes ==
  ASSUME LicenseTypeOK, Fails \/ UNCHANGED unread
  PROVE  unread' \in 0 .. MaxUnread
  BY LicenseAssumption DEF LicenseTypeOK, Fails

LEMMA ListingTypes ==
  ASSUME LicenseTypeOK, Listing
  PROVE  /\ found' \in [KeyFiles -> Stamps] /\ todo' \in SUBSET KeyFiles
         /\ unread' \in 0 .. MaxUnread
<1>1. MaxUnread \in Nat /\ unread \in 0 .. MaxUnread /\ 0 \in Stamps
  BY LicenseAssumption DEF LicenseTypeOK, Stamps
<1>2. found' \in [KeyFiles -> Stamps]
  BY <1>1 DEF Listing, NoFiles
<1>3. unread' \in 0 .. MaxUnread
  BY FailsTypes DEF Listing
<1>4. todo' \in SUBSET KeyFiles
  BY DEF Listing, Present, LicenseTypeOK
<1> QED
  BY <1>2, <1>3, <1>4

LEMMA UnlockedTypes == \A records : unlockedModulesFromLicenses(records) \in SUBSET RpgModules
  BY DEF unlockedModulesFromLicenses

LEMMA LicenseTypesStay ==
  ASSUME LicenseTypeOK, LicenseNext
  PROVE  LicenseTypeOK'
<1>0. MaxEdits \in Nat /\ 0 \in Stamps /\ 1 \in Stamps
  BY LicenseAssumption DEF Stamps
<1>1. CASE StartLoad
  BY <1>1, ListingTypes DEF StartLoad, LoadListing, LicenseTypeOK
<1>2. CASE Loaded
  <2>1. unlocked' \in SUBSET RpgModules /\ UNCHANGED <<keys, edits, snapshot, closed, missed>>
    BY <1>2, UnlockedTypes DEF Loaded
  <2>2. CASE poll' = "first" /\ Listing
    BY <2>1, <2>2, ListingTypes DEF LicenseTypeOK
  <2>3. CASE NextTick /\ UNCHANGED <<todo, found, unread>>
    BY <2>1, <2>3 DEF LicenseTypeOK, NextTick
  <2> QED
    BY <1>2, <2>2, <2>3 DEF Loaded
<1>3. CASE Tick
  BY <1>3, ListingTypes DEF Tick, LicenseTypeOK
<1>4. CASE Compared
  <2>1. snapshot' \in [KeyFiles -> Stamps] /\ UNCHANGED <<keys, edits, unlocked, closed>>
    BY <1>4 DEF Compared, LicenseTypeOK
  <2>2. CASE poll' = "listen" /\ LoadListing
    BY <2>1, <2>2, ListingTypes DEF LoadListing, LicenseTypeOK
  <2>3. CASE NextTick /\ UNCHANGED <<todo, found, unread, missed>>
    BY <2>1, <2>3 DEF LicenseTypeOK, NextTick
  <2> QED
    BY <1>4, <2>2, <2>3 DEF Compared
<1>5. ASSUME NEW f \in KeyFiles, ReadKey(f)
      PROVE  LicenseTypeOK'
  <2>1. found' \in [KeyFiles -> Stamps]
    BY <1>0, <1>5 DEF ReadKey, LicenseTypeOK
  <2>2. unread' \in 0 .. MaxUnread
    BY <1>5, FailsTypes DEF ReadKey
  <2>3. missed' \in BOOLEAN
    BY <1>5 DEF ReadKey, LicenseTypeOK
  <2> QED
    BY <1>5, <2>1, <2>2, <2>3 DEF ReadKey, LicenseTypeOK
<1>6. ASSUME NEW f \in KeyFiles, StatKey(f)
      PROVE  LicenseTypeOK'
  <2>1. keys[f].stamp \in Stamps
    BY DEF LicenseTypeOK
  <2>2. found' \in [KeyFiles -> Stamps]
    BY <1>6, <2>1 DEF StatKey, LicenseTypeOK
  <2>3. unread' \in 0 .. MaxUnread
    BY <1>6, FailsTypes DEF StatKey
  <2> QED
    BY <1>6, <2>2, <2>3 DEF StatKey, LicenseTypeOK
<1>7. CASE CloseWatcher
  BY <1>7 DEF CloseWatcher, LicenseTypeOK
<1>8. ASSUME NEW f \in KeyFiles, NEW stamp \in Stamps, NEW good \in BOOLEAN, EditKey(f, stamp, good)
      PROVE  LicenseTypeOK'
  <2>1. keys' \in [KeyFiles -> [stamp : Stamps, good : BOOLEAN]]
    BY <1>8 DEF EditKey, LicenseTypeOK
  <2>2. edits' \in 0 .. MaxEdits
    BY <1>0, <1>8 DEF EditKey, LicenseTypeOK
  <2>3. missed' \in BOOLEAN
    BY <1>8 DEF EditKey
  <2> QED
    BY <1>8, <2>1, <2>2, <2>3 DEF EditKey, LicenseTypeOK
<1> QED
  BY <1>1, <1>2, <1>3, <1>4, <1>5, <1>6, <1>7, <1>8 DEF LicenseNext, LicenseStep

LEMMA ExposedTypes ==
  ASSUME ExposureInv
  PROVE  Effective \in SUBSET RpgModules /\ Exposed \in SUBSET Names
<1>1. Effective \in SUBSET RpgModules
  BY DEF ExposureInv, LicenseTypeOK, Effective
<1> QED
  BY <1>1, CatalogAssumption DEF Exposed, currentlyAllowed, buildToolList

LEMMA ToolsStay ==
  ASSUME DispatchStep \/ \E c, m : StartDispatch(c, m)
  PROVE  tools' = tools
  BY DEF DispatchStep, RouterTimeout, Completes, StartDispatch

\* A handler keeps the filter: it calls a tool only if the list of the moment has it, and
\* refuses one, but for its arguments, only if that list does not.
StartsExposed ==
  \A c \in Calls : (work[c] = "none" /\ work'[c] = "running") => method'[c] \in Exposed
RefusesHidden ==
  \A c \in Calls : (refusal[c] = 0 /\ refusal'[c] \notin {0, INVALID_PARAMS}) => method'[c] \notin Exposed

LEMMA SdkStep ==
  ASSUME CallTypes, CallInv, ExposureInv, SdkNext
  PROVE  CallTypes' /\ CallInv' /\ ExposureInv' /\ AnswersStay /\ StartsExposed /\ RefusesHidden
<1>1. RequestNext /\ UNCHANGED <<front, bridgeVars>> /\ front = "sdk"
  BY DEF SdkNext
<1>2. CASE ListTools
  <2>1. /\ listed' = [names |-> Exposed, under |-> Effective]
        /\ UNCHANGED <<dispatchVars, licenseVars, profile, live, startupModules, refusal>>
    BY <1>2 DEF ListTools
  <2>2. CallTypes' /\ CallInv'
    BY <2>1 DEF CallTypes, CallInv, Fresh, Refused, AtWork, Ended, Before, After, Writes, dispatchVars
  <2>3. listed'.under \in SUBSET RpgModules /\ listed'.names = currentlyAllowed(tools', profile', listed'.under)
    BY <2>1, ExposedTypes DEF Exposed, dispatchVars
  <2>4. LicenseTypeOK'
    BY <2>1 DEF ExposureInv, LicenseTypeOK, licenseVars
  <2>5. ExposureInv'
    BY <1>1, <2>1, <2>3, <2>4 DEF ExposureInv
  <2> QED
    BY <2>1, <2>2, <2>5 DEF dispatchVars, AnswersStay, StartsExposed, RefusesHidden
<1>3. ASSUME NEW c \in ClientCalls, NEW n \in Names, NEW valid \in BOOLEAN, CallTool(c, n, valid)
      PROVE  CallTypes' /\ CallInv' /\ ExposureInv' /\ AnswersStay /\ StartsExposed /\ RefusesHidden
  <2>1. c \in Calls /\ Idle(c) /\ UNCHANGED <<licenseVars, profile, live, startupModules, listed>>
    BY <1>3, RequestAssumption DEF CallTool
  <2>2. CASE \E code \in Refusals \ {0} :
               Refuse(c, n, code) /\ (code = INVALID_PARAMS \/ n \notin Exposed)
    <3>1. PICK code \in Refusals \ {0} :
               Refuse(c, n, code) /\ (code = INVALID_PARAMS \/ n \notin Exposed)
      BY <2>2
    <3>2. CallTypes' /\ CallInv' /\ AnswersStay /\ work' = work /\ refusal' = [refusal EXCEPT ![c] = code]
      BY <2>1, <3>1, RefuseInv
    <3>3. tools' = tools /\ method'[c] = n /\ refusal'[c] = code
      BY <2>1, <3>1, <3>2 DEF Refuse, CallTypes
    <3>4. LicenseTypeOK'
      BY <2>1 DEF ExposureInv, LicenseTypeOK, licenseVars
    <3>5. ExposureInv'
      BY <1>1, <2>1, <3>3, <3>4 DEF ExposureInv
    <3>6. StartsExposed
      BY <3>2 DEF StartsExposed
    <3>7. RefusesHidden
      BY <3>1, <3>2, <3>3 DEF RefusesHidden, CallTypes
    <3> QED
      BY <3>2, <3>5, <3>6, <3>7
  <2>3. CASE n \in Exposed /\ StartDispatch(c, n) /\ UNCHANGED refusal
    <3>1. /\ CallTypes' /\ CallInv' /\ OnlyCall(c) /\ AnswersStay
          /\ method' = [method EXCEPT ![c] = n]
      BY <2>1, <2>3, StartInv
    <3>2. tools' = tools /\ method'[c] = n
      BY <2>1, <2>3, <3>1, ToolsStay DEF CallTypes
    <3>3. LicenseTypeOK'
      BY <2>1 DEF ExposureInv, LicenseTypeOK, licenseVars
    <3>4. ExposureInv'
      BY <1>1, <2>1, <3>2, <3>3 DEF ExposureInv
    <3>5. StartsExposed
      BY <2>3, <3>1, <3>2 DEF StartsExposed, OnlyCall
    <3>6. RefusesHidden
      BY <2>3 DEF RefusesHidden
    <3> QED
      BY <3>1, <3>4, <3>5, <3>6
  <2>4. /\ PROFILE_TOOL_FILTERED \in Refusals \ {0} /\ METHOD_NOT_FOUND \in Refusals \ {0}
        /\ INVALID_PARAMS \in Refusals \ {0}
    BY DEF Refusals, PROFILE_TOOL_FILTERED, METHOD_NOT_FOUND, INVALID_PARAMS
  <2> QED
    BY <1>3, <2>2, <2>3, <2>4 DEF CallTool
<1>4. CASE DispatchStep /\ UNCHANGED <<licenseVars, requestVars>>
  <2>1. /\ tools' = tools
        /\ UNCHANGED <<profile, live, startupModules, listed, refusal>>
    BY <1>4, ToolsStay DEF requestVars
  <2>2. CallTypes' /\ CallInv' /\ AnswersStay /\ NoneStarts
    BY <1>4, <2>1, DispatchInv
  <2>3. LicenseTypeOK'
    BY <1>4 DEF ExposureInv, LicenseTypeOK, licenseVars
  <2>4. ExposureInv'
    BY <1>1, <2>1, <2>3 DEF ExposureInv
  <2> QED
    BY <2>1, <2>2, <2>4 DEF NoneStarts, StartsExposed, RefusesHidden
<1>5. CASE LicenseNext /\ RegisterHandlers /\ UNCHANGED dispatchVars
  <2>1. UNCHANGED <<profile, live, listed, refusal>> /\ LicenseTypeOK'
    BY <1>5, LicenseTypesStay DEF RegisterHandlers, ExposureInv
  <2>2. CallTypes' /\ CallInv'
    BY <1>5, <2>1 DEF CallTypes, CallInv, Fresh, Refused, AtWork, Ended, Before, After, Writes, dispatchVars
  <2>3. startupModules' \in SUBSET RpgModules
    BY <1>5, <2>1 DEF RegisterHandlers, ExposureInv, LicenseTypeOK
  <2>4. ExposureInv'
    BY <1>1, <1>5, <2>1, <2>3 DEF ExposureInv, dispatchVars
  <2> QED
    BY <1>5, <2>1, <2>2, <2>4 DEF dispatchVars, AnswersStay, StartsExposed, RefusesHidden
<1> QED
  BY <1>1, <1>2, <1>3, <1>4, <1>5 DEF RequestNext

-----------------------------------------------------------------------------
(* The frames in their order.                                              *)

\* A queue whose head is taken, and what has been taken before it.
LEMMA QueueMoves ==
  ASSUME NEW a \in Seq(Nat), NEW q \in Seq(Nat), q # <<>>
  PROVE  /\ (a \o <<Head(q)>>) \o Tail(q) = (a \o <<>>) \o q
         /\ (Append(a, Head(q)) \o <<>>) \o Tail(q) = (a \o <<>>) \o q
<1>1. Head(q) \in Nat /\ Tail(q) \in Seq(Nat) /\ Len(q) \in Nat \ {0}
  BY HeadTailProperties, EmptySeq
<1>2. <<Head(q)>> \in Seq(Nat) /\ <<>> \in Seq(Nat)
  BY <1>1
<1>3. q = <<Head(q)>> \o Tail(q)
  BY <1>1
<1>4. (a \o <<Head(q)>>) \o Tail(q) = a \o (<<Head(q)>> \o Tail(q))
  BY <1>1, <1>2, ConcatAssociative
<1>5. a \o <<>> = a /\ Append(a, Head(q)) = a \o <<Head(q)>>
  BY <1>1, ConcatEmptySeq, AppendIsConcat
<1>6. Append(a, Head(q)) \in Seq(Nat)
  BY <1>1, AppendProperties
<1>7. Append(a, Head(q)) \o <<>> = Append(a, Head(q))
  BY <1>6, ConcatEmptySeq
<1> QED
  BY <1>3, <1>4, <1>5, <1>7

LEMMA ReplyMoves ==
  ASSUME NEW a \in Seq(Nat), NEW q \in Seq(Nat), NEW h \in Nat
  PROVE  (Append(a, h) \o <<>>) \o q = (a \o <<h>>) \o q
<1>1. Append(a, h) \in Seq(Nat) /\ Append(a, h) = a \o <<h>>
  BY AppendProperties, AppendIsConcat
<1>2. Append(a, h) \o <<>> = Append(a, h)
  BY <1>1, ConcatEmptySeq
<1> QED
  BY <1>1, <1>2

LEMMA QueuesJoin ==
  ASSUME NEW a \in Seq(Nat), NEW q \in Seq(Nat), NEW r \in Seq(Nat)
  PROVE  (a \o q) \o r = a \o (q \o r)
BY ConcatAssociative, Z3

\* What a chunk leaves of itself follows what the chunks before it have left.
LEMMA SplitIs ==
  ASSUME NEW i \in Nat \ {0}, NEW j \in Nat
  PROVE  /\ splitInbound(i, j) \in Seq({k \in i .. j : wire[k] # "junk"})
         /\ IsAscending(splitInbound(i, j))
         /\ ToSet(splitInbound(i, j)) = {k \in i .. j : wire[k] # "junk"}
<1>1. {k \in i .. j : wire[k] # "junk"} \in SUBSET (1 .. j)
  OBVIOUS
<1> QED
  BY <1>1, AscendingEnumerates DEF splitInbound

LEMMA SplitJoins ==
  ASSUME NEW a \in Nat, NEW n \in Nat, a <= n
  PROVE  splitInbound(1, a) \o splitInbound(a + 1, n) = splitInbound(1, n)
<1> DEFINE s == splitInbound(1, a)
           t == splitInbound(a + 1, n)
           F == {k \in 1 .. a : wire[k] # "junk"}
           G == {k \in a + 1 .. n : wire[k] # "junk"}
           H == {k \in 1 .. n : wire[k] # "junk"}
<1>1. /\ s \in Seq(F) /\ IsAscending(s) /\ ToSet(s) = F
      /\ t \in Seq(G) /\ IsAscending(t) /\ ToSet(t) = G
  <2>1. 1 \in Nat \ {0} /\ a + 1 \in Nat \ {0}
    OBVIOUS
  <2>2. s \in Seq(F) /\ IsAscending(s) /\ ToSet(s) = F
    BY <2>1, SplitIs
  <2>3. t \in Seq(G) /\ IsAscending(t) /\ ToSet(t) = G
    BY <2>1, SplitIs
  <2> QED
    BY <2>2, <2>3
<1>2. splitInbound(1, n) = Ascending(H)
  BY DEF splitInbound
<1>3. /\ H = F \cup G /\ H \subseteq 1 .. n
      /\ \A x \in F, y \in G : x < y /\ x \in Nat /\ y \in Nat
  OBVIOUS
<1> HIDE DEF s, t, F, G, H
<1>4. s \in Seq(H) /\ t \in Seq(H)
  BY <1>1, <1>3, SeqMonotonic
<1>5. /\ s \o t \in Seq(H) /\ Len(s \o t) = Len(s) + Len(t)
      /\ \A i \in 1 .. Len(s) + Len(t) : (s \o t)[i] = IF i <= Len(s) THEN s[i] ELSE t[i - Len(s)]
  BY <1>4, ConcatProperties
<1>6. /\ Len(s) \in Nat /\ DOMAIN s = 1 .. Len(s) /\ \A i \in DOMAIN s : s[i] \in F
      /\ Len(t) \in Nat /\ DOMAIN t = 1 .. Len(t) /\ \A i \in DOMAIN t : t[i] \in G
      /\ DOMAIN (s \o t) = 1 .. Len(s) + Len(t)
  BY <1>1, <1>5, LenProperties, ElementOfSeq
<1>7. IsAscending(s \o t)
  <2> SUFFICES ASSUME NEW j \in 1 .. Len(s) + Len(t), NEW k \in 1 .. Len(s) + Len(t), j < k
               PROVE  (s \o t)[j] < (s \o t)[k]
    BY <1>6 DEF IsAscending
  <2>1. CASE k <= Len(s)
    <3>1. j \in DOMAIN s /\ k \in DOMAIN s
      BY <1>6, <2>1
    <3> QED
      BY <1>1, <1>5, <2>1, <3>1 DEF IsAscending
  <2>2. CASE j <= Len(s) /\ ~(k <= Len(s))
    <3>1. j \in DOMAIN s /\ k - Len(s) \in DOMAIN t
      BY <1>6, <2>2
    <3> QED
      BY <1>3, <1>5, <1>6, <2>2, <3>1
  <2>3. CASE ~(j <= Len(s)) /\ ~(k <= Len(s))
    <3>1. j - Len(s) \in DOMAIN t /\ k - Len(s) \in DOMAIN t /\ j - Len(s) < k - Len(s)
      BY <1>6, <2>3
    <3>2. t[j - Len(s)] < t[k - Len(s)]
      BY <1>1, <3>1 DEF IsAscending
    <3> QED
      BY <1>5, <2>3, <3>2
  <2>4. k <= Len(s) => j <= Len(s)
    BY <1>6
  <2> QED
    BY <2>1, <2>2, <2>3, <2>4
<1>8. ToSet(s \o t) = H
  <2>1. ToSet(s \o t) \subseteq H
    BY <1>5, <1>6, ElementOfSeq DEF ToSet
  <2>2. ASSUME NEW x \in H
        PROVE  x \in ToSet(s \o t)
    <3>1. CASE x \in F
      <4>1. PICK i \in 1 .. Len(s) : s[i] = x
        BY <1>1, <1>6, <3>1 DEF ToSet
      <4>2. i \in 1 .. Len(s) + Len(t) /\ i <= Len(s)
        BY <1>6
      <4>3. (s \o t)[i] = x
        BY <1>5, <4>1, <4>2
      <4> QED
        BY <1>6, <4>2, <4>3 DEF ToSet
    <3>2. CASE x \in G
      <4>1. PICK i \in 1 .. Len(t) : t[i] = x
        BY <1>1, <1>6, <3>2 DEF ToSet
      <4>2. i + Len(s) \in 1 .. Len(s) + Len(t) /\ ~(i + Len(s) <= Len(s)) /\ (i + Len(s)) - Len(s) = i
        BY <1>6
      <4>3. (s \o t)[i + Len(s)] = x
        BY <1>5, <4>1, <4>2
      <4> QED
        BY <1>6, <4>2, <4>3 DEF ToSet
    <3> QED
      BY <1>3, <2>2, <3>1, <3>2
  <2> QED
    BY <2>1, <2>2
<1>9. s \o t \in Seq(1 .. n)
  BY <1>3, <1>5, SeqMonotonic
<1>10. s \o t = Ascending(H)
  BY <1>7, <1>8, <1>9, AscendingUnique
<1> QED
  BY <1>2, <1>10 DEF s, t

\* The answered frames are a sequence, which a reply continues.
LEMMA RepliesAre ==
  ASSUME StreamInv
  PROVE  Answered \in Seq(Nat)
<1>1. Len(stdout) \in Nat /\ DOMAIN stdout = 1 .. Len(stdout) /\ arrived \in Nat
  BY DEF StreamInv
<1>2. \A i \in 1 .. Len(stdout) : stdout[i].frame \in Nat
  BY <1>1 DEF StreamInv
<1> QED
  BY <1>1, <1>2, IsASeq DEF Answered

LEMMA ReplyIsLast ==
  ASSUME StreamInv, NEW k \in 1 .. arrived, NEW id \in {"id", "null"}, NEW code \in Int,
         writeResponse(k, id, code), ~stopped
  PROVE  Answered' = Append(Answered, k)
<1> DEFINE r == Reply(k, id, code)
           R == [frame : Nat, id : {"id", "null"}, code : Int]
<1>1. stdout \in Seq(R) /\ r \in R /\ r.frame = k /\ stdout' = Append(stdout, r) /\ k \in Nat
  BY DEF StreamInv, Reply, writeResponse
<1> HIDE DEF r, R
<1>2. /\ stdout' \in Seq(R) /\ Len(stdout') = Len(stdout) + 1
      /\ \A i \in 1 .. Len(stdout) : stdout'[i] = stdout[i]
      /\ stdout'[Len(stdout) + 1] = r
  BY <1>1, AppendProperties
<1>3. /\ Len(stdout) \in Nat /\ DOMAIN stdout = 1 .. Len(stdout) /\ DOMAIN stdout' = 1 .. Len(stdout) + 1
  BY <1>1, <1>2, LenProperties
<1>4. /\ Answered \in Seq(Nat) /\ Answered = [i \in 1 .. Len(stdout) |-> stdout[i].frame]
      /\ Answered' = [i \in 1 .. Len(stdout) + 1 |-> stdout'[i].frame]
  BY <1>3, RepliesAre DEF Answered
<1>5. Len(Answered) = Len(stdout)
  BY <1>3, <1>4
<1>6. /\ Append(Answered, k) \in Seq(Nat) /\ Len(Append(Answered, k)) = Len(stdout) + 1
      /\ \A i \in 1 .. Len(stdout) : Append(Answered, k)[i] = Answered[i]
      /\ Append(Answered, k)[Len(stdout) + 1] = k
  BY <1>1, <1>4, <1>5, AppendProperties
<1>7. \A i \in 1 .. Len(stdout) + 1 : Append(Answered, k)[i] = stdout'[i].frame
  <2> SUFFICES ASSUME NEW i \in 1 .. Len(stdout) + 1
               PROVE  Append(Answered, k)[i] = stdout'[i].frame
    OBVIOUS
  <2>1. CASE i = Len(stdout) + 1
    BY <1>1, <1>2, <1>6, <2>1
  <2>2. CASE i \in 1 .. Len(stdout)
    BY <1>2, <1>4, <1>6, <2>2
  <2>3. i = Len(stdout) + 1 \/ i \in 1 .. Len(stdout)
    BY <1>3
  <2> QED
    BY <2>1, <2>2, <2>3
<1>8. Append(Answered, k) = [i \in 1 .. Len(stdout) + 1 |-> Append(Answered, k)[i]]
  BY <1>6, LenProperties
<1> QED
  BY <1>4, <1>7, <1>8

-----------------------------------------------------------------------------
(* The steps of the bridge.                                                *)

LEMMA StreamTypes ==
  ASSUME StreamInv
  PROVE  /\ Len(wire) \in Nat /\ DOMAIN wire = 1 .. Len(wire) /\ MaxCalls \in Nat
         /\ arrived \in Nat /\ 1 .. arrived \subseteq Calls /\ 0 \notin Calls
BY DispatchAssumption DEF StreamInv, Calls

LEMMA WritesInv ==
  ASSUME BridgeInv, NEW kind \in FrameKinds, ClientWrites(kind), UNCHANGED front, front = "bridge"
  PROVE  BridgeInv'
<1>1. /\ Len(wire) < MaxCalls /\ wire' = Append(wire, kind)
      /\ UNCHANGED <<dispatchVars, arrived, processQueue, handling, stopped, stdout>>
  BY DEF ClientWrites
<1>2. /\ wire' \in Seq(FrameKinds) /\ Len(wire') = Len(wire) + 1
      /\ \A i \in 1 .. Len(wire) : wire'[i] = wire[i]
  BY <1>1, AppendProperties DEF BridgeInv, StreamInv
<1>3. \A i \in 1 .. arrived : wire'[i] = wire[i]
  BY <1>2, StreamTypes DEF BridgeInv, StreamInv
<1>4. StreamInv'
  <2>1. Len(wire') <= MaxCalls /\ arrived' \in 0 .. Len(wire')
    BY <1>1, <1>2, StreamTypes DEF BridgeInv, StreamInv
  <2> QED
    BY <1>1, <1>2, <2>1 DEF BridgeInv, StreamInv
<1>5. QueueInv'
  BY <1>1, <1>3 DEF BridgeInv, QueueInv, dispatchVars
<1>6. {k \in 1 .. arrived' : wire'[k] # "junk"} = {k \in 1 .. arrived : wire[k] # "junk"}
  BY <1>1, <1>3
<1>7. RepliesInOrder'
  BY <1>1, <1>6 DEF BridgeInv, RepliesInOrder, splitInbound, Answered, InHand
<1> QED
  BY <1>4, <1>5, <1>7 DEF BridgeInv

LEMMA DataInv ==
  ASSUME BridgeInv, NEW n \in Calls, OnData(n), UNCHANGED front, front = "bridge"
  PROVE  BridgeInv'
<1> DEFINE t == splitInbound(arrived + 1, n)
           G == {k \in arrived + 1 .. n : wire[k] # "junk"}
<1>1. /\ ~stopped /\ n \in arrived + 1 .. Len(wire) /\ arrived' = n
      /\ processQueue' = processQueue \o t
      /\ UNCHANGED <<dispatchVars, wire, handling, stopped, stdout>>
  BY DEF OnData
<1>2. arrived \in Nat /\ n \in Nat /\ arrived < n /\ n <= Len(wire) /\ Len(wire) \in Nat
      /\ arrived + 1 \in Nat \ {0}
  BY <1>1, StreamTypes DEF BridgeInv
<1>3. t \in Seq(G) /\ IsAscending(t) /\ ToSet(t) = G
  BY <1>2, SplitIs
<1>4. \A x \in G : x \in Nat /\ arrived < x /\ x <= n /\ wire[x] # "junk"
  BY <1>2
<1>j. splitInbound(1, arrived) \o t = splitInbound(1, n)
  <2>1. arrived <= n
    BY <1>2
  <2> QED
    BY <1>2, <2>1, SplitJoins
<1> HIDE DEF t, G
<1>5. processQueue \in Seq(Nat) /\ t \in Seq(Nat)
  BY <1>3, <1>4, SeqMonotonic DEF BridgeInv, StreamInv
<1>6. /\ processQueue' \in Seq(Nat) /\ Len(processQueue') = Len(processQueue) + Len(t)
      /\ \A i \in 1 .. Len(processQueue) + Len(t) :
           processQueue'[i] = IF i <= Len(processQueue) THEN processQueue[i] ELSE t[i - Len(processQueue)]
  BY <1>1, <1>5, ConcatProperties
<1>7. /\ Len(processQueue) \in Nat /\ DOMAIN processQueue = 1 .. Len(processQueue)
      /\ Len(t) \in Nat /\ DOMAIN t = 1 .. Len(t)
      /\ DOMAIN processQueue' = 1 .. Len(processQueue) + Len(t)
  BY <1>5, <1>6, LenProperties
<1>8. \A i \in DOMAIN t : t[i] \in Nat /\ arrived < t[i] /\ t[i] <= n /\ wire[t[i]] # "junk"
  BY <1>3, <1>4, <1>7, ElementOfSeq
<1>9. \A i \in DOMAIN processQueue' :
        \/ i \in DOMAIN processQueue /\ processQueue'[i] = processQueue[i]
        \/ /\ i - Len(processQueue) \in DOMAIN t /\ ~(i <= Len(processQueue))
           /\ processQueue'[i] = t[i - Len(processQueue)]
  BY <1>6, <1>7
<1>10. \A i \in DOMAIN processQueue : processQueue[i] \in 1 .. arrived
  BY DEF BridgeInv, QueueInv
<1>11. StreamInv'
  <2>1. \A i \in DOMAIN stdout : stdout[i].frame \in 1 .. n
    BY <1>2 DEF BridgeInv, StreamInv
  <2> QED
    BY <1>1, <1>2, <1>6, <2>1 DEF BridgeInv, StreamInv
<1>12. IsAscending(processQueue')
  <2> SUFFICES ASSUME NEW j \in DOMAIN processQueue', NEW k \in DOMAIN processQueue', j < k
               PROVE  processQueue'[j] < processQueue'[k]
    BY DEF IsAscending
  <2>0. j \in Nat /\ k \in Nat /\ Len(processQueue) \in Nat
    BY <1>7
  <2>1. CASE k \in DOMAIN processQueue /\ processQueue'[k] = processQueue[k]
    <3>1. j \in DOMAIN processQueue
      BY <1>7, <2>0, <2>1
    <3>2. processQueue'[j] = processQueue[j]
      BY <1>7, <1>9, <3>1
    <3> QED
      BY <2>1, <3>1, <3>2 DEF BridgeInv, QueueInv, IsAscending
  <2>2. CASE /\ k - Len(processQueue) \in DOMAIN t /\ ~(k <= Len(processQueue))
             /\ processQueue'[k] = t[k - Len(processQueue)]
    <3>1. CASE j \in DOMAIN processQueue /\ processQueue'[j] = processQueue[j]
      <4>1. processQueue[j] \in 1 .. arrived /\ t[k - Len(processQueue)] \in Nat
            /\ arrived < t[k - Len(processQueue)]
        BY <1>8, <1>10, <2>2, <3>1
      <4> QED
        BY <1>2, <2>2, <3>1, <4>1
    <3>2. CASE /\ j - Len(processQueue) \in DOMAIN t
               /\ processQueue'[j] = t[j - Len(processQueue)]
      <4>1. j - Len(processQueue) < k - Len(processQueue)
        BY <2>0
      <4> QED
        BY <1>3, <2>2, <3>2, <4>1 DEF IsAscending
    <3> QED
      BY <1>9, <3>1, <3>2
  <2> QED
    BY <1>9, <2>1, <2>2
<1>13. handling \in Nat /\ handling <= arrived
  BY <1>2 DEF BridgeInv, StreamInv, QueueInv
<1>14. \A i \in DOMAIN processQueue' :
         /\ processQueue'[i] \in 1 .. n /\ wire[processQueue'[i]] # "junk"
         /\ handling < processQueue'[i]
  <2> SUFFICES ASSUME NEW i \in DOMAIN processQueue'
               PROVE  /\ processQueue'[i] \in 1 .. n /\ wire[processQueue'[i]] # "junk"
                      /\ handling < processQueue'[i]
    OBVIOUS
  <2>1. CASE i \in DOMAIN processQueue /\ processQueue'[i] = processQueue[i]
    <3>1. processQueue[i] \in 1 .. arrived /\ wire[processQueue[i]] # "junk" /\ handling < processQueue[i]
      BY <2>1 DEF BridgeInv, QueueInv
    <3> QED
      BY <1>2, <2>1, <3>1
  <2>2. CASE i - Len(processQueue) \in DOMAIN t /\ processQueue'[i] = t[i - Len(processQueue)]
    <3>1. /\ t[i - Len(processQueue)] \in Nat /\ arrived < t[i - Len(processQueue)]
          /\ t[i - Len(processQueue)] <= n /\ wire[t[i - Len(processQueue)]] # "junk"
      BY <1>8, <2>2
    <3> QED
      BY <1>2, <1>13, <2>2, <3>1
  <2> QED
    BY <1>9, <2>1, <2>2
<1>15. ASSUME NEW k \in Calls, method[k] # NoName
       PROVE  k <= n /\ \A i \in DOMAIN processQueue' : k < processQueue'[i]
  <2>1. k \in Nat /\ k <= arrived /\ \A i \in DOMAIN processQueue : k < processQueue[i]
    BY <1>15 DEF BridgeInv, QueueInv, Calls
  <2>2. \A i \in DOMAIN t : k < t[i]
    BY <1>2, <1>8, <2>1
  <2> QED
    BY <1>2, <1>9, <2>1, <2>2
<1>16. QueueInv'
  <2>1. handling # 0 => handling \in 1 .. n
    BY <1>2 DEF BridgeInv, QueueInv
  <2> QED
    BY <1>1, <1>12, <1>14, <1>15, <2>1 DEF BridgeInv, QueueInv, dispatchVars
<1>17. RepliesInOrder'
  <2>2. (splitInbound(1, arrived))' = splitInbound(1, n)
    BY <1>1 DEF splitInbound
  <2>3. Answered' = Answered /\ InHand' = InHand
    BY <1>1 DEF Answered, InHand
  <2>4. (Answered \o InHand) \o processQueue = splitInbound(1, arrived)
    BY <1>1 DEF BridgeInv, RepliesInOrder
  <2>5. Answered \in Seq(Nat) /\ InHand \in Seq(Nat)
    BY <1>13, RepliesAre DEF BridgeInv, InHand
  <2>6. Answered \o InHand \in Seq(Nat)
    BY <2>5, ConcatProperties
  <2>7. ((Answered \o InHand) \o processQueue) \o t = (Answered \o InHand) \o (processQueue \o t)
    BY <1>5, <2>6, QueuesJoin
  <2>8. (Answered' \o InHand') \o processQueue' = (splitInbound(1, arrived))'
    <3>1. (Answered' \o InHand') \o processQueue' = (Answered \o InHand) \o (processQueue \o t)
      BY <1>1, <2>3
    <3>2. ((Answered \o InHand) \o processQueue) \o t = splitInbound(1, n)
      BY <1>j, <2>4
    <3> QED
      BY <2>2, <2>7, <3>1, <3>2
  <2> QED
    BY <2>8 DEF RepliesInOrder
<1> QED
  BY <1>11, <1>16, <1>17 DEF BridgeInv

\* The next frame, and those that stay.
LEMMA QueueHead ==
  ASSUME BridgeInv, processQueue # <<>>
  PROVE  /\ Head(processQueue) \in Calls /\ Head(processQueue) \in 1 .. arrived
         /\ wire[Head(processQueue)] # "junk"
         /\ Tail(processQueue) \in Seq(Nat) /\ IsAscending(Tail(processQueue))
         /\ \A i \in DOMAIN Tail(processQueue) :
              /\ i + 1 \in DOMAIN processQueue /\ Tail(processQueue)[i] = processQueue[i + 1]
              /\ Head(processQueue) < Tail(processQueue)[i]
         /\ front = "bridge" => \A k \in Calls : method[k] # NoName => k < Head(processQueue)
<1>1. processQueue \in Seq(Nat)
  BY DEF BridgeInv, StreamInv
<1>2. /\ Len(processQueue) \in Nat \ {0} /\ DOMAIN processQueue = 1 .. Len(processQueue)
      /\ Head(processQueue) = processQueue[1]
  BY <1>1, EmptySeq, LenProperties
<1>3. /\ Tail(processQueue) \in Seq(Nat) /\ Len(Tail(processQueue)) = Len(processQueue) - 1
      /\ \A i \in 1 .. Len(Tail(processQueue)) : Tail(processQueue)[i] = processQueue[i + 1]
      /\ DOMAIN Tail(processQueue) = 1 .. Len(Tail(processQueue))
  BY <1>1, HeadTailProperties, LenProperties
<1>4. 1 \in DOMAIN processQueue /\ \A i \in DOMAIN Tail(processQueue) : i + 1 \in DOMAIN processQueue /\ 1 < i + 1
  BY <1>2, <1>3
<1>5. IsAscending(processQueue)
  BY DEF BridgeInv, QueueInv
<1>6. \A i \in DOMAIN Tail(processQueue) : Head(processQueue) < Tail(processQueue)[i]
  BY <1>2, <1>3, <1>4, <1>5 DEF IsAscending
<1>7. IsAscending(Tail(processQueue))
  <2> SUFFICES ASSUME NEW j \in DOMAIN Tail(processQueue), NEW k \in DOMAIN Tail(processQueue), j < k
               PROVE  Tail(processQueue)[j] < Tail(processQueue)[k]
    BY DEF IsAscending
  <2>1. j + 1 < k + 1
    BY <1>3
  <2> QED
    BY <1>3, <1>4, <1>5, <2>1 DEF IsAscending
<1>8. Head(processQueue) \in 1 .. arrived /\ wire[Head(processQueue)] # "junk"
  BY <1>2, <1>4 DEF BridgeInv, QueueInv
<1>9. Head(processQueue) \in Calls
  BY <1>8, StreamTypes DEF BridgeInv
<1>10. front = "bridge" => \A k \in Calls : method[k] # NoName => k < Head(processQueue)
  BY <1>2, <1>4 DEF BridgeInv, QueueInv
<1> QED
  BY <1>3, <1>4, <1>6, <1>7, <1>8, <1>9, <1>10

LEMMA WriteTypes ==
  ASSUME StreamInv, NEW k \in 1 .. arrived, NEW id \in {"id", "null"}, NEW code \in Int,
         writeResponse(k, id, code), UNCHANGED <<front, wire, arrived, stopped>>,
         processQueue' \in Seq(Nat), handling' \in Nat
  PROVE  StreamInv'
<1> DEFINE R == [frame : Nat, id : {"id", "null"}, code : Int]
<1>1. k \in Nat /\ stdout \in Seq(R) /\ \A i \in DOMAIN stdout : stdout[i].frame \in 1 .. arrived
  BY DEF StreamInv
<1>2. stdout' \in Seq(R) /\ \A i \in DOMAIN stdout' : stdout'[i].frame \in 1 .. arrived
  <2>1. CASE stopped
    BY <1>1, <2>1 DEF writeResponse
  <2>2. CASE ~stopped
    <3>1. Reply(k, id, code) \in R /\ Reply(k, id, code).frame = k /\ stdout' = Append(stdout, Reply(k, id, code))
      BY <1>1, <2>2 DEF Reply, writeResponse
    <3>2. /\ stdout' \in Seq(R) /\ Len(stdout') = Len(stdout) + 1
          /\ \A i \in 1 .. Len(stdout) : stdout'[i] = stdout[i]
          /\ stdout'[Len(stdout) + 1] = Reply(k, id, code)
      BY <1>1, <3>1, AppendProperties
    <3>3. /\ Len(stdout) \in Nat /\ DOMAIN stdout = 1 .. Len(stdout) /\ DOMAIN stdout' = 1 .. Len(stdout) + 1
      BY <1>1, <3>2, LenProperties
    <3>4. \A i \in DOMAIN stdout' : i \in DOMAIN stdout \/ i = Len(stdout) + 1
      BY <3>3
    <3> QED
      BY <1>1, <3>1, <3>2, <3>3, <3>4
  <2> QED
    BY <2>1, <2>2 DEF StreamInv
<1> QED
  BY <1>2 DEF StreamInv

LEMMA RefusesInv ==
  ASSUME BridgeInv, DrainRefuses, UNCHANGED front, front = "bridge"
  PROVE  BridgeInv'
<1> DEFINE k == Head(processQueue)
<1>1. /\ handling = 0 /\ processQueue # <<>>
      /\ processQueue' = Tail(processQueue)
      /\ UNCHANGED <<dispatchVars, wire, arrived, handling, stopped>>
  BY DEF DrainRefuses
<1>2. PICK code \in {-32700, -32600} : writeResponse(k, sanitizeId(k), code)
  BY DEF DrainRefuses
<1>3. code \in Int /\ sanitizeId(k) \in {"id", "null"} /\ k \in 1 .. arrived /\ 0 \in Nat
  BY <1>1, QueueHead DEF sanitizeId
<1>4. StreamInv'
  BY <1>1, <1>2, <1>3, QueueHead, WriteTypes DEF BridgeInv
<1>5. QueueInv'
  <2>1. /\ IsAscending(processQueue')
        /\ \A i \in DOMAIN processQueue' : i + 1 \in DOMAIN processQueue /\ processQueue'[i] = processQueue[i + 1]
    BY <1>1, QueueHead
  <2> QED
    BY <1>1, <2>1 DEF BridgeInv, QueueInv, dispatchVars
<1>6. RepliesInOrder'
  <2>1. CASE stopped
    BY <1>1, <2>1 DEF RepliesInOrder
  <2>2. CASE ~stopped
    <3>1. Answered' = Append(Answered, k)
      BY <1>2, <1>3, <2>2, ReplyIsLast DEF BridgeInv
    <3>2. InHand = <<>> /\ InHand' = <<>>
      BY <1>1 DEF InHand
    <3>5. (splitInbound(1, arrived))' = splitInbound(1, arrived)
      BY <1>1 DEF splitInbound
    <3>3. Answered \in Seq(Nat) /\ processQueue \in Seq(Nat)
      BY RepliesAre DEF BridgeInv, StreamInv
    <3>4. (Answered' \o InHand') \o processQueue' = (Answered \o InHand) \o processQueue
      BY <1>1, <3>1, <3>2, <3>3, QueueMoves
    <3> QED
      BY <2>2, <3>4, <3>5 DEF BridgeInv, RepliesInOrder
  <2> QED
    BY <2>1, <2>2
<1> QED
  BY <1>4, <1>5, <1>6 DEF BridgeInv

LEMMA DispatchesInv ==
  ASSUME CallTypes, BridgeInv, NEW m \in Names, DrainDispatches(m), UNCHANGED front, front = "bridge",
         OnlyCall(Head(processQueue)), AnswersStay
  PROVE  BridgeInv'
<1> DEFINE h == Head(processQueue)
<1>1. /\ handling = 0 /\ processQueue # <<>>
      /\ handling' = h /\ processQueue' = Tail(processQueue)
      /\ UNCHANGED <<wire, arrived, stopped, stdout>>
      /\ method' = [method EXCEPT ![h] = m]
  BY DEF DrainDispatches, StartDispatch
<1>2. /\ h \in Calls /\ h \in 1 .. arrived /\ h \in Nat /\ h # 0
      /\ Tail(processQueue) \in Seq(Nat)
      /\ IsAscending(processQueue')
      /\ \A i \in DOMAIN processQueue' :
           /\ i + 1 \in DOMAIN processQueue /\ processQueue'[i] = processQueue[i + 1] /\ h < processQueue'[i]
      /\ \A k \in Calls : method[k] # NoName => k < h
  BY <1>1, QueueHead DEF Calls
<1>3. StreamInv'
  BY <1>1, <1>2 DEF BridgeInv, StreamInv
<1>4. QueueInv'
  <2>1. method'[h] = m /\ m # NoName /\ \A k \in Calls \ {h} : method'[k] = method[k] /\ answer'[k] = answer[k]
    BY <1>1, <1>2, DispatchAssumption DEF CallTypes, OnlyCall
  <2>2. \A i \in DOMAIN processQueue' :
          /\ processQueue'[i] \in 1 .. arrived /\ wire[processQueue'[i]] # "junk"
    BY <1>2 DEF BridgeInv, QueueInv
  <2>3. ASSUME NEW k \in Calls, method'[k] # NoName
        PROVE  k <= arrived /\ k <= h /\ \A i \in DOMAIN processQueue' : k < processQueue'[i]
    <3>1. k \in Nat /\ h \in Nat /\ arrived \in Nat /\ \A i \in DOMAIN processQueue' : processQueue'[i] \in Nat
      BY <1>2, <2>2 DEF BridgeInv, StreamInv, Calls
    <3>2. k = h \/ k < h
      BY <1>2, <2>1, <2>3
    <3> QED
      BY <1>2, <3>1, <3>2
  <2>4. ASSUME NEW k \in Calls, answer'[k] = None, method'[k] # NoName
        PROVE  k = h
    <3>1. CASE k # h
      <4>1. answer[k] = None /\ method[k] # NoName
        BY <2>1, <2>4, <3>1
      <4>2. k = 0
        BY <1>1, <4>1 DEF BridgeInv, QueueInv
      <4> QED
        BY <4>2 DEF Calls
    <3> QED
      BY <3>1
  <2> QED
    BY <1>1, <1>2, <2>1, <2>2, <2>3, <2>4 DEF QueueInv
<1>5. RepliesInOrder'
  <2>1. InHand = <<>> /\ InHand' = <<h>> /\ Answered' = Answered
    BY <1>1, <1>2 DEF InHand, Answered
  <2>2. (splitInbound(1, arrived))' = splitInbound(1, arrived)
    BY <1>1 DEF splitInbound
  <2>3. Answered \in Seq(Nat) /\ processQueue \in Seq(Nat)
    BY RepliesAre DEF BridgeInv, StreamInv
  <2>4. (Answered' \o InHand') \o processQueue' = (Answered \o InHand) \o processQueue
    BY <1>1, <2>1, <2>3, QueueMoves
  <2> QED
    BY <1>1, <2>2, <2>4 DEF BridgeInv, RepliesInOrder
<1> QED
  BY <1>3, <1>4, <1>5 DEF BridgeInv

LEMMA RespondInv ==
  ASSUME CallTypes, BridgeInv, Respond, UNCHANGED front, front = "bridge"
  PROVE  BridgeInv'
<1>1. /\ handling # 0 /\ ~Pending(handling) /\ handling' = 0
      /\ writeResponse(handling, sanitizeId(handling), answer[handling].code)
      /\ UNCHANGED <<dispatchVars, wire, arrived, processQueue, stopped>>
  BY DEF Respond
<1>2. /\ handling \in 1 .. arrived /\ handling \in Calls /\ handling \in Nat
      /\ method[handling] # NoName /\ answer[handling] # None
  BY <1>1, StreamTypes DEF BridgeInv, QueueInv, StreamInv, Pending
<1>3. answer[handling].code \in Int /\ sanitizeId(handling) \in {"id", "null"} /\ 0 \in Nat
  BY <1>2 DEF CallTypes, sanitizeId
<1>4. StreamInv'
  <2>1. processQueue' \in Seq(Nat) /\ handling' \in Nat /\ StreamInv
    BY <1>1, <1>3 DEF BridgeInv, StreamInv
  <2> QED
    BY <1>1, <1>2, <1>3, <2>1, WriteTypes
<1>5. QueueInv'
  <2>1. \A i \in DOMAIN processQueue : processQueue[i] \in 1 .. arrived /\ 0 < processQueue[i]
    BY <1>2 DEF BridgeInv, QueueInv
  <2>2. \A k \in Calls : ~(answer[k] = None /\ method[k] # NoName)
    BY <1>2 DEF BridgeInv, QueueInv
  <2> QED
    BY <1>1, <2>1, <2>2 DEF BridgeInv, QueueInv, dispatchVars
<1>6. RepliesInOrder'
  <2>1. CASE stopped
    BY <1>1, <2>1 DEF RepliesInOrder
  <2>2. CASE ~stopped
    <3>1. Answered' = Append(Answered, handling)
      BY <1>1, <1>2, <1>3, <2>2, ReplyIsLast DEF BridgeInv
    <3>2. InHand = <<handling>> /\ InHand' = <<>> /\ (splitInbound(1, arrived))' = splitInbound(1, arrived)
      BY <1>1 DEF InHand, splitInbound
    <3>3. Answered \in Seq(Nat) /\ processQueue \in Seq(Nat)
      BY RepliesAre DEF BridgeInv, StreamInv
    <3>4. (Answered' \o InHand') \o processQueue' = (Answered \o InHand) \o processQueue
      BY <1>1, <1>2, <3>1, <3>2, <3>3, ReplyMoves
    <3> QED
      BY <2>2, <3>2, <3>4 DEF BridgeInv, RepliesInOrder
  <2> QED
    BY <2>1, <2>2
<1> QED
  BY <1>4, <1>5, <1>6 DEF BridgeInv

\* Steps that leave the frames alone and take no answer back.
LEMMA BridgeStays ==
  ASSUME BridgeInv, UNCHANGED <<front, bridgeVars>>,
         front = "bridge" => method' = method /\ AnswersStay
  PROVE  BridgeInv'
<1>1. UNCHANGED <<front, wire, arrived, processQueue, handling, stopped, stdout>>
  BY DEF bridgeVars
<1>2. StreamInv'
  BY <1>1 DEF BridgeInv, StreamInv
<1>3. QueueInv'
  BY <1>1 DEF BridgeInv, QueueInv, AnswersStay
<1>4. RepliesInOrder'
  BY <1>1 DEF BridgeInv, RepliesInOrder, splitInbound, Answered, InHand
<1> QED
  BY <1>2, <1>3, <1>4 DEF BridgeInv

\* The bridge starts what the router knows.
StartsKnown ==
  \A c \in Calls : (work[c] = "none" /\ work'[c] = "running") => method'[c] \in NameSet(tools)

LEMMA StdioStep ==
  ASSUME ServerInv, StdioNext
  PROVE  ServerInv' /\ AnswersStay /\ StartsKnown /\ UNCHANGED refusal
<1>1. front = "bridge" /\ BridgeNext /\ UNCHANGED <<front, licenseVars, requestVars>>
  BY DEF StdioNext
<1>2. UNCHANGED <<profile, live, startupModules, listed, refusal>> /\ LicenseTypeOK'
  BY <1>1 DEF requestVars, licenseVars, ServerInv, ExposureInv, LicenseTypeOK
<1>3. ASSUME tools' = tools
      PROVE  ExposureInv'
  BY <1>1, <1>2, <1>3 DEF ServerInv, ExposureInv
<1>4. ASSUME UNCHANGED dispatchVars, BridgeInv'
      PROVE  ServerInv' /\ AnswersStay /\ StartsKnown
  <2>1. CallTypes' /\ CallInv'
    BY <1>2, <1>4 DEF ServerInv, CallTypes, CallInv, Fresh, Refused, AtWork, Ended, Before, After, Writes, dispatchVars
  <2>2. ExposureInv'
    BY <1>3, <1>4 DEF dispatchVars
  <2>3. AnswersStay /\ StartsKnown
    BY <1>4 DEF dispatchVars, AnswersStay, StartsKnown
  <2> QED
    BY <1>4, <2>1, <2>2, <2>3 DEF ServerInv
<1>5. CallTypes /\ CallInv /\ BridgeInv
  BY DEF ServerInv
<1>6. ASSUME NEW kind \in FrameKinds, ClientWrites(kind)
      PROVE  BridgeInv' /\ UNCHANGED dispatchVars
  BY <1>1, <1>5, <1>6, WritesInv DEF ClientWrites
<1>7. ASSUME NEW n \in Calls, OnData(n)
      PROVE  BridgeInv' /\ UNCHANGED dispatchVars
  BY <1>1, <1>5, <1>7, DataInv DEF OnData
<1>8. CASE DrainRefuses
  <2>1. BridgeInv' /\ UNCHANGED dispatchVars
    BY <1>1, <1>5, <1>8, RefusesInv DEF DrainRefuses
  <2> QED
    BY <1>2, <1>4, <2>1
<1>9. CASE Respond
  <2>1. BridgeInv' /\ UNCHANGED dispatchVars
    BY <1>1, <1>5, <1>9, RespondInv DEF Respond
  <2> QED
    BY <1>2, <1>4, <2>1
<1>10. ASSUME NEW m \in Names, DrainDispatches(m)
       PROVE  ServerInv' /\ AnswersStay /\ StartsKnown
  <2>1. processQueue # <<>> /\ StartDispatch(Head(processQueue), m)
    BY <1>10 DEF DrainDispatches
  <2>2. Head(processQueue) \in Calls
    BY <1>5, <2>1, QueueHead
  <2>3. /\ CallTypes' /\ CallInv' /\ OnlyCall(Head(processQueue)) /\ AnswersStay
        /\ method' = [method EXCEPT ![Head(processQueue)] = m]
        /\ work'[Head(processQueue)] = "running" => m \in NameSet(tools)
    BY <1>2, <1>5, <2>1, <2>2, StartInv
  <2>4. BridgeInv'
    BY <1>1, <1>5, <1>10, <2>3, DispatchesInv
  <2>5. ExposureInv'
    BY <1>3, <2>1, ToolsStay
  <2>6. StartsKnown
    <3>1. method'[Head(processQueue)] = m
      BY <1>5, <2>2, <2>3 DEF CallTypes
    <3> QED
      BY <2>3, <3>1 DEF StartsKnown, OnlyCall
  <2> QED
    BY <2>3, <2>4, <2>5, <2>6 DEF ServerInv
<1>11. CASE DispatchStep /\ UNCHANGED bridgeVars
  <2>1. CallTypes' /\ CallInv' /\ method' = method /\ AnswersStay /\ NoneStarts
    BY <1>2, <1>5, <1>11, DispatchInv
  <2>2. BridgeInv'
    BY <1>1, <1>5, <1>11, <2>1, BridgeStays
  <2>3. ExposureInv'
    BY <1>3, <1>11, ToolsStay
  <2> QED
    BY <1>2, <2>1, <2>2, <2>3 DEF ServerInv, NoneStarts, StartsKnown
<1>12. CASE StopBridge
  <2>1. UNCHANGED <<front, dispatchVars, wire, arrived, processQueue, handling, stdout>> /\ stopped' = TRUE
    BY <1>1, <1>12 DEF StopBridge
  <2>2. StreamInv' /\ RepliesInOrder'
    BY <1>5, <2>1 DEF BridgeInv, StreamInv, RepliesInOrder
  <2>3. QueueInv'
    BY <1>5, <2>1 DEF BridgeInv, QueueInv, dispatchVars
  <2> QED
    BY <1>2, <1>4, <2>1, <2>2, <2>3 DEF BridgeInv
<1> QED
  BY <1>1, <1>2, <1>4, <1>6, <1>7, <1>8, <1>9, <1>10, <1>11, <1>12 DEF BridgeNext, BridgeStep

-----------------------------------------------------------------------------
(* The invariant.                                                          *)

LEMMA ServerInit == Init => ServerInv
<1> SUFFICES ASSUME Init
             PROVE  ServerInv
  OBVIOUS
<1>0. MaxCalls \in Nat /\ MaxLogFailures \in Nat /\ MaxEdits \in Nat /\ MaxUnread \in Nat
  BY DispatchAssumption, LicenseAssumption
<1>1. CallTypes
  <2>1. answer \in [Calls -> Answers]
    BY ResultTypes DEF Init, DispatchInit
  <2>2. log \in [Calls -> Seq(LogLine)] /\ logFailures \in 0 .. MaxLogFailures
    BY <1>0 DEF Init, DispatchInit
  <2> QED
    BY <2>1, <2>2 DEF Init, DispatchInit, RequestInit, CallTypes, Answers, Refusals
<1>2. CallInv
  BY DEF Init, DispatchInit, RequestInit, CallInv, Fresh
<1>3. LicenseTypeOK
  <2>1. 0 \in Stamps /\ 1 \in Stamps /\ 0 \in 0 .. MaxEdits /\ 0 \in 0 .. MaxUnread
    BY <1>0 DEF Stamps
  <2>2. keys \in [KeyFiles -> [stamp : Stamps, good : BOOLEAN]]
    BY <2>1 DEF Init, LicenseInit
  <2>3. snapshot \in [KeyFiles -> Stamps] /\ found \in [KeyFiles -> Stamps]
    BY <2>1 DEF Init, LicenseInit, NoFiles
  <2> QED
    BY <2>1, <2>2, <2>3 DEF Init, LicenseInit, LicenseTypeOK
<1>4. ExposureInv
  BY <1>3 DEF Init, RequestInit, ExposureInv
<1>5. StreamInv
  <2>1. wire = <<>> /\ processQueue = <<>> /\ stdout = <<>> /\ arrived = 0 /\ handling = 0 /\ stopped = FALSE
    BY DEF Init, BridgeInit
  <2>2. front \in {"sdk", "bridge"}
    BY DEF Init
  <2>3. /\ Len(<<>>) = 0 /\ 0 \in Nat /\ 0 <= MaxCalls /\ 0 \in 0 .. 0 /\ DOMAIN <<>> = {}
        /\ \A S : <<>> \in Seq(S)
    BY <1>0
  <2>4. \A i \in DOMAIN stdout : stdout[i].frame \in 1 .. arrived
    BY <2>1, <2>3
  <2> QED
    BY <2>1, <2>2, <2>3, <2>4 DEF StreamInv
<1>6. QueueInv
  BY DEF Init, BridgeInit, DispatchInit, QueueInv, IsAscending
<1>7. RepliesInOrder
  <2>1. arrived = 0 /\ processQueue = <<>> /\ InHand = <<>> /\ Answered = <<>>
    BY DEF Init, BridgeInit, InHand, Answered
  <2>2. splitInbound(1, 0) \in Seq({})
    <3>1. 1 \in Nat \ {0} /\ 0 \in Nat /\ {k \in 1 .. 0 : wire[k] # "junk"} = {}
      OBVIOUS
    <3> QED
      BY <3>1, SplitIs
  <2>3. splitInbound(1, 0) = <<>>
    BY <2>2
  <2>4. (<<>> \o <<>>) \o <<>> = <<>>
    OBVIOUS
  <2> QED
    BY <2>1, <2>3, <2>4 DEF RepliesInOrder
<1> QED
  BY <1>1, <1>2, <1>4, <1>5, <1>6, <1>7 DEF ServerInv, BridgeInv

LEMMA ServerNext ==
  ASSUME ServerInv, [Next]_vars
  PROVE  ServerInv'
<1>1. CASE SdkNext
  <2>1. CallTypes' /\ CallInv' /\ ExposureInv'
    BY <1>1, SdkStep DEF ServerInv
  <2>2. BridgeInv'
    BY <1>1, BridgeStays DEF ServerInv, SdkNext
  <2> QED
    BY <2>1, <2>2 DEF ServerInv
<1>2. CASE StdioNext
  BY <1>2, StdioStep
<1>3. CASE UNCHANGED vars
  <2>1. UNCHANGED <<front, dispatchVars, licenseVars, requestVars, bridgeVars>>
    BY <1>3 DEF vars
  <2>2. CallTypes' /\ CallInv'
    BY <2>1 DEF ServerInv, CallTypes, CallInv, Fresh, Refused, AtWork, Ended, Before, After, Writes,
                dispatchVars, requestVars
  <2>3. LicenseTypeOK'
    BY <2>1 DEF ServerInv, ExposureInv, LicenseTypeOK, licenseVars
  <2>4. ExposureInv'
    BY <2>1, <2>3 DEF ServerInv, ExposureInv, requestVars, dispatchVars
  <2>5. BridgeInv'
    BY <2>1, BridgeStays DEF ServerInv, dispatchVars, AnswersStay
  <2> QED
    BY <2>2, <2>4, <2>5 DEF ServerInv
<1> QED
  BY <1>1, <1>2, <1>3 DEF Next

LEMMA ServerInvariant == Spec => []ServerInv
  BY ServerInit, ServerNext, PTL DEF Spec

-----------------------------------------------------------------------------
(* What clients and log are told.                                          *)

\* Type correctness of the server with both of its fronts (createMcpServer and
\* createStdioBridge over ChannelDispatcher, with the watch of the licenses).
THEOREM TypeCorrect == Spec => []ServerTypeOK
<1>1. ASSUME ServerInv
      PROVE  ServerTypeOK
  <2>1. DispatchTypeOK
    BY <1>1 DEF ServerInv, CallTypes, DispatchTypeOK, LogLine
  <2>2. RequestTypeOK
    <3>1. listed.names \in SUBSET Names
      BY <1>1, CatalogAssumption DEF ServerInv, ExposureInv, currentlyAllowed, buildToolList
    <3> QED
      BY <1>1, <3>1 DEF ServerInv, CallTypes, ExposureInv, RequestTypeOK, Refusals
  <2>3. BridgeTypeOK
    <3>1. arrived \in Nat
      BY <1>1, StreamTypes DEF ServerInv, BridgeInv
    <3>2. processQueue \in Seq(1 .. arrived)
      <4>1. processQueue \in Seq(Nat) /\ \A i \in DOMAIN processQueue : processQueue[i] \in 1 .. arrived
        BY <1>1 DEF ServerInv, BridgeInv, StreamInv, QueueInv
      <4>2. Len(processQueue) \in Nat /\ DOMAIN processQueue = 1 .. Len(processQueue)
            /\ processQueue = [i \in 1 .. Len(processQueue) |-> processQueue[i]]
        BY <4>1, LenProperties
      <4>3. [i \in 1 .. Len(processQueue) |-> processQueue[i]] \in Seq(1 .. arrived)
        BY <4>1, <4>2, IsASeq
      <4> QED
        BY <4>2, <4>3
    <3>3. handling \in 0 .. arrived
      BY <1>1, <3>1 DEF ServerInv, BridgeInv, StreamInv, QueueInv
    <3>4. \A k \in DOMAIN stdout : stdout[k].frame \in 1 .. arrived /\ stdout[k].id \in {"id", "null"}
      <4>1. \A k \in DOMAIN stdout : stdout[k] \in [frame : Nat, id : {"id", "null"}, code : Int]
        BY <1>1, LenProperties, ElementOfSeq DEF ServerInv, BridgeInv, StreamInv
      <4> QED
        BY <1>1, <4>1 DEF ServerInv, BridgeInv, StreamInv
    <3> QED
      BY <1>1, <3>2, <3>3, <3>4 DEF ServerInv, BridgeInv, StreamInv, BridgeTypeOK
  <2> QED
    BY <1>1, <2>1, <2>2, <2>3 DEF ServerInv, BridgeInv, StreamInv, ExposureInv, ServerTypeOK
<1> QED
  BY <1>1, ServerInvariant, PTL

\* What a client is told is what happened (shapeDispatchResult() over dispatch()): success means
\* that the tool has ended well, a refusal that it was never started, and an internal error that
\* it failed or does not exist, unless a line of the log could not be written.
THEOREM ClientsAreTold == Spec => []AnswerTells
<1>1. ASSUME ServerInv
      PROVE  AnswerTells
  <2> SUFFICES ASSUME NEW c \in Calls
               PROVE  /\ Shaped(c) = Ok => work[c] = "done"
                      /\ Shaped(c).code \in NotStarted => work[c] = "none"
                      /\ Shaped(c) = Error(INTERNAL_ERROR) => (work[c] \in {"none", "failed"} \/ logFailures > 0)
    BY DEF AnswerTells
  <2>1. /\ work[c] \in {"none", "running", "done", "failed"} /\ refusal[c] \in Refusals
    BY <1>1 DEF ServerInv, CallTypes
  <2>2. /\ None.code = 0 /\ Ok.code = 0 /\ \A x : Error(x).code = x
        /\ 0 \notin NotStarted /\ INTERNAL_ERROR \notin NotStarted /\ CHANNEL_TIMEOUT \notin NotStarted
        /\ INTERNAL_ERROR \notin Refusals /\ CHANNEL_TIMEOUT # INTERNAL_ERROR
    BY DEF None, Ok, Error, NotStarted, Refusals, INTERNAL_ERROR, CHANNEL_TIMEOUT, PROFILE_TOOL_FILTERED,
           METHOD_NOT_FOUND, INVALID_PARAMS, CHANNEL_UNAVAILABLE
  <2>3. CASE Fresh(c)
    <3>1. Shaped(c) = None /\ work[c] = "none"
      BY <2>3, ResultsDiffer DEF Fresh, Shaped
    <3> QED
      BY <3>1, ResultsDiffer
  <2>4. CASE Refused(c)
    <3>1. Shaped(c) = Error(refusal[c]) /\ work[c] = "none"
      BY <2>4 DEF Refused, Shaped
    <3> QED
      BY <3>1, ResultsDiffer
  <2>5. CASE AtWork(c)
    <3>1. Shaped(c) = None
      BY <2>5, ResultsDiffer DEF AtWork, Shaped
    <3> QED
      BY <2>2, <3>1, ResultsDiffer
  <2>6. CASE Ended(c)
    <3>1. refusal[c] = 0 /\ answer[c] \in Possible[work[c]] /\ (answer[c] = Rejected => logFailures > 0)
      BY <2>6 DEF Ended
    <3>2. CASE answer[c] = Rejected
      <4>1. Shaped(c) = Error(INTERNAL_ERROR)
        BY <3>1, <3>2 DEF Shaped
      <4> QED
        BY <2>2, <3>1, <3>2, <4>1, ResultsDiffer
    <3>3. CASE answer[c] # Rejected
      <4>1. Shaped(c) = answer[c]
        BY <3>1, <3>3 DEF Shaped
      <4>2. CASE work[c] = "none"
        BY <3>1, <3>3, <4>1, <4>2, PossibleAnswers, ResultsDiffer
      <4>3. CASE work[c] = "running"
        BY <2>2, <3>1, <3>3, <4>1, <4>3, PossibleAnswers, ResultsDiffer
      <4>4. CASE work[c] = "done"
        BY <2>2, <3>1, <3>3, <4>1, <4>4, PossibleAnswers, ResultsDiffer
      <4>5. CASE work[c] = "failed"
        BY <2>2, <3>1, <3>3, <4>1, <4>5, PossibleAnswers, ResultsDiffer
      <4> QED
        BY <2>1, <4>2, <4>3, <4>4, <4>5
    <3> QED
      BY <3>2, <3>3
  <2> QED
    BY <1>1, <2>3, <2>4, <2>5, <2>6 DEF ServerInv, CallInv
<1> QED
  BY <1>1, ServerInvariant, PTL

LEMMA AppendToOne == ASSUME NEW S, NEW s \in Seq(S), NEW y \in S
  PROVE  Len(s) = 1 => Append(s, y) = <<s[1], y>>
<1>1. /\ Append(s, y) \in Seq(S) /\ Len(Append(s, y)) = Len(s) + 1
      /\ \A i \in 1 .. Len(s) : Append(s, y)[i] = s[i]
      /\ Append(s, y)[Len(s) + 1] = y
  BY AppendProperties
<1> HAVE Len(s) = 1
<1>2. Append(s, y)[1] = s[1] /\ Append(s, y)[2] = y /\ Len(Append(s, y)) = 2
  BY <1>1
<1> DEFINE t == <<s[1], y>>
<1>3. s[1] \in S
  BY ElementOfSeq
<1>4. t \in Seq(S) /\ Len(t) = 2 /\ t[1] = s[1] /\ t[2] = y
  BY <1>3
<1> HIDE DEF t
<1>5. \A i \in 1 .. 2 : Append(s, y)[i] = t[i]
  BY <1>2, <1>4
<1>6. Append(s, y) = t
  BY <1>1, <1>2, <1>4, <1>5, SeqEqual
<1> QED
  BY <1>6 DEF t

LEMMA PairOfLines ==
  ASSUME NEW S, NEW x \in S, NEW y \in S
  PROVE  Append(<<x>>, y) = <<x, y>>
<1> DEFINE s == <<x>>
<1>1. s \in Seq(S) /\ Len(s) = 1 /\ s[1] = x
  OBVIOUS
<1> HIDE DEF s
<1>2. Append(s, y) = <<s[1], y>>
  BY <1>1, AppendToOne, Zenon
<1>3. Append(s, y) = <<x, y>>
  BY <1>1, <1>2
<1> QED
  BY <1>3 DEF s

LEMMA TwoLines ==
  ASSUME NEW x, NEW y
  PROVE  /\ Append(<<>>, y) = <<y>> /\ <<y>> # <<>> /\ Last(<<y>>) = y
         /\ Append(<<x>>, y) = <<x, y>> /\ <<x, y>> # <<>> /\ Last(<<x, y>>) = y /\ <<x, y>>[1] = x
<1> DEFINE S == {x, y}
<1>1. x \in S /\ y \in S
  OBVIOUS
<1> HIDE DEF S
<1>2. Append(<<x>>, y) = <<x, y>>
  BY <1>1, PairOfLines
<1>3. Append(<<>>, y) = <<y>>
  OBVIOUS
<1>4. Last(<<y>>) = y /\ <<y>> # <<>>
  BY DEF Last
<1>5. Last(<<x, y>>) = y /\ <<x, y>> # <<>> /\ <<x, y>>[1] = x
  BY DEF Last
<1> QED
  BY <1>2, <1>3, <1>4, <1>5

\* The log tells what the client was told (DispatchLoggerMiddleware): every error has its line,
\* and at the level "info" a tool starts after its line, and ends well with one.
THEOREM LogIsComplete == Spec => []LogTells
<1>1. ASSUME ServerInv
      PROVE  LogTells
  <2> SUFFICES ASSUME NEW c \in Calls
               PROVE  /\ (logLevel # "off" /\ answer[c].kind \in {"error", "channel-unavailable"}) =>
                           (log[c] # <<>> /\ Last(log[c]) = Line("after", "error"))
                      /\ (logLevel = "info" /\ work[c] # "none") => (log[c] # <<>> /\ log[c][1].phase = "before")
                      /\ (logLevel = "info" /\ answer[c] = Ok) => log[c] = <<Line("before", "-"), Line("after", "ok")>>
    BY DEF LogTells
  <2>1. logLevel \in {"off", "info", "warn"} /\ Line("before", "-").phase = "before"
    BY <1>1 DEF ServerInv, CallTypes, Line
  <2>2. None.kind = "none" /\ Rejected.kind = "rejected" /\ Ok.kind = "ok"
    BY DEF None, Rejected, Ok
  <2>3. logLevel = "info" => Before = <<Line("before", "-")>>
    BY DEF Before
  <2>4. CASE Fresh(c) \/ Refused(c)
    BY <2>2, <2>4, ResultsDiffer DEF Fresh, Refused
  <2>5. CASE AtWork(c)
    BY <2>1, <2>2, <2>3, <2>5, ResultsDiffer DEF AtWork
  <2>6. CASE Ended(c) /\ answer[c] = Rejected
    BY <2>1, <2>2, <2>3, <2>6, ResultsDiffer DEF Ended
  <2>7. CASE Ended(c) /\ answer[c] # Rejected
    <3>1. log[c] = After(answer[c])
      BY <2>7 DEF Ended
    <3>2. ASSUME logLevel # "off", answer[c].kind \in {"error", "channel-unavailable"}
          PROVE  log[c] # <<>> /\ Last(log[c]) = Line("after", "error")
      <4>1. Severity(answer[c]) = "error" /\ Status(answer[c]) = "error"
        BY <3>2 DEF Severity, Status
      <4>2. log[c] = Append(Before, Line("after", "error"))
        BY <2>1, <3>1, <3>2, <4>1 DEF After, Writes
      <4>3. Before = <<>> \/ Before = <<Line("before", "-")>>
        BY DEF Before
      <4> QED
        <5>1. CASE Before = <<>>
          <6>1. log[c] = <<Line("after", "error")>>
            BY <4>2, <5>1, TwoLines
          <6> QED
            BY <6>1, TwoLines
        <5>2. CASE Before = <<Line("before", "-")>>
          <6>0. /\ Append(<<Line("before", "-")>>, Line("after", "error")) = <<Line("before", "-"), Line("after", "error")>>
                /\ <<Line("before", "-"), Line("after", "error")>> # <<>>
                /\ Last(<<Line("before", "-"), Line("after", "error")>>) = Line("after", "error")
            BY TwoLines
          <6>1. log[c] = <<Line("before", "-"), Line("after", "error")>>
            BY <4>2, <5>2, <6>0
          <6> QED
            BY <6>0, <6>1
        <5> QED
          BY <4>3, <5>1, <5>2
    <3>3. ASSUME logLevel = "info"
          PROVE  log[c] = <<Line("before", "-"), Line("after", Status(answer[c]))>>
      <4>1. log[c] = Append(Before, Line("after", Status(answer[c])))
        BY <3>1, <3>3 DEF After, Writes
      <4>2. log[c] = Append(<<Line("before", "-")>>, Line("after", Status(answer[c])))
        BY <2>3, <3>3, <4>1
      <4>3. \A x, y : Append(<<x>>, y) = <<x, y>>
        BY TwoLines
      <4> QED
        BY <4>2, <4>3, Zenon
    <3>4. Status(Ok) = "ok"
      BY <2>2 DEF Status
    <3>5. logLevel = "info" => log[c] # <<>> /\ log[c][1].phase = "before"
      BY <2>1, <3>3, TwoLines
    <3> QED
      BY <3>2, <3>3, <3>4, <3>5
  <2> QED
    BY <1>1, <2>4, <2>5, <2>6, <2>7 DEF ServerInv, CallInv
<1> QED
  BY <1>1, ServerInvariant, PTL

\* Replies of the bridge leave in the order of the frames (drain(), handleInbound()), none
\* skipped and none twice, and two frames are at work at the same time only if the router gave
\* up on the earlier one or its line was lost.
THEOREM OrderIsKept == Spec => []BridgeKeepsOrder
<1>1. ASSUME ServerInv
      PROVE  BridgeKeepsOrder
  <2>1. ASSUME NEW j \in 1 .. arrived, NEW k \in 1 .. arrived, j < k, work[j] = "running", method[k] # NoName
        PROVE  answer[j] \in {Error(CHANNEL_TIMEOUT), Rejected}
    <3>1. j \in Calls /\ k \in Calls /\ arrived \in Nat
      BY <1>1, StreamTypes DEF ServerInv, BridgeInv
    <3>2. front = "bridge"
      BY <1>1 DEF ServerInv, BridgeInv, StreamInv
    <3>3. AtWork(j) \/ Ended(j)
      BY <1>1, <2>1, <3>1 DEF ServerInv, CallInv, Fresh, Refused
    <3>4. CASE AtWork(j)
      <4>1. j = handling
        BY <1>1, <3>1, <3>2, <3>4 DEF ServerInv, BridgeInv, QueueInv, AtWork
      <4>2. k <= handling
        BY <1>1, <2>1, <3>1, <3>2, <4>1 DEF ServerInv, BridgeInv, QueueInv
      <4> QED
        BY <2>1, <3>1, <4>1, <4>2
    <3>5. CASE Ended(j)
      BY <2>1, <3>5, PossibleAnswers DEF Ended
    <3> QED
      BY <3>3, <3>4, <3>5
  <2> QED
    BY <1>1, <2>1 DEF ServerInv, BridgeInv, BridgeKeepsOrder, SerialUnlessGivenUp
<1> QED
  BY <1>1, ServerInvariant, PTL

-----------------------------------------------------------------------------
(* What no step does.                                                      *)

\* An answer of the router is final: the result of a tool that ends after the timeout, and the
\* timer of a call that has ended, change nothing (Promise.race() in callTransport()).
THEOREM AnswersAreFinal == Spec => AnswerFinal
<1>1. ASSUME ServerInv, [Next]_vars
      PROVE  [\A c \in Calls : answer[c] # None => answer'[c] = answer[c]]_dispatchVars
  <2>1. CASE SdkNext
    BY <1>1, <2>1, SdkStep DEF ServerInv, AnswersStay
  <2>2. CASE StdioNext
    BY <1>1, <2>2, StdioStep DEF AnswersStay
  <2>3. CASE UNCHANGED vars
    BY <2>3 DEF vars
  <2> QED
    BY <1>1, <2>1, <2>2, <2>3 DEF Next
<1> QED
  BY <1>1, ServerInvariant, PTL DEF Spec, AnswerFinal

\* A tool starts only while the profile or a license exposes it, and a tool that was listed is
\* refused later only for its arguments or because the unlocked modules have changed
\* (filterEntries() of tools/list and of tools/call).
THEOREM ExposureIsKept == Spec => ExposureHolds
<1>1. ASSUME ServerInv, [Next]_vars
      PROVE  [\A c \in Calls : (work[c] = "none" /\ work'[c] = "running") =>
                \/ \E k \in DOMAIN tools : tools[k].name = method'[c] /\ selectByProfile(profile, tools[k])
                \/ \E k \in DOMAIN tools : tools[k].name = method'[c] /\ tools[k].module \in
                     (IF live THEN unlocked ELSE startupModules)]_dispatchVars
  <2>1. CASE SdkNext
    <3>1. StartsExposed
      BY <1>1, <2>1, SdkStep DEF ServerInv
    <3>2. \A n \in Exposed : \E k \in DOMAIN tools :
             /\ tools[k].name = n
             /\ selectByProfile(profile, tools[k]) \/ tools[k].module \in Effective
      BY DEF Exposed, currentlyAllowed, buildToolList, applyProfile, ToSet
    <3> QED
      BY <3>1, <3>2 DEF StartsExposed, Effective
  <2>2. CASE StdioNext
    <3>1. StartsKnown /\ profile = "Full"
      BY <1>1, <2>2, StdioStep DEF ServerInv, ExposureInv, StdioNext
    <3> QED
      BY <3>1 DEF StartsKnown, NameSet, selectByProfile
  <2>3. CASE UNCHANGED vars
    BY <2>3 DEF vars
  <2> QED
    BY <1>1, <2>1, <2>2, <2>3 DEF Next
<1>2. ASSUME ServerInv, [Next]_vars
      PROVE  [\A c \in Calls :
                (refusal[c] = 0 /\ refusal'[c] \notin {0, INVALID_PARAMS} /\ method'[c] \in listed.names)
                  => (IF live THEN unlocked ELSE startupModules) # listed.under]_<<dispatchVars, requestVars>>
  <2>1. CASE SdkNext
    <3>1. RefusesHidden
      BY <1>2, <2>1, SdkStep DEF ServerInv
    <3>2. Effective = listed.under => listed.names \subseteq Exposed
      BY <1>2 DEF ServerInv, ExposureInv, Exposed
    <3> QED
      BY <3>1, <3>2 DEF RefusesHidden, Effective
  <2>2. CASE StdioNext
    <3>1. UNCHANGED refusal
      BY <1>2, <2>2, StdioStep
    <3> QED
      BY <3>1
  <2>3. CASE UNCHANGED vars
    BY <2>3 DEF vars
  <2> QED
    BY <1>2, <2>1, <2>2, <2>3 DEF Next
<1>3. Spec => StartsOnlyExposed
  BY <1>1, ServerInvariant, PTL DEF Spec, StartsOnlyExposed
<1>4. Spec => ListKeepsItsWord
  BY <1>2, ServerInvariant, PTL DEF Spec, ListKeepsItsWord
<1> QED
  BY <1>3, <1>4 DEF ExposureHolds
=============================================================================
