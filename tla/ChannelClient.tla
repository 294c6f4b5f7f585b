--------------------------- MODULE ChannelClient ---------------------------
(***************************************************************************)
(* The connection life cycle of the two channel clients of the MCP server: *)
(* EditorWsClient (WebSocket to the Godot editor) and RuntimeUdpClient     *)
(* (UDP to the running game).  The classes share one structure, so one     *)
(* module models both; Transport selects the differences.                  *)
(*                                                                         *)
(* Both run on the Node.js event loop: a handler runs to completion, with  *)
(* the promise continuations it triggers, before the next event.  An       *)
(* action is therefore one event (a user call, a timer, a network event)   *)
(* with everything the code does in response.  The awaits inside           *)
(* connectOnce() are where other events interleave; `phase' says which     *)
(* await it is suspended at.                                               *)
(*                                                                         *)
(* Timers carry the time left until they fire.  A timer object that is     *)
(* still armed but that no field refers to any more stays in its set:      *)
(* clearTimeout() can only reach the timer a field refers to.              *)
(***************************************************************************)
EXTENDS Naturals, Sequences

CONSTANTS
  Transport,            \* "ws" (editor channel) or "udp" (runtime channel)
  UseToken,             \* an auth token is configured: connecting includes the handshake
  EnableHeartbeat,      \* option enableHeartbeat
  EnableAutoReconnect,  \* option enableAutoReconnect
  HeartbeatInterval,    \* option heartbeatIntervalMs, in model time units
  HeartbeatTimeout,     \* option heartbeatTimeoutMs, in model time units
  Schedule,             \* AutoReconnect's backoff schedule, in model time units
  Caller,               \* when the caller calls connect(): see MayConnect
  MaxSockets,           \* bound: sockets the client may create
  MaxTimers,            \* bound: reconnect timers armed at once
  MaxRequestId,         \* bound: request ids handed out
  ReservedIds,          \* bound: how many of them only handshakes may use
  MaxFaults,            \* bound: faults of the network and of the peer
  MaxConnects           \* bound: calls of connect()

ASSUME ChannelAssumption ==
  /\ Transport \in {"ws", "udp"}
  /\ UseToken \in BOOLEAN
  /\ EnableHeartbeat \in BOOLEAN
  /\ EnableAutoReconnect \in BOOLEAN
  /\ Caller \in {"patient", "eager", "careless"}
  /\ HeartbeatInterval \in Nat \ {0}
  /\ HeartbeatTimeout \in Nat
  /\ HeartbeatTimeout > HeartbeatInterval
  /\ Schedule \in Seq(Nat)
  /\ Schedule # <<>>
  /\ MaxSockets \in Nat
  /\ MaxTimers \in Nat
  /\ MaxRequestId \in Nat
  /\ ReservedIds \in Nat
  /\ MaxFaults \in Nat
  /\ MaxConnects \in Nat

None     == 0               \* JavaScript's undefined, for sockets, timers and ids
Sockets  == 1 .. MaxSockets
Timers   == 1 .. MaxTimers
Requests == 1 .. MaxRequestId

VARIABLES
  \* fields of the client object
  socket, connected, terminated,
  phase,                \* "idle", or the await connectOnce() is at; connecting <=> phase # "idle"
  caller,               \* who awaits connectOnce(): "user" or "timer" (attemptReconnect)
  dialing,              \* the local socket variable of connectOnce()
  nextRequestId, pending,
  heartbeatTimer, heartbeatDeadline, heartbeatInFlightId, reconnectTimer,
  backoff,              \* AutoReconnect.index
  drops,                \* the metric mcp.heartbeat.drops
  \* timers armed in the event loop
  tickers, deadlines, armed,
  \* sockets and network
  link,                 \* state of every socket
  listening,            \* sockets whose 'message' and 'close' listeners are attached
  wire,                 \* requests the peer has not answered yet
  serverUp, faults, connects,
  \* history, for the properties
  authed,               \* sockets on which the peer accepted the handshake
  outcome,              \* how the promise of a user or heartbeat request settled
  missedBeat,           \* a heartbeat was still unanswered when the next was sent
  engaged               \* the client reached a connection its user has not given up

clientVars  == <<socket, connected, terminated>>
attemptVars == <<phase, caller, dialing>>
requestVars == <<nextRequestId, pending, outcome>>
beatVars    == <<heartbeatTimer, heartbeatDeadline, heartbeatInFlightId, tickers,
                 deadlines, drops, missedBeat>>
retryVars   == <<reconnectTimer, armed, backoff>>
netVars     == <<link, listening, wire>>
envVars     == <<serverUp, faults, connects>>
vars == <<clientVars, attemptVars, requestVars, beatVars, retryVars, netVars, envVars,
          authed, engaged>>

Kinds == {"handshake", "heartbeat", "user"}

TypeOK ==
  /\ socket \in Sockets \cup {None}
  /\ connected \in BOOLEAN
  /\ terminated \in BOOLEAN
  /\ phase \in {"idle", "discover", "open", "handshake", "failed"}
  /\ caller \in {"user", "timer"}
  /\ dialing \in Sockets \cup {None}
  /\ nextRequestId \in 1 .. (MaxRequestId + 1)
  /\ pending \subseteq [id : Requests, sock : Sockets, kind : Kinds]
  /\ heartbeatTimer \in Sockets \cup {None}
  /\ heartbeatDeadline \in Requests \cup {None}
  /\ heartbeatInFlightId \in Requests \cup {None}
  /\ reconnectTimer \in Timers \cup {None}
  /\ backoff \in 0 .. (Len(Schedule) - 1)
  /\ drops \in Nat
  /\ tickers \subseteq [n : Sockets, left : Nat]
  /\ deadlines \subseteq [id : Requests, sock : Sockets, left : Nat]
  /\ armed \subseteq [n : Timers, left : Nat]
  /\ link \in [Sockets -> {"unused", "opening", "open", "closed", "destroyed"}]
  /\ listening \subseteq Sockets
  /\ wire \subseteq [id : Requests, sock : Sockets]
  /\ serverUp \in BOOLEAN
  /\ faults \in Nat
  /\ connects \in Nat
  /\ authed \subseteq Sockets
  /\ outcome \in [Requests -> {"none", "waiting", "resolved", "rejected"}]
  /\ missedBeat \in BOOLEAN
  /\ engaged \in BOOLEAN

Init ==
  /\ socket = None /\ connected = FALSE /\ terminated = FALSE
  /\ phase = "idle" /\ caller = "user" /\ dialing = None
  /\ nextRequestId = 1 /\ pending = {}
  /\ heartbeatTimer = None /\ heartbeatDeadline = None /\ heartbeatInFlightId = None
  /\ reconnectTimer = None /\ backoff = 0 /\ drops = 0
  /\ tickers = {} /\ deadlines = {} /\ armed = {}
  /\ link = [s \in Sockets |-> "unused"] /\ listening = {} /\ wire = {}
  /\ serverUp \in BOOLEAN /\ faults = 0 /\ connects = 0
  /\ authed = {} /\ outcome = [r \in Requests |-> "none"]
  /\ missedBeat = FALSE /\ engaged = FALSE

connecting == phase # "idle"

\* Continuations of settled promises run before the next event; while one is
\* due only further synchronous calls of the same user code can precede it.
Settled == phase # "failed"

\* A request other than a handshake finds an id within the bounds.
IdAvailable == nextRequestId + ReservedIds <= MaxRequestId

Fault == faults < MaxFaults /\ faults' = faults + 1
NoFault == UNCHANGED faults

-----------------------------------------------------------------------------
(* Helpers the handlers share.                                             *)

\* AutoReconnect.nextBackoffMs() advances the index until the last delay.
NextBackoff_Uncapped == backoff + 1
NextBackoff == IF backoff < Len(Schedule) - 1 THEN backoff + 1 ELSE backoff

\* scheduleReconnect(): `others' are the timers armed already.
ScheduleReconnect(others) ==
  LET n == CHOOSE m \in Timers : \A t \in others : t.n # m IN
  /\ \E m \in Timers : \A t \in others : t.n # m
  /\ armed' = others \cup {[n |-> n, left |-> Schedule[backoff + 1]]}
  /\ reconnectTimer' = n
  /\ backoff' = NextBackoff

\* connectOnce() throws: its finally block, then the catch of attemptReconnect().
RetryAfterFailure_Never == FALSE
RetryAfterFailure_IgnoresDisconnect == caller = "timer" /\ EnableAutoReconnect
RetryAfterFailure == caller = "timer" /\ ~terminated /\ EnableAutoReconnect

FailAttempt ==
  /\ phase' = "idle"
  /\ dialing' = None
  /\ UNCHANGED caller
  /\ IF RetryAfterFailure THEN ScheduleReconnect(armed) ELSE UNCHANGED retryVars

\* The end of connectOnce(): connected, onConnected(), startHeartbeat(), 'connect'.
Established(s) ==
  /\ socket' = s
  /\ connected' = TRUE
  /\ backoff' = 0
  /\ IF EnableHeartbeat
       THEN /\ heartbeatTimer' = s
            /\ tickers' = tickers \cup {[n |-> s, left |-> HeartbeatInterval]}
       ELSE UNCHANGED <<heartbeatTimer, tickers>>
  /\ phase' = "idle"
  /\ dialing' = None
  /\ engaged' = (EnableAutoReconnect /\ ~terminated)
  /\ UNCHANGED <<caller, terminated, reconnectTimer, armed>>

\* tearDownConnection(), in its three parts.  `fired' holds the heartbeat deadline
\* that is running the handler, if any; `gone' the socket whose 'close' event is.
StopHeartbeat_LeavesDeadline(fired) ==
  /\ heartbeatInFlightId' = None
  /\ heartbeatTimer' = None
  /\ tickers' = {t \in tickers : t.n # heartbeatTimer}
  /\ heartbeatDeadline' = None
  /\ deadlines' = deadlines \ fired

StopHeartbeat(fired) ==
  /\ heartbeatInFlightId' = None
  /\ heartbeatTimer' = None
  /\ tickers' = {t \in tickers : t.n # heartbeatTimer}
  /\ heartbeatDeadline' = None
  /\ deadlines' = {d \in deadlines \ fired : d.id # heartbeatDeadline}

CloseSocket(gone) ==
  /\ socket' = None
  /\ link' = [s \in Sockets |-> IF s = socket THEN "destroyed" ELSE link[s]]
  /\ listening' = listening \ ({socket} \cup gone)
  /\ wire' = {w \in wire : w.sock # socket}

\* Rejecting a pending handshake resumes connectOnce(): see ContinueFailed.
RejectPending_Forgotten == UNCHANGED <<pending, outcome, phase>>
RejectPending ==
  /\ pending' = {}
  /\ outcome' = [r \in Requests |-> IF outcome[r] = "waiting" THEN "rejected" ELSE outcome[r]]
  /\ phase' = IF phase = "handshake" THEN "failed" ELSE phase

TearDown(fired, gone) ==
  /\ connected' = FALSE
  /\ StopHeartbeat(fired)
  /\ CloseSocket(gone)
  /\ RejectPending
  /\ UNCHANGED <<caller, dialing, nextRequestId, missedBeat>>

\* handleClose(): only the loss of an established connection starts the reconnect loop.
RetryAfterClose_AnyAttempt == ~terminated /\ EnableAutoReconnect
RetryAfterClose == connected /\ ~terminated /\ EnableAutoReconnect

HandleClose(fired, gone) ==
  IF ~connected /\ socket = None
  THEN /\ deadlines' = deadlines \ fired
       /\ listening' = listening \ gone
       /\ UNCHANGED <<clientVars, attemptVars, requestVars, retryVars, heartbeatTimer,
                      heartbeatDeadline, heartbeatInFlightId, tickers, missedBeat, link, wire>>
  ELSE /\ TearDown(fired, gone)
       /\ IF RetryAfterClose THEN ScheduleReconnect(armed) ELSE UNCHANGED retryVars
       /\ UNCHANGED terminated

-----------------------------------------------------------------------------
(* Calls of the user.                                                      *)

\* The code does not restrict when connect() is called.  A patient caller leaves
\* reconnecting to the client, an eager one retries by itself when the client is
\* not connected, a careless one does not look at isConnected() either.
MayConnect ==
  CASE Caller = "patient"  -> ~connected /\ armed = {}
    [] Caller = "eager"    -> ~connected
    [] Caller = "careless" -> TRUE

\* connect(): refused with "already connecting" while connectOnce() is running.
UserConnect ==
  /\ connects < MaxConnects
  /\ MayConnect
  /\ connects' = connects + 1
  /\ terminated' = FALSE
  /\ IF connecting
       THEN UNCHANGED attemptVars
       ELSE phase' = "discover" /\ caller' = "user" /\ dialing' = None
  /\ UNCHANGED <<socket, connected, requestVars, beatVars, retryVars, netVars,
                 serverUp, faults, authed, engaged>>

\* disconnect(): clears the one reconnect timer it knows, then tears down.
UserDisconnect ==
  /\ terminated' = TRUE
  /\ armed' = {t \in armed : t.n # reconnectTimer}
  /\ reconnectTimer' = None
  /\ TearDown({}, {})
  /\ engaged' = FALSE
  /\ UNCHANGED <<backoff, drops, envVars, authed>>

\* send(): a request on the current socket.  A socket that is no longer open
\* reports the error to the send callback, which rejects the promise.
UserSend ==
  /\ connected /\ socket # None
  /\ IdAvailable
  /\ nextRequestId' = nextRequestId + 1
  /\ IF link[socket] = "open"
       THEN /\ pending' = pending \cup {[id |-> nextRequestId, sock |-> socket, kind |-> "user"]}
            /\ wire' = wire \cup {[id |-> nextRequestId, sock |-> socket]}
            /\ outcome' = [outcome EXCEPT ![nextRequestId] = "waiting"]
       ELSE /\ outcome' = [outcome EXCEPT ![nextRequestId] = "rejected"]
            /\ UNCHANGED <<pending, wire>>
  /\ UNCHANGED <<clientVars, attemptVars, beatVars, retryVars, link, listening, envVars,
                 authed, engaged>>

-----------------------------------------------------------------------------
(* connectOnce(), one action per await that completes.                     *)

\* discoverEditorPort() / discoverRuntimePort() found a port: create the socket.
\* The network cannot answer before the 'close' events of sockets the client
\* destroyed itself have run.
DiscoverOk ==
  /\ phase = "discover" /\ serverUp
  /\ \A s \in listening : link[s] # "destroyed"
  /\ \E s \in Sockets : link[s] = "unused"
  /\ LET s == CHOOSE t \in Sockets : link[t] = "unused" IN
     /\ dialing' = s
     /\ link' = [link EXCEPT ![s] = "opening"]
  /\ phase' = "open"
  /\ UNCHANGED <<clientVars, caller, requestVars, beatVars, retryVars, listening, wire,
                 envVars, authed, engaged>>

\* No port answers the probes: the peer is down, or a probe timed out.
DiscoverFail ==
  /\ phase = "discover"
  /\ IF serverUp THEN Fault ELSE NoFault
  /\ FailAttempt
  /\ UNCHANGED <<clientVars, requestVars, beatVars, netVars, serverUp, connects,
                 authed, engaged>>

\* openSocket() / bindSocket() resolved: attach the listeners, then send the
\* handshake, or finish when no token is configured.
OpenOk ==
  /\ phase = "open"
  /\ Transport = "ws" => serverUp
  /\ link' = [link EXCEPT ![dialing] = "open"]
  /\ listening' = listening \cup {dialing}
  /\ IF UseToken
       THEN /\ nextRequestId <= MaxRequestId
            /\ nextRequestId' = nextRequestId + 1
            /\ pending' = pending \cup
                 {[id |-> nextRequestId, sock |-> dialing, kind |-> "handshake"]}
            /\ wire' = wire \cup {[id |-> nextRequestId, sock |-> dialing]}
            /\ socket' = dialing
            /\ phase' = "handshake"
            /\ UNCHANGED <<connected, terminated, caller, dialing, heartbeatTimer, tickers,
                           retryVars, engaged>>
       ELSE /\ Established(dialing)
            /\ UNCHANGED <<nextRequestId, pending, wire>>
  /\ UNCHANGED <<heartbeatDeadline, heartbeatInFlightId, deadlines, drops, missedBeat,
                 outcome, envVars, authed>>

\* The socket reports an error instead of opening.
OpenFail ==
  /\ phase = "open"
  /\ IF serverUp \/ Transport = "udp" THEN Fault ELSE NoFault
  /\ link' = [link EXCEPT ![dialing] = "destroyed"]
  /\ FailAttempt
  /\ UNCHANGED <<clientVars, requestVars, beatVars, listening, wire, serverUp, connects,
                 authed, engaged>>

\* handleMessage() resolves the handshake with isHandshakeOk(): connectOnce() completes.
HandshakeAccepted(p) ==
  /\ Established(dialing)
  /\ pending' = pending \ {p}
  /\ authed' = authed \cup {dialing}
  /\ UNCHANGED <<link, listening, faults>>

HandshakeRejected_TakenAsOk(p) ==
  /\ Fault
  /\ Established(dialing)
  /\ pending' = pending \ {p}
  /\ UNCHANGED <<link, listening, authed>>

\* The peer refuses the token: performHandshake() terminates the socket and throws.
\* The 'close' listener of a terminated WebSocket stays attached.
HandshakeRejected(p) ==
  /\ Fault
  /\ pending' = pending \ {p}
  /\ socket' = None
  /\ link' = [link EXCEPT ![dialing] = "destroyed"]
  /\ listening' = IF Transport = "ws" THEN listening ELSE listening \ {dialing}
  /\ FailAttempt
  /\ UNCHANGED <<connected, terminated, heartbeatTimer, tickers, authed, engaged>>

\* The pending handshake was rejected by a teardown: performHandshake() terminates
\* the socket, connectOnce() drops its reference and throws.
ContinueFailed ==
  /\ phase = "failed"
  /\ socket' = None
  /\ link' = [link EXCEPT ![dialing] = "destroyed"]
  /\ FailAttempt
  /\ UNCHANGED <<connected, terminated, requestVars, beatVars, listening, wire, envVars,
                 authed, engaged>>

-----------------------------------------------------------------------------
(* Replies: handleMessage().                                               *)

\* The editor answers the frames of one connection in order; datagrams may overtake.
InOrder(w) == Transport = "ws" => \A v \in wire : v.sock = w.sock => v.id >= w.id

\* A reply to a user request or a heartbeat settles its promise; the reply the
\* client is waiting for also clears the one deadline it refers to.
SettleRequest(p, result) ==
  /\ pending' = pending \ {p}
  /\ outcome' = [outcome EXCEPT ![p.id] = result]
  /\ IF heartbeatInFlightId = p.id
       THEN /\ heartbeatInFlightId' = None
            /\ deadlines' = {d \in deadlines : d.id # heartbeatDeadline}
            /\ heartbeatDeadline' = None
       ELSE UNCHANGED <<heartbeatInFlightId, deadlines, heartbeatDeadline>>

Reply(w) ==
  /\ Settled /\ serverUp /\ InOrder(w)
  /\ link[w.sock] = "open" /\ w.sock \in listening
  /\ wire' = wire \ {w}
  /\ \/ \E p \in pending :
          /\ p.id = w.id /\ p.kind # "handshake"
          /\ \E result \in {"resolved", "rejected"} :
               /\ p.kind = "heartbeat" => result = "resolved"
               /\ SettleRequest(p, result)
          /\ UNCHANGED <<clientVars, attemptVars, retryVars, heartbeatTimer, tickers, link,
                         listening, faults, authed, engaged>>
     \/ \E p \in pending :
          /\ p.id = w.id /\ p.kind = "handshake"
          /\ HandshakeAccepted(p) \/ HandshakeRejected(p)
          /\ UNCHANGED <<outcome, heartbeatInFlightId, deadlines, heartbeatDeadline>>
     \/ /\ \A p \in pending : p.id # w.id
        /\ UNCHANGED <<clientVars, attemptVars, pending, outcome, retryVars, heartbeatTimer,
                       tickers, heartbeatInFlightId, deadlines, heartbeatDeadline, link,
                       listening, faults, authed, engaged>>
  /\ UNCHANGED <<nextRequestId, drops, missedBeat, serverUp, connects>>

-----------------------------------------------------------------------------
(* Timers.                                                                 *)

\* The interval callback of startHeartbeat(): it neither waits for the previous
\* heartbeat nor clears the deadline of the previous one.
HeartbeatTick(t) ==
  /\ Settled /\ t.left = 0
  /\ tickers' = (tickers \ {t}) \cup {[t EXCEPT !.left = HeartbeatInterval]}
  /\ IF connected /\ socket # None
       THEN /\ IdAvailable
            /\ nextRequestId' = nextRequestId + 1
            /\ heartbeatInFlightId' = nextRequestId
            /\ pending' = pending \cup
                 {[id |-> nextRequestId, sock |-> socket, kind |-> "heartbeat"]}
            /\ outcome' = [outcome EXCEPT ![nextRequestId] = "waiting"]
            /\ wire' = IF link[socket] = "open"
                         THEN wire \cup {[id |-> nextRequestId, sock |-> socket]} ELSE wire
            /\ heartbeatDeadline' = nextRequestId
            /\ deadlines' = deadlines \cup
                 {[id |-> nextRequestId, sock |-> socket, left |-> HeartbeatTimeout]}
            /\ missedBeat' = (missedBeat \/ heartbeatInFlightId # None)
       ELSE UNCHANGED <<nextRequestId, heartbeatInFlightId, pending, outcome, wire,
                        heartbeatDeadline, deadlines, missedBeat>>
  /\ UNCHANGED <<clientVars, attemptVars, retryVars, heartbeatTimer, drops, link, listening,
                 envVars, authed, engaged>>

\* handleHeartbeatTimeout(), run by whichever deadline timer expires.
DeadlineFires(d) ==
  /\ Settled /\ d.left = 0
  /\ drops' = drops + 1
  /\ HandleClose({d}, {})
  /\ UNCHANGED <<envVars, authed, engaged>>

\* The reconnect timer's callback, attemptReconnect() and the start of connectOnce().
ReconnectFires(t) ==
  /\ Settled /\ t.left = 0
  /\ IF terminated
       THEN /\ armed' = armed \ {t}
            /\ reconnectTimer' = None
            /\ UNCHANGED <<backoff, attemptVars>>
       ELSE IF connecting
       THEN /\ IF EnableAutoReconnect
                 THEN ScheduleReconnect(armed \ {t})
                 ELSE armed' = armed \ {t} /\ reconnectTimer' = None /\ UNCHANGED backoff
            /\ UNCHANGED attemptVars
       ELSE /\ armed' = armed \ {t}
            /\ reconnectTimer' = None
            /\ phase' = "discover" /\ caller' = "timer" /\ dialing' = None
            /\ UNCHANGED backoff
  /\ UNCHANGED <<clientVars, requestVars, beatVars, netVars, envVars, authed, engaged>>

\* Time passes until the next timer is due; timers fire when they are due.
Elapse(S) == {[t EXCEPT !.left = @ - 1] : t \in S}

TimePasses ==
  /\ Settled
  /\ tickers \cup deadlines \cup armed # {}
  /\ \A t \in tickers : t.left > 0
  /\ \A d \in deadlines : d.left > 0
  /\ \A t \in armed : t.left > 0
  /\ tickers' = Elapse(tickers)
  /\ deadlines' = Elapse(deadlines)
  /\ armed' = Elapse(armed)
  /\ UNCHANGED <<clientVars, attemptVars, requestVars, heartbeatTimer, heartbeatDeadline,
                 heartbeatInFlightId, drops, missedBeat, reconnectTimer, backoff, netVars,
                 envVars, authed, engaged>>

-----------------------------------------------------------------------------
(* The network and the peer.                                               *)

\* The 'close' event of a WebSocket: handleClose() for whatever socket it is.
CloseEvent(s) ==
  /\ Settled /\ Transport = "ws"
  /\ s \in listening /\ link[s] \in {"closed", "destroyed"}
  /\ HandleClose({}, {s})
  /\ UNCHANGED <<drops, envVars, authed, engaged>>

\* The connection breaks; what was on the wire is lost.
RemoteClose(s) ==
  /\ Settled /\ Transport = "ws" /\ link[s] = "open"
  /\ Fault
  /\ link' = [link EXCEPT ![s] = "closed"]
  /\ wire' = {w \in wire : w.sock # s}
  /\ UNCHANGED <<clientVars, attemptVars, requestVars, beatVars, retryVars, listening,
                 serverUp, connects, authed, engaged>>

\* The peer process ends: WebSockets break, datagrams vanish without a sign.
ServerStop ==
  /\ Settled /\ serverUp
  /\ Fault
  /\ serverUp' = FALSE
  /\ wire' = {}
  /\ link' = [s \in Sockets |->
                IF Transport = "ws" /\ link[s] = "open" THEN "closed" ELSE link[s]]
  /\ UNCHANGED <<clientVars, attemptVars, requestVars, beatVars, retryVars, listening,
                 connects, authed, engaged>>

ServerStart ==
  /\ Settled /\ ~serverUp
  /\ serverUp' = TRUE
  /\ UNCHANGED <<clientVars, attemptVars, requestVars, beatVars, retryVars, netVars,
                 faults, connects, authed, engaged>>

\* A datagram is lost, or the bridge answers it with an envelope that has no id.
Lose(w) ==
  /\ Settled /\ Transport = "udp"
  /\ Fault
  /\ wire' = wire \ {w}
  /\ UNCHANGED <<clientVars, attemptVars, requestVars, beatVars, retryVars, link, listening,
                 serverUp, connects, authed, engaged>>

-----------------------------------------------------------------------------
UserNext    == UserConnect \/ UserDisconnect \/ UserSend
ConnectNext == DiscoverOk \/ DiscoverFail \/ OpenOk \/ OpenFail \/ ContinueFailed
TimerNext   == \/ \E t \in tickers : HeartbeatTick(t)
               \/ \E d \in deadlines : DeadlineFires(d)
               \/ \E t \in armed : ReconnectFires(t)
               \/ TimePasses
NetNext     == \/ \E w \in wire : Reply(w) \/ Lose(w)
               \/ \E s \in Sockets : CloseEvent(s) \/ RemoteClose(s)
               \/ ServerStop
               \/ ServerStart

Next == UserNext \/ ConnectNext \/ TimerNext \/ NetNext

Spec == Init /\ [][Next]_vars

\* The event loop runs what is due, the peer comes back and answers.  Nothing is
\* assumed of the user, and faults may happen but are bounded.
Fairness ==
  /\ WF_vars(DiscoverOk) /\ WF_vars(DiscoverFail /\ ~serverUp)
  /\ WF_vars(OpenOk) /\ WF_vars(OpenFail /\ ~serverUp) /\ WF_vars(ContinueFailed)
  /\ WF_vars(\E t \in armed : ReconnectFires(t)) /\ WF_vars(TimePasses)
  /\ WF_vars(\E t \in tickers : HeartbeatTick(t)) /\ WF_vars(\E d \in deadlines : DeadlineFires(d))
  /\ WF_vars(\E s \in Sockets : CloseEvent(s))
  /\ WF_vars(\E w \in wire : Reply(w))
  /\ WF_vars(ServerStart)

FairSpec == Spec /\ Fairness

-----------------------------------------------------------------------------
(* Properties.                                                             *)

\* The client is doing at most one of: being connected, running connectOnce(),
\* waiting for one reconnect timer.  Two of them at once means two live sockets
\* whose events drive the same fields.  (For patient callers; connect() itself
\* checks only `connecting'.)
Exclusive ==
  /\ connected => phase = "idle" /\ armed = {}
  /\ phase # "idle" => armed = {}
  /\ \A t, u \in armed : t = u
  /\ \A t \in armed : t.n = reconnectTimer

\* Every promise the client still owes is for a request on its current socket:
\* none survives the connection it was sent on, so no caller waits for a socket
\* that is gone (tearDownConnection: "so callers do not hang").
PendingOnSocket ==
  \A p \in pending : p.sock = socket /\ link[p.sock] \in {"open", "closed"}

\* With a token configured, a caller's request reaches only a socket on which the
\* peer accepted the handshake (connectOnce: "the auth gate must complete first so
\* that `send()` callers cannot leak through").
AuthGate ==
  UseToken => \A p \in pending : p.kind = "user" => p.sock \in authed

\* After a drop the client never comes to rest: as long as its user has not given
\* the connection up, it is connected, dialling on the timer's behalf, or waiting
\* for a reconnect timer.
LoopAlive ==
  engaged => \/ connected
             \/ phase # "idle" /\ caller = "timer"
             \/ armed # {}

\* disconnect() leaves no timer behind that could dial again: whoever has called
\* it finds no reconnect armed until it calls connect().
QuietAfterDisconnect == terminated => armed = {}

\* The heartbeat drops a link only if the peer let some heartbeat go unanswered
\* until the next was sent: a peer that answers each one before the next is safe,
\* in spite of the deadlines that startHeartbeat() overwrites without clearing.
PromptPeerKept == drops > 0 => missedBeat

\* A heartbeat timeout tears a connection down only while some heartbeat is
\* unanswered ("tear down the connection if no reply arrives within
\* heartbeatTimeoutMs"): false in the code, see the README.
DropOnlyUnanswered ==
  [][drops' # drops /\ connected => \E p \in pending : p.kind = "heartbeat"]_vars

\* disconnect() is final: until connect() is called the client does not become
\* connected ("a manual `disconnect()` stops the reconnect loop dead"): false in
\* the code, see the README.
DisconnectSticks == [][terminated /\ terminated' /\ ~connected => ~connected']_vars

\* A connection that breaks, or cannot be made, is tried again until it is up,
\* unless the user disconnects.
Reconnects == (engaged /\ ~connected) ~> (connected \/ terminated)

\* A call of connect(), and every attempt to reconnect, ends: a WebSocket peer
\* answers the handshake or its connection breaks.
AttemptEnds == (phase # "idle") ~> (phase = "idle")

\* What the client is to its callers: an RpcChannel.
Contract == INSTANCE RpcChannel WITH
  up <- connected, result <- outcome, Request <- Requests
Implements == Contract!Spec
=============================================================================
