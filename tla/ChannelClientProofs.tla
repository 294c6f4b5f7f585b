------------------------ MODULE ChannelClientProofs ------------------------
(***************************************************************************)
(* Proofs about ChannelClient, for every number of sockets, requests,      *)
(* timers, faults and calls, every backoff schedule and both transports.   *)
(***************************************************************************)
EXTENDS ChannelClient, TLAPS

USE ChannelAssumption

\* connectOnce() has a socket of its own at every await after discovery.
DialInv == phase \in {"open", "handshake", "failed"} => dialing \in Sockets

\* The handshake request is pending exactly while connectOnce() awaits it.
HandshakeInv ==
  /\ \A p \in pending : p.kind = "handshake" => phase = "handshake"
  /\ \A p, q \in pending : p.kind = "handshake" /\ q.kind = "handshake" => p = q

RetryType == /\ reconnectTimer \in Timers \cup {None}
             /\ backoff \in 0 .. (Len(Schedule) - 1)
             /\ armed \subseteq [n : Timers, left : Nat]

BeatType == /\ heartbeatTimer \in Sockets \cup {None}
            /\ heartbeatDeadline \in Requests \cup {None}
            /\ heartbeatInFlightId \in Requests \cup {None}
            /\ tickers \subseteq [n : Sockets, left : Nat]
            /\ deadlines \subseteq [id : Requests, sock : Sockets, left : Nat]
            /\ missedBeat \in BOOLEAN

NetType == /\ link \in [Sockets -> {"unused", "opening", "open", "closed", "destroyed"}]
           /\ listening \subseteq Sockets
           /\ wire \subseteq [id : Requests, sock : Sockets]

ClientType == /\ socket \in Sockets \cup {None}
              /\ connected \in BOOLEAN
              /\ terminated \in BOOLEAN

AttemptType == /\ phase \in {"idle", "discover", "open", "handshake", "failed"}
               /\ caller \in {"user", "timer"}
               /\ dialing \in Sockets \cup {None}

RequestType == /\ nextRequestId \in 1 .. (MaxRequestId + 1)
               /\ pending \subseteq [id : Requests, sock : Sockets, kind : Kinds]
               /\ outcome \in [Requests -> {"none", "waiting", "resolved", "rejected"}]

OtherType == /\ drops \in Nat
             /\ serverUp \in BOOLEAN
             /\ faults \in Nat
             /\ connects \in Nat
             /\ authed \subseteq Sockets
             /\ engaged \in BOOLEAN

TInv == /\ RetryType /\ BeatType /\ NetType /\ ClientType
        /\ AttemptType /\ RequestType /\ OtherType /\ DialInv /\ HandshakeInv

LEMMA ScheduleLength == Len(Schedule) \in Nat \ {0}
BY DEF ChannelAssumption

\* Each part speaks of the variables of one group (plus a few single ones): it
\* is kept by a step that leaves the group alone.
LEMMA Frame ==
  ASSUME TInv
  PROVE  /\ UNCHANGED retryVars => RetryType'
         /\ UNCHANGED beatVars => BeatType' /\ drops' = drops
         /\ UNCHANGED netVars => NetType'
         /\ UNCHANGED clientVars => ClientType'
         /\ UNCHANGED attemptVars => AttemptType' /\ DialInv'
         /\ UNCHANGED requestVars => RequestType'
         /\ UNCHANGED envVars => serverUp' \in BOOLEAN /\ faults' \in Nat /\ connects' \in Nat
         /\ UNCHANGED <<pending, phase>> => HandshakeInv'
<1> USE DEF TInv
<1>1. UNCHANGED retryVars => RetryType'
  BY DEF retryVars, RetryType
<1>2. UNCHANGED beatVars => BeatType' /\ drops' = drops
  BY DEF beatVars, BeatType
<1>3. UNCHANGED netVars => NetType'
  BY DEF netVars, NetType
<1>4. UNCHANGED clientVars => ClientType'
  BY DEF clientVars, ClientType
<1>5. UNCHANGED attemptVars => AttemptType' /\ DialInv'
  BY DEF attemptVars, AttemptType, DialInv
<1>6. UNCHANGED requestVars => RequestType'
  BY DEF requestVars, RequestType
<1>7. UNCHANGED envVars => serverUp' \in BOOLEAN /\ faults' \in Nat /\ connects' \in Nat
  BY DEF envVars, OtherType
<1>8. UNCHANGED <<pending, phase>> => HandshakeInv'
  BY DEF HandshakeInv
<1> QED
  BY <1>1, <1>2, <1>3, <1>4, <1>5, <1>6, <1>7, <1>8

\* A unit of time off timers that are not due yet.
LEMMA ElapseTyped ==
  ASSUME NEW S, \A t \in S : t.left > 0
  PROVE  /\ \A I : S \subseteq [n : I, left : Nat] => Elapse(S) \subseteq [n : I, left : Nat]
         /\ \A I, J : S \subseteq [id : I, sock : J, left : Nat]
                       => Elapse(S) \subseteq [id : I, sock : J, left : Nat]
<1>1. ASSUME NEW I, S \subseteq [n : I, left : Nat]
      PROVE  Elapse(S) \subseteq [n : I, left : Nat]
  <2> SUFFICES ASSUME NEW t \in S
               PROVE  [t EXCEPT !.left = t.left - 1] \in [n : I, left : Nat]
    BY DEF Elapse
  <2>1. t \in [n : I, left : Nat] /\ t.left - 1 \in Nat
    BY <1>1
  <2> QED
    BY <2>1
<1>2. ASSUME NEW I, NEW J, S \subseteq [id : I, sock : J, left : Nat]
      PROVE  Elapse(S) \subseteq [id : I, sock : J, left : Nat]
  <2> SUFFICES ASSUME NEW t \in S
               PROVE  [t EXCEPT !.left = t.left - 1] \in [id : I, sock : J, left : Nat]
    BY DEF Elapse
  <2>1. t \in [id : I, sock : J, left : Nat] /\ t.left - 1 \in Nat
    BY <1>2
  <2> QED
    BY <2>1
<1> QED
  BY <1>1, <1>2

LEMMA ScheduleTyped ==
  ASSUME NEW S, S \subseteq [n : Timers, left : Nat], RetryType, ScheduleReconnect(S)
  PROVE  RetryType'
<1> DEFINE n == CHOOSE m \in Timers : \A t \in S : t.n # m
<1>1. n \in Timers
  BY DEF ScheduleReconnect
<1>2. backoff + 1 \in 1 .. Len(Schedule) /\ Schedule[backoff + 1] \in Nat
  BY DEF RetryType
<1>3. armed' \subseteq [n : Timers, left : Nat]
  BY <1>1, <1>2 DEF ScheduleReconnect
<1>4. reconnectTimer' \in Timers
  BY <1>1 DEF ScheduleReconnect
<1>5. backoff' \in 0 .. (Len(Schedule) - 1)
  BY DEF ScheduleReconnect, NextBackoff, RetryType
<1> QED
  BY <1>3, <1>4, <1>5 DEF RetryType


LEMMA FailAttemptTyped ==
  ASSUME RetryType, FailAttempt
  PROVE  RetryType' /\ phase' = "idle" /\ dialing' = None /\ caller' = caller
<1>1. CASE RetryAfterFailure
  <2>1. ScheduleReconnect(armed)
    BY <1>1 DEF FailAttempt
  <2> QED
    BY <2>1, ScheduleTyped DEF FailAttempt, RetryType
<1>2. CASE ~RetryAfterFailure
  BY <1>2 DEF FailAttempt, RetryType, retryVars
<1> QED
  BY <1>1, <1>2

LEMMA TearDownTyped ==
  ASSUME TInv, NEW F, NEW G, TearDown(F, G)
  PROVE  /\ BeatType' /\ NetType' /\ AttemptType' /\ RequestType'
         /\ DialInv' /\ HandshakeInv' /\ socket' = None /\ connected' = FALSE
<1> USE DEF TInv, TearDown
<1>1. BeatType'
  BY DEF StopHeartbeat, BeatType
<1>2. NetType'
  BY DEF CloseSocket, NetType
<1>3. AttemptType' /\ DialInv'
  BY DEF RejectPending, AttemptType, DialInv
<1>4. RequestType' /\ HandshakeInv'
  BY DEF RejectPending, RequestType, HandshakeInv
<1> QED
  BY <1>1, <1>2, <1>3, <1>4 DEF CloseSocket

LEMMA HandleCloseTyped ==
  ASSUME TInv, NEW F, NEW G, HandleClose(F, G)
  PROVE  /\ RetryType' /\ BeatType' /\ NetType' /\ ClientType' /\ AttemptType' /\ RequestType'
         /\ DialInv' /\ HandshakeInv'
<1> USE DEF TInv
<1>1. CASE ~connected /\ socket = None
  BY <1>1 DEF HandleClose, TInv, RetryType, BeatType, NetType, ClientType, AttemptType,
     RequestType, DialInv, HandshakeInv, clientVars, attemptVars, requestVars, retryVars
<1>2. CASE ~(~connected /\ socket = None)
  <2>1. TearDown(F, G) /\ terminated' = terminated
    BY <1>2 DEF HandleClose
  <2>2. ClientType'
    BY <2>1, TearDownTyped DEF ClientType
  <2>3. RetryType'
    <3>1. CASE RetryAfterClose
      BY <1>2, <3>1, ScheduleTyped DEF HandleClose, RetryType
    <3>2. CASE ~RetryAfterClose
      BY <1>2, <3>2 DEF HandleClose, RetryType, retryVars
    <3> QED
      BY <3>1, <3>2
  <2> QED
    BY <2>1, <2>2, <2>3, TearDownTyped
<1> QED
  BY <1>1, <1>2

LEMMA EstablishedTyped ==
  ASSUME TInv, NEW s \in Sockets, Established(s)
  PROVE  /\ RetryType' /\ ClientType' /\ engaged' \in BOOLEAN
         /\ phase' = "idle" /\ dialing' = None /\ caller' = caller
         /\ heartbeatTimer' \in Sockets \cup {None}
         /\ tickers' \subseteq [n : Sockets, left : Nat]
<1> USE DEF TInv
<1>1. RetryType'
  BY DEF Established, RetryType
<1>2. ClientType'
  BY DEF Established, ClientType
<1>3. heartbeatTimer' \in Sockets \cup {None} /\ tickers' \subseteq [n : Sockets, left : Nat]
  BY DEF Established, BeatType
<1> QED
  BY <1>1, <1>2, <1>3 DEF Established

-----------------------------------------------------------------------------
(* Type correctness, for every kind of caller.                             *)

LEMMA TInvTypeOK == TInv => TypeOK
BY DEF TInv, TypeOK, RetryType, BeatType, NetType, ClientType, AttemptType, RequestType,
   OtherType

LEMMA TInvInit == Init => TInv
<1> SUFFICES ASSUME Init PROVE TInv
  OBVIOUS
<1>1. RetryType
  BY ScheduleLength DEF Init, RetryType
<1>2. BeatType /\ NetType /\ ClientType
  BY DEF Init, BeatType, NetType, ClientType
<1>3. AttemptType /\ RequestType /\ DialInv /\ HandshakeInv
  BY DEF Init, AttemptType, RequestType, DialInv, HandshakeInv
<1>4. OtherType
  BY DEF Init, OtherType
<1> QED
  BY <1>1, <1>2, <1>3, <1>4 DEF TInv

LEMMA TInvUser == TInv /\ UserNext => TInv'
<1> SUFFICES ASSUME TInv, UserNext PROVE TInv'
  OBVIOUS
<1> USE DEF TInv
<1>1. CASE UserConnect
  <2>1. RetryType' /\ BeatType' /\ NetType' /\ RequestType'
    BY <1>1, Frame DEF UserConnect
  <2>2. ClientType'
    BY <1>1 DEF UserConnect, ClientType
  <2>3. AttemptType' /\ DialInv' /\ HandshakeInv'
    <3>1. CASE connecting
      BY <1>1, <3>1, Frame DEF UserConnect, attemptVars, requestVars
    <3>2. CASE ~connecting
      BY <1>1, <3>2 DEF UserConnect, connecting, requestVars, AttemptType, DialInv, HandshakeInv
    <3> QED
      BY <3>1, <3>2
  <2>4. OtherType'
    BY <1>1 DEF UserConnect, OtherType, beatVars
  <2> QED
    BY <2>1, <2>2, <2>3, <2>4
<1>2. CASE UserDisconnect
  <2>1. TearDown({}, {}) /\ RetryType' /\ terminated' \in BOOLEAN
    BY <1>2 DEF UserDisconnect, RetryType
  <2> QED
    BY <1>2, <2>1, TearDownTyped DEF UserDisconnect, ClientType, OtherType, envVars
<1>3. CASE UserSend
  <2>1. nextRequestId \in Requests /\ socket \in Sockets
    BY <1>3 DEF UserSend, IdAvailable, Requests, RequestType, ClientType
  <2>2. RequestType' /\ HandshakeInv' /\ NetType'
    BY <1>3, <2>1 DEF UserSend, Requests, RequestType, NetType, HandshakeInv, Kinds, attemptVars
  <2> QED
    BY <1>3, <2>2 DEF UserSend, clientVars, attemptVars, beatVars, retryVars, envVars,
       RetryType, BeatType, ClientType, AttemptType, OtherType, DialInv
<1> QED
  BY <1>1, <1>2, <1>3 DEF UserNext

LEMMA TInvConnect == TInv /\ ConnectNext => TInv'
<1> SUFFICES ASSUME TInv, ConnectNext PROVE TInv'
  OBVIOUS
<1> USE DEF TInv
<1>1. CASE DiscoverOk
  <2>1. dialing' \in Sockets /\ NetType'
    BY <1>1 DEF DiscoverOk, NetType
  <2> QED
    BY <1>1, <2>1 DEF DiscoverOk, clientVars, attemptVars, requestVars, beatVars, retryVars, netVars, envVars, TInv, RetryType, BeatType, NetType, ClientType, AttemptType, RequestType, OtherType, DialInv, HandshakeInv
<1>2. CASE DiscoverFail
  <2>1. RetryType' /\ phase' = "idle" /\ dialing' = None /\ caller' = caller
    BY <1>2, FailAttemptTyped DEF DiscoverFail, TInv
  <2>2. OtherType'
    BY <1>2 DEF DiscoverFail, OtherType, Fault, NoFault, beatVars
  <2> QED
    BY <1>2, <2>1, <2>2 DEF DiscoverFail, clientVars, requestVars, beatVars, netVars, BeatType,
       NetType, ClientType, AttemptType, RequestType, DialInv, HandshakeInv
<1>3. CASE OpenOk
  <2>1. dialing \in Sockets
    BY <1>3 DEF OpenOk, DialInv
  <2>2. CASE UseToken
    <3>1. nextRequestId \in Requests
      BY <1>3, <2>2 DEF OpenOk, Requests, RequestType
    <3>2. RequestType' /\ HandshakeInv'
      BY <1>3, <2>1, <2>2, <3>1 DEF OpenOk, RequestType, HandshakeInv, Kinds
    <3>3. NetType' /\ BeatType' /\ ClientType' /\ AttemptType' /\ DialInv'
      BY <1>3, <2>1, <2>2, <3>1
      DEF OpenOk, NetType, BeatType, ClientType, AttemptType, DialInv
    <3> QED
      BY <1>3, <2>2, <3>2, <3>3 DEF OpenOk, RetryType, OtherType, retryVars, envVars
  <2>3. CASE ~UseToken
    <3>1. Established(dialing) /\ UNCHANGED <<nextRequestId, pending, wire>>
      BY <1>3, <2>3 DEF OpenOk
    <3>2. BeatType' /\ NetType' /\ RequestType'
      BY <1>3, <2>1, <3>1, EstablishedTyped DEF OpenOk, BeatType, NetType, RequestType, TInv
    <3> QED
      BY <1>3, <2>1, <3>1, <3>2, EstablishedTyped
      DEF OpenOk, envVars, AttemptType, OtherType, DialInv, HandshakeInv, TInv
  <2> QED
    BY <2>2, <2>3
<1>4. CASE OpenFail
  <2>1. RetryType' /\ phase' = "idle" /\ dialing' = None /\ caller' = caller
    BY <1>4, FailAttemptTyped DEF OpenFail, TInv
  <2>2. OtherType'
    BY <1>4 DEF OpenFail, OtherType, Fault, NoFault, beatVars
  <2>3. NetType'
    BY <1>4 DEF OpenFail, NetType
  <2> QED
    BY <1>4, <2>1, <2>2, <2>3 DEF OpenFail, clientVars, requestVars, beatVars, BeatType,
       ClientType, AttemptType, RequestType, DialInv, HandshakeInv
<1>5. CASE ContinueFailed
  <2>1. RetryType' /\ phase' = "idle" /\ dialing' = None /\ caller' = caller
    BY <1>5, FailAttemptTyped DEF ContinueFailed, TInv
  <2>2. NetType' /\ ClientType'
    BY <1>5 DEF ContinueFailed, NetType, ClientType
  <2> QED
    BY <1>5, <2>1, <2>2 DEF ContinueFailed, requestVars, beatVars, envVars, BeatType,
       AttemptType, RequestType, OtherType, DialInv, HandshakeInv
<1> QED
  BY <1>1, <1>2, <1>3, <1>4, <1>5 DEF ConnectNext

LEMMA TInvTimer == TInv /\ TimerNext => TInv'
<1> SUFFICES ASSUME TInv, TimerNext PROVE TInv'
  OBVIOUS
<1> USE DEF TInv
<1>1. ASSUME NEW t \in tickers, HeartbeatTick(t) PROVE TInv'
  <2>1. tickers' \subseteq [n : Sockets, left : Nat]
    BY <1>1 DEF HeartbeatTick, BeatType
  <2>4. RetryType' /\ ClientType' /\ AttemptType' /\ DialInv' /\ OtherType'
    BY <1>1, Frame DEF HeartbeatTick, OtherType
  <2>2. CASE connected /\ socket # None
    <3>1. nextRequestId \in Requests /\ socket \in Sockets
      BY <1>1, <2>2 DEF HeartbeatTick, IdAvailable, Requests, RequestType, ClientType
    <3>2. RequestType'
      <4>1. nextRequestId' \in 1 .. (MaxRequestId + 1)
        BY <1>1, <2>2, <3>1 DEF HeartbeatTick, Requests
      <4>2. pending' \subseteq [id : Requests, sock : Sockets, kind : Kinds]
        BY <1>1, <2>2, <3>1 DEF HeartbeatTick, RequestType, Kinds
      <4>3. outcome' \in [Requests -> {"none", "waiting", "resolved", "rejected"}]
        BY <1>1, <2>2, <3>1 DEF HeartbeatTick, RequestType
      <4> QED
        BY <4>1, <4>2, <4>3 DEF RequestType
    <3>3. HandshakeInv'
      BY <1>1, <2>2 DEF HeartbeatTick, HandshakeInv, attemptVars
    <3>4. NetType'
      BY <1>1, <2>2, <3>1 DEF HeartbeatTick, NetType
    <3>5. BeatType'
      BY <1>1, <2>1, <2>2, <3>1 DEF HeartbeatTick, BeatType
    <3> QED
      BY <2>4, <3>2, <3>3, <3>4, <3>5
  <2>3. CASE ~(connected /\ socket # None)
    <3>1. RequestType' /\ HandshakeInv' /\ NetType'
      BY <1>1, <2>3, Frame DEF HeartbeatTick, requestVars, attemptVars, netVars
    <3>2. BeatType'
      BY <1>1, <2>1, <2>3 DEF HeartbeatTick, BeatType
    <3> QED
      BY <2>4, <3>1, <3>2
  <2> QED
    BY <2>2, <2>3
<1>2. ASSUME NEW d \in deadlines, DeadlineFires(d) PROVE TInv'
  <2>1. HandleClose({d}, {}) /\ OtherType'
    BY <1>2 DEF DeadlineFires, OtherType, envVars
  <2> QED
    BY <2>1, HandleCloseTyped
<1>3. ASSUME NEW t \in armed, ReconnectFires(t) PROVE TInv'
  <2>1. RetryType' /\ AttemptType' /\ DialInv'
    <3>1. armed \ {t} \subseteq [n : Timers, left : Nat]
      BY DEF RetryType
    <3>2. CASE terminated
      BY <1>3, <3>2 DEF ReconnectFires, attemptVars, RetryType, AttemptType, DialInv
    <3>3. CASE ~terminated /\ connecting
      <4>1. RetryType'
        <5>1. CASE EnableAutoReconnect
          BY <1>3, <3>1, <3>3, <5>1, ScheduleTyped DEF ReconnectFires, TInv
        <5>2. CASE ~EnableAutoReconnect
          BY <1>3, <3>3, <5>2 DEF ReconnectFires, RetryType
        <5> QED
          BY <5>1, <5>2
      <4> QED
        BY <1>3, <3>3, <4>1 DEF ReconnectFires, attemptVars, AttemptType, DialInv
    <3>4. CASE ~terminated /\ ~connecting
      BY <1>3, <3>4 DEF ReconnectFires, RetryType, AttemptType, DialInv
    <3> QED
      BY <3>2, <3>3, <3>4
  <2>2. HandshakeInv'
    BY <1>3 DEF ReconnectFires, attemptVars, requestVars, connecting, HandshakeInv
  <2> QED
    BY <1>3, <2>1, <2>2 DEF ReconnectFires, clientVars, requestVars, beatVars, netVars, envVars,
       BeatType, NetType, ClientType, RequestType, OtherType
<1>4. CASE TimePasses
  <2>2. tickers' \subseteq [n : Sockets, left : Nat]
    BY <1>4, ElapseTyped DEF TimePasses, BeatType
  <2>3. deadlines' \subseteq [id : Requests, sock : Sockets, left : Nat]
    BY <1>4, ElapseTyped DEF TimePasses, BeatType
  <2>4. armed' \subseteq [n : Timers, left : Nat]
    BY <1>4, ElapseTyped DEF TimePasses, RetryType
  <2>1. BeatType' /\ RetryType'
    BY <1>4, <2>2, <2>3, <2>4 DEF TimePasses, BeatType, RetryType
  <2> QED
    BY <1>4, <2>1 DEF TimePasses, clientVars, attemptVars, requestVars, netVars, envVars,
       NetType, ClientType, AttemptType, RequestType, OtherType, DialInv, HandshakeInv
<1> QED
  BY <1>1, <1>2, <1>3, <1>4 DEF TimerNext

LEMMA TInvReply ==
  ASSUME TInv, NEW w \in wire, Reply(w)
  PROVE  TInv'
<1> USE DEF TInv
<1>1. wire' \subseteq [id : Requests, sock : Sockets]
  BY DEF Reply, NetType
<1>2. drops' \in Nat /\ serverUp' \in BOOLEAN /\ connects' \in Nat
  BY DEF Reply, OtherType
<1>3. ASSUME NEW p \in pending, p.id = w.id, p.kind # "handshake",
             NEW result \in {"resolved", "rejected"}, SettleRequest(p, result),
             UNCHANGED <<clientVars, attemptVars, retryVars, heartbeatTimer, tickers, link,
                         listening, faults, authed, engaged>>
      PROVE  TInv'
  <2>1. RetryType' /\ ClientType' /\ AttemptType' /\ DialInv'
    BY <1>3, Frame
  <2>2. NetType' /\ OtherType'
    BY <1>1, <1>2, <1>3 DEF NetType, OtherType
  <2>3. BeatType'
    BY <1>3 DEF SettleRequest, Reply, BeatType
  <2>4. RequestType'
    BY <1>3 DEF SettleRequest, Reply, RequestType
  <2>5. HandshakeInv'
    BY <1>3 DEF SettleRequest, attemptVars, HandshakeInv
  <2> QED
    BY <2>1, <2>2, <2>3, <2>4, <2>5
<1>4. ASSUME NEW p \in pending, p.id = w.id, p.kind = "handshake",
             HandshakeAccepted(p) \/ HandshakeRejected(p),
             UNCHANGED <<outcome, heartbeatInFlightId, deadlines, heartbeatDeadline>>
      PROVE  TInv'
  <2>1. dialing \in Sockets
    BY <1>4 DEF HandshakeInv, DialInv
  <2>2. pending' = pending \ {p}
    BY <1>4 DEF HandshakeAccepted, HandshakeRejected
  <2>3. RequestType'
    BY <1>4, <2>2 DEF Reply, RequestType
  <2>4. \A q \in pending' : q.kind # "handshake"
    BY <1>4, <2>2 DEF HandshakeInv
  <2>5. CASE HandshakeAccepted(p)
    <3>1. Established(dialing)
      BY <2>5 DEF HandshakeAccepted
    <3>2. BeatType'
      BY <1>4, <2>1, <3>1, EstablishedTyped DEF Reply, BeatType
    <3>3. NetType' /\ OtherType'
      BY <1>1, <1>2, <2>1, <2>5, <3>1, EstablishedTyped DEF HandshakeAccepted, NetType, OtherType
    <3>4. AttemptType' /\ DialInv' /\ HandshakeInv'
      BY <2>1, <2>4, <3>1, EstablishedTyped DEF AttemptType, DialInv, HandshakeInv
    <3> QED
      BY <2>1, <2>3, <3>1, <3>2, <3>3, <3>4, EstablishedTyped
  <2>6. CASE HandshakeRejected(p)
    <3>1. RetryType' /\ phase' = "idle" /\ dialing' = None /\ caller' = caller
      BY <2>6, FailAttemptTyped DEF HandshakeRejected
    <3>2. BeatType'
      BY <1>4, <2>6 DEF HandshakeRejected, Reply, BeatType
    <3>3. NetType'
      BY <1>1, <2>6 DEF HandshakeRejected, NetType
    <3>4. OtherType'
      BY <1>2, <2>6 DEF HandshakeRejected, Fault, OtherType
    <3>5. ClientType'
      BY <2>6 DEF HandshakeRejected, ClientType
    <3>6. AttemptType' /\ DialInv' /\ HandshakeInv'
      BY <2>4, <3>1 DEF AttemptType, DialInv, HandshakeInv
    <3> QED
      BY <2>3, <3>1, <3>2, <3>3, <3>4, <3>5, <3>6
  <2> QED
    BY <1>4, <2>5, <2>6
<1>5. ASSUME UNCHANGED <<clientVars, attemptVars, pending, outcome, retryVars, heartbeatTimer,
                         tickers, heartbeatInFlightId, deadlines, heartbeatDeadline, link,
                         listening, faults, authed, engaged>>
      PROVE  TInv'
  <2>1. RetryType' /\ ClientType' /\ AttemptType' /\ DialInv' /\ HandshakeInv'
    BY <1>5, Frame DEF attemptVars
  <2>2. NetType' /\ OtherType'
    BY <1>1, <1>2, <1>5 DEF NetType, OtherType
  <2>3. BeatType' /\ RequestType'
    BY <1>5 DEF Reply, BeatType, RequestType
  <2> QED
    BY <2>1, <2>2, <2>3
<1> QED
  BY <1>3, <1>4, <1>5 DEF Reply

LEMMA TInvNet == TInv /\ NetNext => TInv'
<1> SUFFICES ASSUME TInv, NetNext PROVE TInv'
  OBVIOUS
<1> USE DEF TInv
<1>1. ASSUME NEW w \in wire, Lose(w) PROVE TInv'
  <2>1. NetType'
    BY <1>1 DEF Lose, NetType
  <2>2. OtherType'
    BY <1>1 DEF Lose, Fault, OtherType, beatVars
  <2> QED
    BY <1>1, <2>1, <2>2, Frame DEF Lose, attemptVars, requestVars
<1>2. ASSUME NEW s \in Sockets, CloseEvent(s) PROVE TInv'
  <2>1. HandleClose({}, {s}) /\ OtherType'
    BY <1>2 DEF CloseEvent, OtherType, envVars
  <2> QED
    BY <2>1, HandleCloseTyped
<1>3. ASSUME NEW s \in Sockets, RemoteClose(s) PROVE TInv'
  <2>1. NetType'
    BY <1>3 DEF RemoteClose, NetType
  <2>2. OtherType'
    BY <1>3 DEF RemoteClose, Fault, OtherType, beatVars
  <2> QED
    BY <1>3, <2>1, <2>2, Frame DEF RemoteClose, attemptVars, requestVars
<1>4. CASE ServerStop
  <2>1. NetType'
    BY <1>4 DEF ServerStop, NetType
  <2>2. OtherType'
    <3>1. faults' \in Nat /\ connects' \in Nat
      BY <1>4 DEF ServerStop, Fault, OtherType
    <3>2. drops' = drops /\ serverUp' = FALSE /\ UNCHANGED <<authed, engaged>>
      BY <1>4 DEF ServerStop, beatVars
    <3> QED
      BY <3>1, <3>2 DEF OtherType
  <2> QED
    BY <1>4, <2>1, <2>2, Frame DEF ServerStop, attemptVars, requestVars
<1>5. CASE ServerStart
  <2>1. OtherType'
    BY <1>5 DEF ServerStart, OtherType, beatVars
  <2> QED
    BY <1>5, <2>1, Frame DEF ServerStart, attemptVars, requestVars
<1> QED
  BY <1>1, <1>2, <1>3, <1>4, <1>5, TInvReply DEF NetNext

LEMMA TInvStutter == TInv /\ UNCHANGED vars => TInv'
<1> SUFFICES ASSUME TInv, UNCHANGED vars PROVE TInv'
  OBVIOUS
<1>1. UNCHANGED <<clientVars, attemptVars, requestVars, beatVars, retryVars, netVars, envVars,
                  authed, engaged>>
  BY DEF vars
<1>2. OtherType'
  BY <1>1, Frame DEF TInv, OtherType
<1>3. UNCHANGED <<pending, phase>>
  BY <1>1 DEF attemptVars, requestVars
<1> QED
  BY <1>1, <1>2, <1>3, Frame DEF TInv

LEMMA TInvStep == TInv /\ [Next]_vars => TInv'
BY TInvUser, TInvConnect, TInvTimer, TInvNet, TInvStutter DEF Next

\* Whatever the caller does and for every bound: the fields of the client stay within
\* their types.  The backoff index never leaves the schedule (nextBackoffMs reads
\* schedule[index] without a check), and the socket a connection attempt goes on
\* with after an await exists.
THEOREM TypeCorrect == Spec => []TypeOK
<1>1. Spec => []TInv
  BY TInvInit, TInvStep, PTL DEF Spec
<1> QED
  BY <1>1, TInvTypeOK, PTL

-----------------------------------------------------------------------------
(***************************************************************************)
(* The client implements the contract of an RpcChannel, for every kind of  *)
(* caller.                                                                 *)
(***************************************************************************)

\* The ids not handed out have no outcome; what is pending for a caller or a heartbeat
\* is what waits, under an id of its own; and only a connected client owes answers.
PromiseInv ==
  /\ \A r \in Requests : r >= nextRequestId => outcome[r] = "none"
  /\ \A p \in pending : /\ p.id < nextRequestId
                        /\ outcome[p.id] = IF p.kind = "handshake" THEN "none" ELSE "waiting"
  /\ \A p, q \in pending : p.id = q.id => p = q
  /\ ~connected => \A r \in Requests : outcome[r] # "waiting"

\* A step of the client is a step of the contract or leaves its two variables alone.
ContractStep == Contract!Next \/ UNCHANGED <<connected, outcome>>

LEMMA PromiseInit == Init => PromiseInv
BY DEF Init, PromiseInv

\* Nothing the contract or the invariant speaks of changes.
LEMMA PromiseFrame ==
  ASSUME PromiseInv, UNCHANGED <<nextRequestId, pending, outcome, connected>>
  PROVE  PromiseInv' /\ ContractStep
BY DEF PromiseInv, ContractStep

\* tearDownConnection() settles everything that waits; without a connection nothing does.
LEMMA TearDownPromise ==
  ASSUME TInv, PromiseInv, NEW F, NEW G, TearDown(F, G)
  PROVE  PromiseInv' /\ ContractStep
<1>1. /\ connected' = FALSE /\ pending' = {} /\ nextRequestId' = nextRequestId
      /\ outcome' = [r \in Requests |-> IF outcome[r] = "waiting" THEN "rejected" ELSE outcome[r]]
  BY DEF TearDown, RejectPending
<1>2. PromiseInv'
  BY <1>1 DEF PromiseInv
<1>3. ASSUME connected PROVE ContractStep
  <2>1. Contract!Drop
    BY <1>1, <1>3 DEF Contract!Drop
  <2> QED
    BY <2>1 DEF ContractStep, Contract!Next
<1>4. ASSUME ~connected PROVE ContractStep
  <2>1. outcome' = outcome
    BY <1>1, <1>4 DEF PromiseInv, TInv, RequestType
  <2>2. connected' = connected
    BY <1>1, <1>4 DEF TInv, ClientType
  <2> QED
    BY <2>1, <2>2 DEF ContractStep
<1> QED
  BY <1>2, <1>3, <1>4

LEMMA HandleClosePromise ==
  ASSUME TInv, PromiseInv, NEW F, NEW G, HandleClose(F, G)
  PROVE  PromiseInv' /\ ContractStep
<1>1. CASE ~connected /\ socket = None
  BY <1>1, PromiseFrame DEF HandleClose, clientVars, requestVars
<1>2. CASE ~(~connected /\ socket = None)
  BY <1>2, TearDownPromise DEF HandleClose
<1> QED
  BY <1>1, <1>2

\* A request with a new id, taken or refused, while the client is connected.
LEMMA SubmitPromise ==
  ASSUME TInv, PromiseInv, connected, connected' = connected,
         nextRequestId \in Requests, nextRequestId' = nextRequestId + 1,
         NEW p, p.id = nextRequestId, p.kind # "handshake",
         \/ pending' = pending \cup {p} /\ outcome' = [outcome EXCEPT ![nextRequestId] = "waiting"]
         \/ pending' = pending /\ outcome' = [outcome EXCEPT ![nextRequestId] = "rejected"]
  PROVE  PromiseInv' /\ ContractStep
<1> PICK n \in Requests : n = nextRequestId
  OBVIOUS
<1>1. outcome \in [Requests -> {"none", "waiting", "resolved", "rejected"}] /\ outcome[n] = "none"
  BY DEF TInv, RequestType, PromiseInv, Requests
<1>2. Contract!Submit(n)
  BY <1>1 DEF Contract!Submit
<1>3. ContractStep
  BY <1>2 DEF ContractStep, Contract!Next
<1>4. \A q \in pending : q.id \in Requests /\ q.id < n
  BY DEF TInv, RequestType, PromiseInv
<1>5. /\ \A r \in Requests : r # n => outcome'[r] = outcome[r]
      /\ outcome'[n] \in {"waiting", "rejected"}
      /\ \A q \in pending' : q \in pending \/ (q = p /\ outcome'[n] = "waiting")
  <2>1. CASE pending' = pending \cup {p} /\ outcome' = [outcome EXCEPT ![nextRequestId] = "waiting"]
    BY <1>1, <2>1
  <2>2. CASE pending' = pending /\ outcome' = [outcome EXCEPT ![nextRequestId] = "rejected"]
    BY <1>1, <2>2
  <2> QED
    BY <2>1, <2>2
<1>6. \A r \in Requests : r >= nextRequestId' => outcome'[r] = "none"
  BY <1>5 DEF PromiseInv, Requests
<1>7. \A q \in pending' : /\ q.id < nextRequestId'
                          /\ outcome'[q.id] = IF q.kind = "handshake" THEN "none" ELSE "waiting"
  <2>1. ASSUME NEW q \in pending
        PROVE  /\ q.id < nextRequestId'
               /\ outcome'[q.id] = IF q.kind = "handshake" THEN "none" ELSE "waiting"
    <3>1. q.id \in Requests /\ q.id # n /\ q.id < n + 1
      BY <2>1, <1>4 DEF Requests
    <3> QED
      BY <2>1, <3>1, <1>5 DEF PromiseInv
  <2> QED
    BY <2>1, <1>5 DEF Requests
<1>8. \A q, u \in pending' : q.id = u.id => q = u
  BY <1>4, <1>5 DEF PromiseInv, Requests
<1> QED
  BY <1>3, <1>6, <1>7, <1>8 DEF PromiseInv

LEMMA UserPromise ==
  ASSUME TInv, PromiseInv, UserNext
  PROVE  PromiseInv' /\ ContractStep
<1>1. CASE UserConnect
  BY <1>1, PromiseFrame DEF UserConnect, requestVars
<1>2. CASE UserDisconnect
  BY <1>2, TearDownPromise DEF UserDisconnect
<1>3. CASE UserSend
  <2>0. nextRequestId \in Requests
    BY <1>3 DEF UserSend, IdAvailable, TInv, RequestType, Requests
  <2>1. connected /\ connected' = connected
    BY <1>3 DEF UserSend, clientVars
  <2> DEFINE p == [id |-> nextRequestId, sock |-> socket, kind |-> "user"]
  <2>2. p.id = nextRequestId /\ p.kind # "handshake" /\ nextRequestId' = nextRequestId + 1
    BY <1>3 DEF UserSend
  <2>3. \/ pending' = pending \cup {p} /\ outcome' = [outcome EXCEPT ![nextRequestId] = "waiting"]
        \/ pending' = pending /\ outcome' = [outcome EXCEPT ![nextRequestId] = "rejected"]
    BY <1>3 DEF UserSend
  <2> HIDE DEF p
  <2> QED
    BY <2>0, <2>1, <2>2, <2>3, SubmitPromise
<1> QED
  BY <1>1, <1>2, <1>3 DEF UserNext

\* The client gets connected, or still is.
LEMMA EstablishedPromise ==
  ASSUME TInv, PromiseInv, NEW s, Established(s), UNCHANGED <<nextRequestId, outcome>>,
         pending' \subseteq pending
  PROVE  PromiseInv' /\ ContractStep
<1>1. PromiseInv'
  BY DEF Established, PromiseInv
<1>2. ASSUME connected PROVE ContractStep
  <2>1. connected' = connected
    BY <1>2 DEF Established, TInv, ClientType
  <2> QED
    BY <2>1 DEF ContractStep
<1>3. ASSUME ~connected PROVE ContractStep
  <2>1. Contract!Connect
    BY <1>3 DEF Established, Contract!Connect
  <2> QED
    BY <2>1 DEF ContractStep, Contract!Next
<1> QED
  BY <1>1, <1>2, <1>3

LEMMA ConnectPromise ==
  ASSUME TInv, PromiseInv, ConnectNext
  PROVE  PromiseInv' /\ ContractStep
<1>1. CASE DiscoverOk \/ DiscoverFail \/ OpenFail \/ ContinueFailed
  BY <1>1, PromiseFrame
  DEF DiscoverOk, DiscoverFail, OpenFail, ContinueFailed, clientVars, requestVars
<1>2. CASE OpenOk /\ UseToken
  <2>1. /\ nextRequestId \in Requests /\ nextRequestId' = nextRequestId + 1
        /\ UNCHANGED <<connected, outcome>>
    BY <1>2 DEF OpenOk, TInv, RequestType, Requests
  <2> PICK p : p = [id |-> nextRequestId, sock |-> dialing, kind |-> "handshake"]
    OBVIOUS
  <2>2. pending' = pending \cup {p} /\ p.id = nextRequestId /\ p.kind = "handshake"
    BY <1>2 DEF OpenOk
  <2>3. outcome[p.id] = "none" /\ \A q \in pending : q.id \in Requests /\ q.id < p.id
    BY <2>1, <2>2 DEF PromiseInv, TInv, RequestType, Requests
  <2>4. PromiseInv'
    BY <2>1, <2>2, <2>3 DEF PromiseInv, Requests
  <2> QED
    BY <2>1, <2>4 DEF ContractStep
<1>3. CASE OpenOk /\ ~UseToken
  BY <1>3, EstablishedPromise DEF OpenOk
<1> QED
  BY <1>1, <1>2, <1>3 DEF ConnectNext

LEMMA TimerPromise ==
  ASSUME TInv, PromiseInv, TimerNext
  PROVE  PromiseInv' /\ ContractStep
<1>1. ASSUME NEW t \in tickers, HeartbeatTick(t) PROVE PromiseInv' /\ ContractStep
  <2>1. connected' = connected
    BY <1>1 DEF HeartbeatTick, clientVars
  <2>2. CASE connected /\ socket # None
    <3> DEFINE p == [id |-> nextRequestId, sock |-> socket, kind |-> "heartbeat"]
    <3>1. p.id = nextRequestId /\ p.kind # "handshake" /\ nextRequestId' = nextRequestId + 1
      BY <1>1, <2>2 DEF HeartbeatTick
    <3>2. pending' = pending \cup {p} /\ outcome' = [outcome EXCEPT ![nextRequestId] = "waiting"]
      BY <1>1, <2>2 DEF HeartbeatTick
    <3>3. nextRequestId \in Requests
      <4>1. IdAvailable
        BY <1>1, <2>2 DEF HeartbeatTick
      <4> QED
        BY <4>1 DEF IdAvailable, TInv, RequestType, Requests
    <3> HIDE DEF p
    <3> QED
      BY <2>1, <2>2, <3>1, <3>2, <3>3, SubmitPromise
  <2>3. CASE ~(connected /\ socket # None)
    BY <1>1, <2>1, <2>3, PromiseFrame DEF HeartbeatTick
  <2> QED
    BY <2>2, <2>3
<1>2. ASSUME NEW d \in deadlines, DeadlineFires(d) PROVE PromiseInv' /\ ContractStep
  BY <1>2, HandleClosePromise DEF DeadlineFires
<1>3. ASSUME NEW t \in armed, ReconnectFires(t) PROVE PromiseInv' /\ ContractStep
  BY <1>3, PromiseFrame DEF ReconnectFires, clientVars, requestVars
<1>4. CASE TimePasses
  BY <1>4, PromiseFrame DEF TimePasses, clientVars, requestVars
<1> QED
  BY <1>1, <1>2, <1>3, <1>4 DEF TimerNext

LEMMA ReplyPromise ==
  ASSUME TInv, PromiseInv, NEW w \in wire, Reply(w)
  PROVE  PromiseInv' /\ ContractStep
<1>0. nextRequestId' = nextRequestId
  BY DEF Reply
<1>1. ASSUME NEW p \in pending, p.kind # "handshake", NEW o \in {"resolved", "rejected"},
             SettleRequest(p, o), UNCHANGED clientVars
      PROVE  PromiseInv' /\ ContractStep
  <2> PICK r \in Requests : r = p.id
    BY DEF TInv, RequestType
  <2>1. /\ outcome \in [Requests -> {"none", "waiting", "resolved", "rejected"}]
        /\ outcome[r] = "waiting" /\ connected /\ connected' = connected
    BY <1>1 DEF PromiseInv, TInv, RequestType, clientVars
  <2>2. pending' = pending \ {p} /\ outcome' = [outcome EXCEPT ![r] = o]
    BY <1>1 DEF SettleRequest
  <2>3. Contract!Answer(r)
    BY <2>1, <2>2 DEF Contract!Answer
  <2>4. \A q \in pending' : q \in pending /\ q.id \in Requests /\ q.id # r
    BY <1>1, <2>2 DEF PromiseInv, TInv, RequestType
  <2>5. PromiseInv'
    <3>1. \A u \in Requests : outcome'[u] = IF u = r THEN o ELSE outcome[u]
      BY <2>1, <2>2
    <3>2. r < nextRequestId
      BY <1>1 DEF PromiseInv
    <3>3. \A u \in Requests : u >= nextRequestId' => outcome'[u] = "none"
      BY <1>0, <3>1, <3>2 DEF PromiseInv, Requests, TInv, RequestType
    <3> QED
      BY <1>0, <2>1, <2>2, <2>4, <3>1, <3>3 DEF PromiseInv
  <2> QED
    BY <2>3, <2>5 DEF ContractStep, Contract!Next
<1>2. ASSUME NEW p \in pending, HandshakeAccepted(p), UNCHANGED outcome
      PROVE  PromiseInv' /\ ContractStep
  BY <1>0, <1>2, EstablishedPromise DEF HandshakeAccepted
<1>3. ASSUME NEW p \in pending, HandshakeRejected(p), UNCHANGED outcome
      PROVE  PromiseInv' /\ ContractStep
  BY <1>0, <1>3 DEF HandshakeRejected, PromiseInv, ContractStep
<1>4. ASSUME UNCHANGED <<clientVars, pending, outcome>>
      PROVE  PromiseInv' /\ ContractStep
  BY <1>0, <1>4, PromiseFrame DEF clientVars
<1> QED
  BY <1>1, <1>2, <1>3, <1>4 DEF Reply

LEMMA NetPromise ==
  ASSUME TInv, PromiseInv, NetNext
  PROVE  PromiseInv' /\ ContractStep
<1>1. ASSUME NEW s \in Sockets, CloseEvent(s) PROVE PromiseInv' /\ ContractStep
  BY <1>1, HandleClosePromise DEF CloseEvent
<1>2. ASSUME NEW s \in Sockets, RemoteClose(s) PROVE PromiseInv' /\ ContractStep
  BY <1>2, PromiseFrame DEF RemoteClose, clientVars, requestVars
<1>3. ASSUME NEW w \in wire, Lose(w) PROVE PromiseInv' /\ ContractStep
  BY <1>3, PromiseFrame DEF Lose, clientVars, requestVars
<1>4. CASE ServerStop \/ ServerStart
  BY <1>4, PromiseFrame DEF ServerStop, ServerStart, clientVars, requestVars
<1> QED
  BY <1>1, <1>2, <1>3, <1>4, ReplyPromise DEF NetNext

LEMMA PromiseStep == TInv /\ PromiseInv /\ [Next]_vars => PromiseInv' /\ ContractStep
<1> SUFFICES ASSUME TInv, PromiseInv, [Next]_vars PROVE PromiseInv' /\ ContractStep
  OBVIOUS
<1>1. CASE UNCHANGED vars
  BY <1>1, PromiseFrame DEF vars, clientVars, requestVars
<1> QED
  BY <1>1, UserPromise, ConnectPromise, TimerPromise, NetPromise DEF Next

\* The client implements the contract of a channel: requests are taken only while it is
\* connected, a promise settles once, and the loss of the connection settles all of them.
\* No kind of caller, transport, schedule or fault makes an exception, not even a second
\* connect() while the client is connected.
THEOREM ClientImplements == Spec => Implements
<1>1. Init => Contract!Init
  BY DEF Init, Contract!Init
<1>2. TInv /\ PromiseInv /\ [Next]_vars => [Contract!Next]_<<connected, outcome>>
  BY PromiseStep DEF ContractStep
<1>3. TInv /\ PromiseInv /\ [Next]_vars => PromiseInv'
  BY PromiseStep
<1> QED
  BY <1>1, <1>2, <1>3, TInvInit, TInvStep, PromiseInit, PTL DEF Spec, Implements, Contract!Spec

\* What follows from the contract alone, whoever keeps it.
ContractInv == Contract!TypeOK /\ Contract!NoneWaitingWhenDown

LEMMA ContractKeeps == Contract!Spec => []Contract!NoneWaitingWhenDown
<1>1. Contract!Init => ContractInv
  BY DEF Contract!Init, ContractInv, Contract!TypeOK, Contract!Result, Contract!NoneWaitingWhenDown
<1>2. ContractInv /\ [Contract!Next]_<<connected, outcome>> => ContractInv'
  <2> SUFFICES ASSUME ContractInv, [Contract!Next]_<<connected, outcome>> PROVE ContractInv'
    OBVIOUS
  <2> USE DEF ContractInv, Contract!TypeOK, Contract!Result, Contract!NoneWaitingWhenDown
  <2>1. CASE Contract!Connect
    BY <2>1 DEF Contract!Connect
  <2>2. CASE Contract!Drop
    BY <2>2 DEF Contract!Drop
  <2>3. ASSUME NEW r \in Requests, Contract!Submit(r) PROVE ContractInv'
    BY <2>3 DEF Contract!Submit
  <2>4. ASSUME NEW r \in Requests, Contract!Answer(r) PROVE ContractInv'
    BY <2>4 DEF Contract!Answer
  <2>5. CASE UNCHANGED <<connected, outcome>>
    BY <2>5
  <2> QED
    BY <2>1, <2>2, <2>3, <2>4, <2>5 DEF Contract!Next
<1>3. ContractInv => Contract!NoneWaitingWhenDown
  BY DEF ContractInv
<1> QED
  BY <1>1, <1>2, <1>3, PTL DEF Contract!Spec

\* Nobody who calls the client is left waiting by a link that is down (tearDownConnection():
\* "so callers do not hang").
THEOREM NobodyWaitsOnADeadLink == Spec => []Contract!NoneWaitingWhenDown
BY ClientImplements, ContractKeeps, PTL DEF Implements

-----------------------------------------------------------------------------
(* Safety for a patient caller: one that calls connect() only while the    *)
(* client neither is connected nor waits to reconnect.  The run client_ws  *)
(* checks the same invariants on a small instance.                         *)

\* Where the current socket comes from and what state it is in.
SocketInv ==
  /\ connected => socket # None
  /\ ~connected /\ socket # None => phase = "handshake"
  /\ phase = "handshake" => socket = dialing
  /\ phase = "failed" => socket = None
  /\ phase = "open" => link[dialing] = "opening"
  /\ socket # None => link[socket] \in {"open", "closed"}

\* While connectOnce() awaits the handshake nothing else is pending.
PendingInv ==
  /\ PendingOnSocket
  /\ phase = "handshake" => \A p \in pending : p.kind = "handshake"

GateInv == UseToken /\ connected => socket \in authed

LoopInv ==
  /\ engaged => ~terminated /\ EnableAutoReconnect
  /\ LoopAlive
  /\ QuietAfterDisconnect

PInv == TInv /\ Exclusive /\ SocketInv /\ PendingInv /\ GateInv /\ LoopInv

-----------------------------------------------------------------------------
(* Consequences of the invariant.                                          *)

\* Without a socket no request is pending.
LEMMA NoneNoPending ==
  ASSUME PInv, socket = None
  PROVE  pending = {}
<1> SUFFICES ASSUME NEW p \in pending PROVE FALSE
  OBVIOUS
<1>1. p.sock \in Sockets /\ p.sock = socket
  BY DEF PInv, TInv, RequestType, PendingInv, PendingOnSocket
<1> QED
  BY <1>1 DEF Sockets, None

\* Outside the handshake a client that is not connected has no socket.
LEMMA UnconnectedNoSocket ==
  ASSUME PInv, ~connected, phase # "handshake"
  PROVE  socket = None /\ pending = {}
BY NoneNoPending DEF PInv, SocketInv

LEMMA BusyAlone ==
  ASSUME PInv, phase # "idle"
  PROVE  ~connected /\ armed = {}
BY DEF PInv, Exclusive

LEMMA IsAuthGate == PInv => AuthGate
<1> SUFFICES ASSUME PInv, UseToken, NEW p \in pending, p.kind = "user"
             PROVE  p.sock \in authed
  BY DEF AuthGate
<1>1. p.sock = socket
  BY DEF PInv, PendingInv, PendingOnSocket
<1>2. connected
  BY UnconnectedNoSocket DEF PInv, PendingInv
<1> QED
  BY <1>1, <1>2 DEF PInv, GateInv

-----------------------------------------------------------------------------
(* What the helpers of the handlers establish.                             *)

\* A step that leaves the client without a socket.
LEMMA SocketGone ==
  ASSUME socket' = None, connected' = FALSE, pending' = {}, phase' # "handshake",
         phase' = "open" => link'[dialing'] = "opening"
  PROVE  SocketInv' /\ PendingInv' /\ GateInv'
BY DEF SocketInv, PendingInv, PendingOnSocket, GateInv

\* A reconnect timer armed while none is.
LEMMA ScheduleAlone ==
  ASSUME ScheduleReconnect({})
  PROVE  /\ armed' # {}
         /\ \A t, u \in armed' : t = u
         /\ \A t \in armed' : t.n = reconnectTimer'
BY DEF ScheduleReconnect

LEMMA FailAttemptSafe ==
  ASSUME PInv, phase # "idle", FailAttempt, UNCHANGED <<connected, terminated, engaged>>
  PROVE  Exclusive' /\ LoopInv'
<1>1. ~connected' /\ armed = {} /\ phase' = "idle"
  BY BusyAlone DEF FailAttempt
<1>2. CASE RetryAfterFailure
  <2>1. ScheduleReconnect({})
    BY <1>1, <1>2 DEF FailAttempt
  <2> QED
    BY <1>1, <1>2, <2>1, ScheduleAlone
    DEF RetryAfterFailure, PInv, Exclusive, LoopInv, LoopAlive, QuietAfterDisconnect
<1>3. CASE ~RetryAfterFailure
  <2>1. armed' = {} /\ ~engaged
    BY <1>1, <1>3, BusyAlone DEF FailAttempt, retryVars, RetryAfterFailure, PInv, LoopInv, LoopAlive
  <2> QED
    BY <1>1, <2>1 DEF Exclusive, LoopInv, LoopAlive, QuietAfterDisconnect
<1> QED
  BY <1>2, <1>3

LEMMA EstablishedSafe ==
  ASSUME PInv, phase # "idle", NEW s \in Sockets, Established(s)
  PROVE  Exclusive' /\ LoopInv'
<1>1. connected' /\ armed' = {} /\ phase' = "idle"
  BY BusyAlone DEF Established
<1>2. engaged' = (EnableAutoReconnect /\ ~terminated) /\ terminated' = terminated
  BY DEF Established
<1> QED
  BY <1>1, <1>2 DEF Exclusive, LoopInv, LoopAlive, QuietAfterDisconnect

LEMMA TearDownSafe ==
  ASSUME PInv, NEW F, NEW G, TearDown(F, G)
  PROVE  /\ SocketInv' /\ PendingInv' /\ GateInv' /\ ~connected'
         /\ phase = "idle" => phase' = "idle"
         /\ phase # "idle" => phase' # "idle"
         /\ caller' = caller
<1>1. socket' = None /\ connected' = FALSE /\ pending' = {} /\ phase' # "handshake"
  BY DEF TearDown, CloseSocket, RejectPending
<1>2. phase' = "open" => link'[dialing'] = "opening"
  <2> SUFFICES ASSUME phase' = "open" PROVE link'[dialing'] = "opening"
    OBVIOUS
  <2>1. phase = "open"
    BY DEF TearDown, RejectPending
  <2>2. socket = None /\ dialing \in Sockets /\ link[dialing] = "opening"
    BY <2>1, BusyAlone, UnconnectedNoSocket DEF PInv, TInv, DialInv, SocketInv
  <2>3. dialing # socket
    BY <2>2 DEF Sockets, None
  <2> QED
    BY <2>2, <2>3 DEF TearDown, CloseSocket
<1>3. SocketInv' /\ PendingInv' /\ GateInv'
  BY <1>1, <1>2, SocketGone
<1> QED
  BY <1>1, <1>3 DEF TearDown, RejectPending

LEMMA HandleCloseSafe ==
  ASSUME PInv, NEW F, NEW G, HandleClose(F, G), UNCHANGED <<authed, engaged>>
  PROVE  Exclusive' /\ SocketInv' /\ PendingInv' /\ GateInv' /\ LoopInv'
<1>1. CASE ~connected /\ socket = None
  <2>1. UNCHANGED <<socket, connected, terminated, phase, caller, dialing, pending,
                    reconnectTimer, armed, link>>
    BY <1>1 DEF HandleClose, clientVars, attemptVars, requestVars, retryVars
  <2>2. Exclusive' /\ LoopInv'
    BY <2>1 DEF PInv, Exclusive, LoopInv, LoopAlive, QuietAfterDisconnect
  <2>3. SocketInv'
    BY <2>1 DEF PInv, SocketInv
  <2>4. PendingInv' /\ GateInv'
    BY <2>1 DEF PInv, PendingInv, PendingOnSocket, GateInv
  <2> QED
    BY <2>2, <2>3, <2>4
<1>2. CASE ~(~connected /\ socket = None)
  <2>1. TearDown(F, G) /\ terminated' = terminated
    BY <1>2 DEF HandleClose
  <2>2. CASE RetryAfterClose
    <3>1. phase = "idle" /\ armed = {} /\ connected /\ ~terminated
      BY <2>2 DEF RetryAfterClose, PInv, Exclusive
    <3>2. ScheduleReconnect({})
      BY <1>2, <2>2, <3>1 DEF HandleClose
    <3> QED
      BY <2>1, <3>1, <3>2, ScheduleAlone, TearDownSafe
      DEF PInv, Exclusive, LoopInv, LoopAlive, QuietAfterDisconnect
  <2>3. CASE ~RetryAfterClose
    <3>1. UNCHANGED <<reconnectTimer, armed>>
      BY <1>2, <2>3 DEF HandleClose, retryVars
    <3>2. Exclusive'
      BY <2>1, <3>1, TearDownSafe DEF PInv, Exclusive
    <3>3. LoopInv'
      BY <2>1, <2>3, <3>1, TearDownSafe
      DEF RetryAfterClose, PInv, LoopInv, LoopAlive, QuietAfterDisconnect
    <3> QED
      BY <2>1, <3>2, <3>3, TearDownSafe
  <2> QED
    BY <2>2, <2>3
<1> QED
  BY <1>1, <1>2

\* Each part is kept by a step that leaves its variables alone.
LEMMA SafeFrame ==
  ASSUME PInv
  PROVE  /\ UNCHANGED <<connected, phase, reconnectTimer, armed>> => Exclusive'
         /\ UNCHANGED <<socket, connected, phase, dialing, link>> => SocketInv'
         /\ UNCHANGED <<socket, phase, pending, link>> => PendingInv'
         /\ UNCHANGED <<socket, connected, authed>> => GateInv'
         /\ UNCHANGED <<engaged, terminated, connected, phase, caller, armed>> => LoopInv'
<1> USE DEF PInv
<1>1. UNCHANGED <<connected, phase, reconnectTimer, armed>> => Exclusive'
  BY DEF Exclusive
<1>2. UNCHANGED <<socket, connected, phase, dialing, link>> => SocketInv'
  BY DEF SocketInv
<1>3. UNCHANGED <<socket, phase, pending, link>> => PendingInv'
  BY DEF PendingInv, PendingOnSocket
<1>4. UNCHANGED <<socket, connected, authed>> => GateInv'
  BY DEF GateInv
<1>5. UNCHANGED <<engaged, terminated, connected, phase, caller, armed>> => LoopInv'
  BY DEF LoopInv, LoopAlive, QuietAfterDisconnect
<1> QED
  BY <1>1, <1>2, <1>3, <1>4, <1>5

-----------------------------------------------------------------------------
(* Every step keeps the invariant.                                         *)

LEMMA PInvInit == Init => PInv
<1> SUFFICES ASSUME Init PROVE PInv
  OBVIOUS
<1>1. Exclusive /\ SocketInv /\ GateInv
  BY DEF Init, Exclusive, SocketInv, GateInv
<1>2. PendingInv /\ LoopInv
  BY DEF Init, PendingInv, PendingOnSocket, LoopInv, LoopAlive, QuietAfterDisconnect
<1> QED
  BY <1>1, <1>2, TInvInit DEF PInv

\* The parts beyond the types, as one formula.
SafeInv == Exclusive /\ SocketInv /\ PendingInv /\ GateInv /\ LoopInv

LEMMA UserSafe ==
  ASSUME Caller = "patient", PInv, UserNext
  PROVE  SafeInv'
<1>1. CASE UserConnect
  <2>1. ~connected /\ armed = {}
    BY <1>1 DEF UserConnect, MayConnect
  <2>2. /\ UNCHANGED <<socket, connected, pending, reconnectTimer, armed, link, authed, engaged>>
        /\ terminated' = FALSE
    BY <1>1 DEF UserConnect, requestVars, retryVars, netVars
  <2>3. CASE connecting
    <3>1. UNCHANGED <<phase, caller, dialing>>
      BY <1>1, <2>3 DEF UserConnect, attemptVars
    <3>2. LoopInv'
      BY <2>1, <2>2, <3>1 DEF PInv, LoopInv, LoopAlive, QuietAfterDisconnect
    <3> QED
      BY <2>2, <3>1, <3>2, SafeFrame DEF SafeInv
  <2>4. CASE ~connecting
    <3>1. phase = "idle" /\ phase' = "discover"
      BY <1>1, <2>4 DEF UserConnect, connecting
    <3>2. socket' = None /\ connected' = FALSE /\ pending' = {}
      BY <2>1, <2>2, <3>1, UnconnectedNoSocket DEF PInv, TInv, ClientType
    <3>3. Exclusive'
      BY <2>1, <2>2, <3>2 DEF Exclusive
    <3>4. LoopInv'
      BY <2>1, <2>2, <3>1 DEF PInv, LoopInv, LoopAlive, QuietAfterDisconnect
    <3> QED
      BY <3>1, <3>2, <3>3, <3>4, SocketGone DEF SafeInv
  <2> QED
    BY <2>3, <2>4
<1>2. CASE UserDisconnect
  <2>1. TearDown({}, {}) /\ armed' = {} /\ ~engaged'
    BY <1>2 DEF UserDisconnect, PInv, Exclusive
  <2>2. Exclusive' /\ LoopInv'
    BY <2>1, TearDownSafe DEF Exclusive, LoopInv, LoopAlive, QuietAfterDisconnect
  <2> QED
    BY <2>1, <2>2, TearDownSafe DEF SafeInv
<1>3. CASE UserSend
  <2>1. UNCHANGED <<clientVars, attemptVars, retryVars, link, authed, engaged>>
    BY <1>3 DEF UserSend
  <2>2. UNCHANGED <<socket, connected, terminated, phase, caller, dialing, reconnectTimer,
                    armed, link, authed, engaged>>
    BY <2>1 DEF clientVars, attemptVars, retryVars
  <2>3. connected /\ phase = "idle"
    BY <1>3 DEF UserSend, PInv, Exclusive
  <2>4. PendingInv'
    BY <1>3, <2>2, <2>3 DEF UserSend, PInv, PendingInv, PendingOnSocket
  <2> QED
    BY <2>2, <2>4, SafeFrame DEF SafeInv
<1> QED
  BY <1>1, <1>2, <1>3 DEF UserNext

LEMMA ConnectSafe ==
  ASSUME PInv, ConnectNext
  PROVE  SafeInv'
<1>1. CASE DiscoverOk
  <2>1. /\ UNCHANGED <<socket, connected, terminated, caller, pending, reconnectTimer, armed,
                       authed, engaged>>
        /\ phase = "discover" /\ phase' = "open"
    BY <1>1 DEF DiscoverOk, clientVars, requestVars, retryVars
  <2>2. socket = None /\ ~connected /\ armed = {} /\ pending = {}
    BY <2>1, BusyAlone, UnconnectedNoSocket
  <2>3. link'[dialing'] = "opening"
    BY <1>1 DEF DiscoverOk, PInv, TInv, NetType
  <2>4. Exclusive'
    BY <2>1, <2>2 DEF Exclusive
  <2>5. LoopInv'
    BY <2>1 DEF PInv, LoopInv, LoopAlive, QuietAfterDisconnect
  <2> QED
    BY <2>1, <2>2, <2>3, <2>4, <2>5, SocketGone DEF SafeInv, PInv, TInv, ClientType
<1>2. CASE DiscoverFail
  <2>1. /\ phase = "discover" /\ FailAttempt
        /\ UNCHANGED <<socket, connected, terminated, pending, engaged>>
    BY <1>2 DEF DiscoverFail, clientVars, requestVars
  <2>2. socket' = None /\ connected' = FALSE /\ pending' = {} /\ phase' = "idle"
    BY <2>1, BusyAlone, UnconnectedNoSocket DEF FailAttempt, PInv, TInv, ClientType
  <2> QED
    BY <2>1, <2>2, SocketGone, FailAttemptSafe DEF SafeInv
<1>3. CASE OpenOk
  <2>1. /\ phase = "open" /\ dialing \in Sockets /\ dialing # None
        /\ link' = [link EXCEPT ![dialing] = "open"]
        /\ authed' = authed
    BY <1>3 DEF OpenOk, PInv, TInv, DialInv, Sockets, None
  <2>2. link'[dialing] = "open"
    BY <2>1 DEF PInv, TInv, NetType
  <2>3. ~connected /\ armed = {} /\ pending = {}
    BY <2>1, BusyAlone, UnconnectedNoSocket
  <2>4. CASE UseToken
    <3>1. /\ socket' = dialing /\ phase' = "handshake"
          /\ UNCHANGED <<connected, terminated, caller, dialing, reconnectTimer, armed, engaged>>
      BY <1>3, <2>4 DEF OpenOk, retryVars
    <3>2. Exclusive' /\ SocketInv' /\ GateInv'
      BY <2>1, <2>2, <2>3, <3>1 DEF Exclusive, SocketInv, GateInv
    <3>3. \A p \in pending' : p.sock = dialing /\ p.kind = "handshake"
      BY <1>3, <2>3, <2>4 DEF OpenOk
    <3>4. PendingInv'
      BY <2>2, <3>1, <3>3 DEF PendingInv, PendingOnSocket
    <3>5. LoopInv'
      BY <2>1, <2>3, <3>1 DEF PInv, LoopInv, LoopAlive, QuietAfterDisconnect
    <3> QED
      BY <3>2, <3>4, <3>5 DEF SafeInv
  <2>5. CASE ~UseToken
    <3>1. Established(dialing) /\ pending' = {}
      BY <1>3, <2>3, <2>5 DEF OpenOk
    <3>2. socket' = dialing /\ connected' = TRUE /\ phase' = "idle"
      BY <3>1 DEF Established
    <3>3. SocketInv' /\ PendingInv' /\ GateInv'
      BY <2>1, <2>2, <2>5, <3>1, <3>2 DEF SocketInv, PendingInv, PendingOnSocket, GateInv
    <3> QED
      BY <2>1, <3>1, <3>3, EstablishedSafe DEF SafeInv
  <2> QED
    BY <2>4, <2>5
<1>4. CASE OpenFail
  <2>1. /\ phase = "open" /\ FailAttempt
        /\ UNCHANGED <<socket, connected, terminated, pending, engaged>>
    BY <1>4 DEF OpenFail, clientVars, requestVars
  <2>2. socket' = None /\ connected' = FALSE /\ pending' = {} /\ phase' = "idle"
    BY <2>1, BusyAlone, UnconnectedNoSocket DEF FailAttempt, PInv, TInv, ClientType
  <2> QED
    BY <2>1, <2>2, SocketGone, FailAttemptSafe DEF SafeInv
<1>5. CASE ContinueFailed
  <2>1. /\ phase = "failed" /\ FailAttempt /\ socket' = None
        /\ UNCHANGED <<connected, terminated, pending, engaged>>
    BY <1>5 DEF ContinueFailed, requestVars
  <2>2. connected' = FALSE /\ pending' = {} /\ phase' = "idle"
    BY <2>1, BusyAlone, UnconnectedNoSocket DEF FailAttempt, PInv, TInv, ClientType
  <2> QED
    BY <2>1, <2>2, SocketGone, FailAttemptSafe DEF SafeInv
<1> QED
  BY <1>1, <1>2, <1>3, <1>4, <1>5 DEF ConnectNext

LEMMA TimerSafe ==
  ASSUME PInv, TimerNext
  PROVE  SafeInv'
<1>1. ASSUME NEW t \in tickers, HeartbeatTick(t) PROVE SafeInv'
  <2>1. UNCHANGED <<clientVars, attemptVars, retryVars, link, authed, engaged>>
    BY <1>1 DEF HeartbeatTick
  <2>2. UNCHANGED <<socket, connected, terminated, phase, caller, dialing, reconnectTimer,
                    armed, link, authed, engaged>>
    BY <2>1 DEF clientVars, attemptVars, retryVars
  <2>3. PendingInv'
    <3>1. CASE connected /\ socket # None
      <4>1. phase = "idle" /\ link[socket] \in {"open", "closed"}
        BY <3>1 DEF PInv, Exclusive, SocketInv
      <4> QED
        BY <1>1, <2>2, <3>1, <4>1 DEF HeartbeatTick, PInv, PendingInv, PendingOnSocket
    <3>2. CASE ~(connected /\ socket # None)
      BY <1>1, <2>2, <3>2, SafeFrame DEF HeartbeatTick
    <3> QED
      BY <3>1, <3>2
  <2> QED
    BY <2>2, <2>3, SafeFrame DEF SafeInv
<1>2. ASSUME NEW d \in deadlines, DeadlineFires(d) PROVE SafeInv'
  BY <1>2, HandleCloseSafe DEF DeadlineFires, SafeInv
<1>3. ASSUME NEW t \in armed, ReconnectFires(t) PROVE SafeInv'
  <2>1. UNCHANGED <<socket, connected, terminated, pending, link, authed, engaged>>
    BY <1>3 DEF ReconnectFires, clientVars, requestVars, netVars
  <2>2. ~connected /\ phase = "idle" /\ ~terminated /\ ~connecting /\ armed \ {t} = {}
    BY <1>3 DEF PInv, Exclusive, LoopInv, QuietAfterDisconnect, connecting
  <2>3. armed' = {} /\ phase' = "discover" /\ caller' = "timer"
    BY <1>3, <2>2 DEF ReconnectFires
  <2>4. socket' = None /\ connected' = FALSE /\ pending' = {}
    BY <2>1, <2>2, UnconnectedNoSocket DEF PInv, TInv, ClientType
  <2>5. Exclusive' /\ LoopInv'
    BY <2>1, <2>3, <2>4 DEF PInv, Exclusive, LoopInv, LoopAlive, QuietAfterDisconnect
  <2> QED
    BY <2>3, <2>4, <2>5, SocketGone DEF SafeInv
<1>4. CASE TimePasses
  <2>1. /\ UNCHANGED <<socket, connected, terminated, phase, caller, dialing, pending,
                       reconnectTimer, link, authed, engaged>>
        /\ armed' = Elapse(armed)
    BY <1>4 DEF TimePasses, clientVars, attemptVars, requestVars, netVars
  <2>2. /\ armed = {} <=> armed' = {}
        /\ \A u \in armed' : \E t \in armed : u = [t EXCEPT !.left = t.left - 1]
    BY <2>1 DEF Elapse
  <2>3. Exclusive'
    <3>1. \A t \in armed : t \in [n : Timers, left : Nat] /\ t.n = reconnectTimer
      BY DEF PInv, TInv, RetryType, Exclusive
    <3>2. \A u \in armed' : u.n = reconnectTimer'
      BY <2>1, <2>2, <3>1
    <3>3. \A u, v \in armed' : u = v
      BY <2>2 DEF PInv, Exclusive
    <3> QED
      BY <2>1, <2>2, <3>2, <3>3 DEF PInv, Exclusive
  <2>4. LoopInv'
    BY <2>1, <2>2 DEF PInv, LoopInv, LoopAlive, QuietAfterDisconnect
  <2> QED
    BY <2>1, <2>3, <2>4, SafeFrame DEF SafeInv
<1> QED
  BY <1>1, <1>2, <1>3, <1>4 DEF TimerNext

LEMMA ReplySafe ==
  ASSUME PInv, NEW w \in wire, Reply(w)
  PROVE  SafeInv'
<1>1. ASSUME NEW p \in pending, NEW result, SettleRequest(p, result),
             UNCHANGED <<clientVars, attemptVars, retryVars, link, authed, engaged>>
      PROVE  SafeInv'
  <2>1. UNCHANGED <<socket, connected, terminated, phase, caller, dialing, reconnectTimer,
                    armed, link, authed, engaged>>
    BY <1>1 DEF clientVars, attemptVars, retryVars
  <2>2. PendingInv'
    BY <1>1, <2>1 DEF SettleRequest, PInv, PendingInv, PendingOnSocket
  <2> QED
    BY <2>1, <2>2, SafeFrame DEF SafeInv
<1>2. ASSUME NEW p \in pending, p.kind = "handshake",
             HandshakeAccepted(p) \/ HandshakeRejected(p)
      PROVE  SafeInv'
  <2>1. /\ phase = "handshake" /\ socket = dialing /\ dialing \in Sockets /\ dialing # None
        /\ link[dialing] \in {"open", "closed"}
    BY <1>2 DEF PInv, TInv, HandshakeInv, DialInv, SocketInv, Sockets, None
  <2>2. \A q \in pending : q = p
    BY <1>2, <2>1 DEF PInv, TInv, HandshakeInv, PendingInv
  <2>3. pending' = {} /\ ~connected
    BY <1>2, <2>1, <2>2, BusyAlone DEF HandshakeAccepted, HandshakeRejected
  <2>4. CASE HandshakeAccepted(p)
    <3>1. Established(dialing) /\ link' = link /\ dialing \in authed'
      BY <2>4 DEF HandshakeAccepted
    <3>2. socket' = dialing /\ connected' = TRUE /\ phase' = "idle"
      BY <3>1 DEF Established
    <3>3. SocketInv' /\ PendingInv' /\ GateInv'
      BY <2>1, <2>3, <3>1, <3>2 DEF SocketInv, PendingInv, PendingOnSocket, GateInv
    <3> QED
      BY <2>1, <3>1, <3>3, EstablishedSafe DEF SafeInv
  <2>5. CASE HandshakeRejected(p)
    <3>1. FailAttempt /\ socket' = None /\ UNCHANGED <<connected, terminated, engaged>>
      BY <2>5 DEF HandshakeRejected
    <3>2. phase' = "idle" /\ connected' = FALSE
      BY <2>3, <3>1 DEF FailAttempt, PInv, TInv, ClientType
    <3> QED
      BY <2>1, <2>3, <3>1, <3>2, SocketGone, FailAttemptSafe DEF SafeInv
  <2> QED
    BY <1>2, <2>4, <2>5
<1>3. ASSUME UNCHANGED <<clientVars, attemptVars, pending, retryVars, link, authed, engaged>>
      PROVE  SafeInv'
  <2>1. UNCHANGED <<socket, connected, terminated, phase, caller, dialing, pending,
                    reconnectTimer, armed, link, authed, engaged>>
    BY <1>3 DEF clientVars, attemptVars, retryVars
  <2> QED
    BY <2>1, SafeFrame DEF SafeInv
<1> QED
  BY <1>1, <1>2, <1>3 DEF Reply

LEMMA NetSafe ==
  ASSUME PInv, NetNext
  PROVE  SafeInv'
<1>1. ASSUME NEW w \in wire, Lose(w) PROVE SafeInv'
  <2>1. UNCHANGED <<socket, connected, terminated, phase, caller, dialing, pending,
                    reconnectTimer, armed, link, authed, engaged>>
    BY <1>1 DEF Lose, clientVars, attemptVars, requestVars, retryVars
  <2> QED
    BY <2>1, SafeFrame DEF SafeInv
<1>2. ASSUME NEW s \in Sockets, CloseEvent(s) PROVE SafeInv'
  BY <1>2, HandleCloseSafe DEF CloseEvent, SafeInv
<1>3. ASSUME NEW S \in SUBSET Sockets,
             link' = [s \in Sockets |->
                        IF s \in S /\ link[s] = "open" THEN "closed" ELSE link[s]],
             UNCHANGED <<clientVars, attemptVars, requestVars, retryVars, authed, engaged>>
      PROVE  SafeInv'
  <2>1. UNCHANGED <<socket, connected, terminated, phase, caller, dialing, pending,
                    reconnectTimer, armed, authed, engaged>>
    BY <1>3 DEF clientVars, attemptVars, requestVars, retryVars
  <2>2. \A s \in Sockets : /\ link[s] \in {"open", "closed"} => link'[s] \in {"open", "closed"}
                           /\ link[s] = "opening" => link'[s] = "opening"
    BY <1>3
  <2>3. SocketInv'
    BY <2>1, <2>2 DEF PInv, TInv, ClientType, DialInv, SocketInv
  <2>4. PendingInv'
    BY <2>1, <2>2 DEF PInv, TInv, RequestType, PendingInv, PendingOnSocket
  <2> QED
    BY <2>1, <2>3, <2>4, SafeFrame DEF SafeInv
<1>4. ASSUME NEW s \in Sockets, RemoteClose(s) PROVE SafeInv'
  <2>1. link' = [u \in Sockets |->
                   IF u \in {s} /\ link[u] = "open" THEN "closed" ELSE link[u]]
    BY <1>4 DEF RemoteClose, PInv, TInv, NetType
  <2>2. {s} \in SUBSET Sockets
    OBVIOUS
  <2>3. UNCHANGED <<clientVars, attemptVars, requestVars, retryVars, authed, engaged>>
    BY <1>4 DEF RemoteClose
  <2> QED
    BY <1>3, <2>1, <2>2, <2>3
<1>5. CASE ServerStop
  <2> DEFINE S == IF Transport = "ws" THEN Sockets ELSE {}
  <2>1. link' = [u \in Sockets |->
                   IF u \in S /\ link[u] = "open" THEN "closed" ELSE link[u]]
    BY <1>5 DEF ServerStop
  <2>2. S \in SUBSET Sockets
    OBVIOUS
  <2>3. UNCHANGED <<clientVars, attemptVars, requestVars, retryVars, authed, engaged>>
    BY <1>5 DEF ServerStop
  <2> HIDE DEF S
  <2> QED
    BY <1>3, <2>1, <2>2, <2>3
<1>6. CASE ServerStart
  <2>1. UNCHANGED <<socket, connected, terminated, phase, caller, dialing, pending,
                    reconnectTimer, armed, link, authed, engaged>>
    BY <1>6 DEF ServerStart, clientVars, attemptVars, requestVars, retryVars, netVars
  <2> QED
    BY <2>1, SafeFrame DEF SafeInv
<1> QED
  BY <1>1, <1>2, <1>4, <1>5, <1>6, ReplySafe DEF NetNext

LEMMA PInvStep == Caller = "patient" /\ PInv /\ [Next]_vars => PInv'
<1> SUFFICES ASSUME Caller = "patient", PInv, [Next]_vars PROVE PInv'
  OBVIOUS
<1>1. TInv'
  BY TInvStep DEF PInv
<1>2. CASE Next
  BY <1>1, <1>2, UserSafe, ConnectSafe, TimerSafe, NetSafe DEF Next, PInv, SafeInv
<1>3. CASE UNCHANGED vars
  <2>1. UNCHANGED <<socket, connected, terminated, phase, caller, dialing, pending,
                    reconnectTimer, armed, link, authed, engaged>>
    BY <1>3 DEF vars, clientVars, attemptVars, requestVars, retryVars, netVars
  <2> QED
    BY <1>1, <2>1, SafeFrame DEF PInv
<1> QED
  BY <1>2, <1>3

LEMMA PInvAlways == Caller = "patient" => (Spec => []PInv)
<1> SUFFICES ASSUME Caller = "patient" PROVE Spec => []PInv
  OBVIOUS
<1>1. PInv /\ [Next]_vars => PInv'
  BY PInvStep
<1> QED
  BY <1>1, PInvInit, PTL DEF Spec

-----------------------------------------------------------------------------
\* For a patient caller the client is doing one thing at a time, whatever the
\* network and the timers do: connectOnce(), the reconnect timer and an established
\* connection never overlap.
THEOREM OneAtATime == Caller = "patient" => (Spec => []Exclusive)
<1>1. PInv => Exclusive
  BY DEF PInv
<1> QED
  BY <1>1, PInvAlways, PTL

\* For a patient caller no promise outlives the connection its request went out on:
\* tearDownConnection() always rejects what it has to.
THEOREM NothingOwedToADeadSocket == Caller = "patient" => (Spec => []PendingOnSocket)
<1>1. PInv => PendingOnSocket
  BY DEF PInv, PendingInv
<1> QED
  BY <1>1, PInvAlways, PTL

\* For a patient caller user requests leave only on a socket whose handshake the
\* peer has accepted.
THEOREM GateHolds == Caller = "patient" => (Spec => []AuthGate)
BY IsAuthGate, PInvAlways, PTL

\* For a patient caller the reconnect loop never dies by itself.
THEOREM LoopSound == Caller = "patient" => (Spec => []LoopAlive)
<1>1. PInv => LoopAlive
  BY DEF PInv, LoopInv
<1> QED
  BY <1>1, PInvAlways, PTL

\* For a patient caller too, disconnect() leaves no reconnect timer that could dial
\* again.
THEOREM DisconnectIsQuiet == Caller = "patient" => (Spec => []QuietAfterDisconnect)
<1>1. PInv => QuietAfterDisconnect
  BY DEF PInv, LoopInv
<1> QED
  BY <1>1, PInvAlways, PTL

-----------------------------------------------------------------------------
(***************************************************************************)
(* The heartbeat.  A deadline is armed for longer than the interval until  *)
(* the next heartbeat, so the next one finds it unanswered before it can   *)
(* expire.                                                                 *)
(***************************************************************************)

\* While no heartbeat has been missed, a deadline is that of the one unanswered heartbeat,
\* and some interval timer is due before it.
BeatInv ==
  /\ PromptPeerKept
  /\ ~missedBeat => \A d \in deadlines :
       /\ connected
       /\ heartbeatInFlightId # None
       /\ d.id = heartbeatDeadline
       /\ \E t \in tickers : t.left < d.left

LEMMA BeatInit == Init => BeatInv
BY DEF Init, BeatInv, PromptPeerKept

\* Without a deadline nothing can expire.
LEMMA NoDeadline ==
  ASSUME BeatInv, missedBeat' = missedBeat, drops' = drops, ~missedBeat => deadlines' = {}
  PROVE  BeatInv'
BY DEF BeatInv, PromptPeerKept

LEMMA BeatFrame ==
  ASSUME BeatInv, UNCHANGED <<beatVars, connected>>
  PROVE  BeatInv'
BY DEF BeatInv, PromptPeerKept, beatVars

\* While no heartbeat has been missed, a client that is not connected has no deadline.
LEMMA UnconnectedNoDeadline ==
  ASSUME BeatInv, ~connected, ~missedBeat
  PROVE  deadlines = {}
BY DEF BeatInv

\* The teardown clears the one deadline there is.
LEMMA TearDownBeat ==
  ASSUME BeatInv, NEW F, NEW G, TearDown(F, G), drops' = drops
  PROVE  BeatInv'
<1>1. missedBeat' = missedBeat /\ deadlines' = {d \in deadlines \ F : d.id # heartbeatDeadline}
  BY DEF TearDown, StopHeartbeat
<1>2. ~missedBeat => deadlines' = {}
  BY <1>1 DEF BeatInv
<1> QED
  BY <1>1, <1>2, NoDeadline

LEMMA EstablishedBeat ==
  ASSUME BeatInv, ~connected, NEW s, Established(s),
         UNCHANGED <<drops, missedBeat, deadlines>>
  PROVE  BeatInv'
BY UnconnectedNoDeadline, NoDeadline

LEMMA UserBeat ==
  ASSUME PInv, BeatInv, UserNext
  PROVE  BeatInv'
<1>1. CASE UserConnect
  BY <1>1, BeatFrame DEF UserConnect
<1>2. CASE UserDisconnect
  BY <1>2, TearDownBeat DEF UserDisconnect
<1>3. CASE UserSend
  BY <1>3, BeatFrame DEF UserSend, clientVars
<1> QED
  BY <1>1, <1>2, <1>3 DEF UserNext

LEMMA ConnectBeat ==
  ASSUME PInv, BeatInv, ConnectNext
  PROVE  BeatInv'
<1>1. CASE DiscoverOk \/ DiscoverFail \/ OpenFail \/ ContinueFailed
  BY <1>1, BeatFrame DEF DiscoverOk, DiscoverFail, OpenFail, ContinueFailed, clientVars
<1>2. CASE OpenOk
  <2>1. ~connected /\ UNCHANGED <<drops, missedBeat, deadlines>>
    BY <1>2, BusyAlone DEF OpenOk
  <2> QED
    BY <2>1, UnconnectedNoDeadline, NoDeadline
<1> QED
  BY <1>1, <1>2 DEF ConnectNext

\* The interval callback either finds a heartbeat unanswered or no deadline at all.
LEMMA TickBeat ==
  ASSUME PInv, BeatInv, NEW t \in tickers, HeartbeatTick(t)
  PROVE  BeatInv'
<1>1. UNCHANGED <<drops, connected>>
  BY DEF HeartbeatTick, clientVars
<1>2. CASE connected /\ socket # None
  <2>1. missedBeat' = (missedBeat \/ heartbeatInFlightId # None)
    BY <1>2 DEF HeartbeatTick
  <2>2. CASE missedBeat'
    BY <1>1, <2>2 DEF BeatInv, PromptPeerKept
  <2>3. CASE ~missedBeat'
    <3>1. ~missedBeat /\ heartbeatInFlightId = None
      BY <2>1, <2>3 DEF PInv, TInv, BeatType
    <3>2. deadlines = {}
      BY <3>1 DEF BeatInv
    <3>3. /\ deadlines' = {[id |-> nextRequestId, sock |-> socket, left |-> HeartbeatTimeout]}
          /\ heartbeatInFlightId' = nextRequestId /\ heartbeatDeadline' = nextRequestId
      BY <1>2, <3>2 DEF HeartbeatTick
    <3>4. nextRequestId # None
      BY DEF PInv, TInv, RequestType, None
    <3>5. \E u \in tickers' : u.left < HeartbeatTimeout
      <4>1. t \in [n : Sockets, left : Nat]
        BY DEF PInv, TInv, BeatType
      <4> DEFINE u == [t EXCEPT !.left = HeartbeatInterval]
      <4>2. u \in tickers'
        BY DEF HeartbeatTick
      <4>3. u.left = HeartbeatInterval
        BY <4>1
      <4>4. HeartbeatInterval < HeartbeatTimeout
        BY ChannelAssumption DEF ChannelAssumption
      <4> QED
        BY <4>2, <4>3, <4>4
    <3>6. drops' > 0 => missedBeat'
      BY <1>1, <3>1 DEF BeatInv, PromptPeerKept
    <3> QED
      BY <1>1, <1>2, <3>3, <3>4, <3>5, <3>6 DEF BeatInv, PromptPeerKept
  <2> QED
    BY <2>2, <2>3
<1>3. CASE ~(connected /\ socket # None)
  <2>1. ~connected /\ UNCHANGED <<missedBeat, deadlines>>
    BY <1>3 DEF HeartbeatTick, PInv, SocketInv
  <2> QED
    BY <1>1, <2>1, UnconnectedNoDeadline, NoDeadline
<1> QED
  BY <1>2, <1>3

LEMMA TimePassesBeat ==
  ASSUME PInv, BeatInv, TimePasses
  PROVE  BeatInv'
<1>1. /\ UNCHANGED <<connected, heartbeatDeadline, heartbeatInFlightId, drops, missedBeat>>
      /\ tickers' = Elapse(tickers) /\ deadlines' = Elapse(deadlines)
      /\ \A t \in tickers : t.left > 0
      /\ \A d \in deadlines : d.left > 0
  BY DEF TimePasses, clientVars
<1>2. ASSUME NEW d \in deadlines', ~missedBeat
      PROVE  /\ connected /\ heartbeatInFlightId # None /\ d.id = heartbeatDeadline
             /\ \E t \in tickers' : t.left < d.left
  <2>1. PICK e \in deadlines : d = [e EXCEPT !.left = e.left - 1]
    BY <1>1 DEF Elapse
  <2>2. e \in [id : Requests, sock : Sockets, left : Nat]
    BY DEF PInv, TInv, BeatType
  <2>3. d.id = e.id /\ d.left = e.left - 1
    BY <2>1, <2>2
  <2>4. /\ connected /\ heartbeatInFlightId # None /\ e.id = heartbeatDeadline
        /\ \E t \in tickers : t.left < e.left
    BY <1>2 DEF BeatInv
  <2>5. PICK t \in tickers : t.left < e.left
    BY <2>4
  <2>6. t \in [n : Sockets, left : Nat]
    BY DEF PInv, TInv, BeatType
  <2> DEFINE u == [t EXCEPT !.left = t.left - 1]
  <2>7. u \in tickers'
    BY <1>1 DEF Elapse
  <2>8. u.left = t.left - 1
    BY <2>6
  <2>9. u.left < d.left
    BY <2>2, <2>3, <2>5, <2>6, <2>8
  <2> HIDE DEF u
  <2> QED
    BY <2>3, <2>4, <2>7, <2>9
<1> QED
  BY <1>1, <1>2 DEF BeatInv, PromptPeerKept

LEMMA TimerBeat ==
  ASSUME PInv, BeatInv, TimerNext
  PROVE  BeatInv'
<1>1. ASSUME NEW d \in deadlines, DeadlineFires(d) PROVE BeatInv'
  <2>1. missedBeat
    <3> SUFFICES ASSUME ~missedBeat PROVE FALSE
      OBVIOUS
    <3>1. PICK t \in tickers : t.left < d.left
      BY DEF BeatInv
    <3>2. d.left = 0 /\ t.left \in Nat
      BY <1>1 DEF DeadlineFires, PInv, TInv, BeatType
    <3> QED
      BY <3>1, <3>2
  <2>2. missedBeat' = missedBeat
    BY <1>1 DEF DeadlineFires, HandleClose, TearDown
  <2> QED
    BY <2>1, <2>2 DEF BeatInv, PromptPeerKept
<1>2. ASSUME NEW t \in armed, ReconnectFires(t) PROVE BeatInv'
  BY <1>2, BeatFrame DEF ReconnectFires, clientVars
<1> QED
  BY <1>1, <1>2, TickBeat, TimePassesBeat DEF TimerNext

LEMMA ReplyBeat ==
  ASSUME PInv, BeatInv, NEW w \in wire, Reply(w)
  PROVE  BeatInv'
<1>0. UNCHANGED <<drops, missedBeat>>
  BY DEF Reply
<1>1. ASSUME NEW p \in pending, NEW o, SettleRequest(p, o),
             UNCHANGED <<clientVars, tickers>>
      PROVE  BeatInv'
  <2>1. CASE heartbeatInFlightId = p.id
    <3>1. deadlines' = {d \in deadlines : d.id # heartbeatDeadline}
      BY <1>1, <2>1 DEF SettleRequest
    <3>2. ~missedBeat => deadlines' = {}
      BY <3>1 DEF BeatInv
    <3> QED
      BY <1>0, <3>2, NoDeadline
  <2>2. CASE heartbeatInFlightId # p.id
    BY <1>0, <1>1, <2>2 DEF SettleRequest, clientVars, BeatInv, PromptPeerKept
  <2> QED
    BY <2>1, <2>2
<1>2. ASSUME NEW p \in pending, p.kind = "handshake", UNCHANGED deadlines
      PROVE  BeatInv'
  <2>1. ~connected
    BY <1>2, BusyAlone DEF PInv, TInv, HandshakeInv
  <2> QED
    BY <1>0, <1>2, <2>1, UnconnectedNoDeadline, NoDeadline
<1>3. ASSUME UNCHANGED <<clientVars, tickers, heartbeatInFlightId, deadlines, heartbeatDeadline>>
      PROVE  BeatInv'
  BY <1>0, <1>3 DEF clientVars, BeatInv, PromptPeerKept
<1> QED
  BY <1>1, <1>2, <1>3 DEF Reply

LEMMA NetBeat ==
  ASSUME PInv, BeatInv, NetNext
  PROVE  BeatInv'
<1>1. ASSUME NEW s \in Sockets, CloseEvent(s) PROVE BeatInv'
  <2>1. HandleClose({}, {s}) /\ drops' = drops
    BY <1>1 DEF CloseEvent
  <2>2. CASE ~connected /\ socket = None
    <3>1. missedBeat' = missedBeat /\ deadlines' = deadlines
      BY <2>1, <2>2 DEF HandleClose
    <3> QED
      BY <2>1, <2>2, <3>1, UnconnectedNoDeadline, NoDeadline
  <2>3. CASE ~(~connected /\ socket = None)
    BY <2>1, <2>3, TearDownBeat DEF HandleClose
  <2> QED
    BY <2>2, <2>3
<1>2. ASSUME NEW s \in Sockets, RemoteClose(s) PROVE BeatInv'
  BY <1>2, BeatFrame DEF RemoteClose, clientVars
<1>3. ASSUME NEW w \in wire, Lose(w) PROVE BeatInv'
  BY <1>3, BeatFrame DEF Lose, clientVars
<1>4. CASE ServerStop \/ ServerStart
  BY <1>4, BeatFrame DEF ServerStop, ServerStart, clientVars
<1> QED
  BY <1>1, <1>2, <1>3, <1>4, ReplyBeat DEF NetNext

LEMMA BeatStep == PInv /\ BeatInv /\ [Next]_vars => BeatInv'
<1> SUFFICES ASSUME PInv, BeatInv, [Next]_vars PROVE BeatInv'
  OBVIOUS
<1>1. CASE UNCHANGED vars
  BY <1>1, BeatFrame DEF vars, clientVars
<1> QED
  BY <1>1, UserBeat, ConnectBeat, TimerBeat, NetBeat DEF Next

\* For a patient caller a peer that answers each heartbeat before the next is never
\* dropped, for all intervals and timeouts the options allow: the deadlines that
\* startHeartbeat() overwrites without clearing cannot expire on such a peer.
THEOREM PromptPeersAreKept == Caller = "patient" => (Spec => []PromptPeerKept)
<1> SUFFICES ASSUME Caller = "patient" PROVE Spec => []PromptPeerKept
  OBVIOUS
<1>1. PInv /\ BeatInv /\ [Next]_vars => BeatInv'
  BY BeatStep
<1>2. Spec => []PInv
  BY PInvAlways
<1>3. BeatInv => PromptPeerKept
  BY DEF BeatInv
<1> QED
  BY <1>1, <1>2, <1>3, BeatInit, PTL DEF Spec
=============================================================================
