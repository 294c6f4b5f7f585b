---------------------------- MODULE StdioBridge ----------------------------
(***************************************************************************)
(* createStdioBridge(): frames with a Content-Length arrive on stdin in    *)
(* chunks, wait in a queue, and are handled one at a time; every reply     *)
(* goes to stdout.  drain() is an async loop: between two frames it gives  *)
(* way to microtasks only, here to any event.                              *)
(*                                                                         *)
(* A frame is what its body says: a request with or without an id, an      *)
(* object with an id and no method, JSON that is no object, a body that is *)
(* no JSON, or a header without a length ("junk", skipped).  The k-th      *)
(* frame is call k of the dispatcher.                                      *)
(***************************************************************************)
EXTENDS Dispatch, Ascending

VARIABLES
  wire,           \* the frames the client has written: their kinds
  arrived,        \* how many of them onData() has taken out of the buffer
  processQueue,   \* the numbers of the frames that wait
  handling,       \* the frame drain() awaits, or 0; `draining` is handling # 0 or a queue
  stopped,        \* stop() was called
  stdout          \* the replies

bridgeVars == <<wire, arrived, processQueue, handling, stopped, stdout>>

FrameKinds == {"request", "notification", "nameless", "invalid", "unparsable", "junk"}
Reply(k, id, code) == [frame |-> k, id |-> id, code |-> code]

BridgeTypeOK ==
  /\ wire \in Seq(FrameKinds) /\ Len(wire) <= MaxCalls
  /\ arrived \in 0 .. Len(wire)
  /\ processQueue \in Seq(1 .. arrived)
  /\ handling \in 0 .. arrived
  /\ stopped \in BOOLEAN
  /\ \A k \in DOMAIN stdout : stdout[k].frame \in 1 .. arrived /\ stdout[k].id \in {"id", "null"}

BridgeInit ==
  /\ wire = <<>> /\ arrived = 0
  /\ processQueue = <<>> /\ handling = 0
  /\ stopped = FALSE
  /\ stdout = <<>>

\* The client sends; it does not wait for replies.
ClientWrites(kind) ==
  /\ Len(wire) < MaxCalls
  /\ wire' = Append(wire, kind)
  /\ UNCHANGED <<dispatchVars, arrived, processQueue, handling, stopped, stdout>>

\* splitInbound(): what the frames from i to j leave of themselves.
splitInbound(i, j) == Ascending({k \in i .. j : wire[k] # "junk"})

\* A chunk that completes the frames up to n; the rest of it stays in the buffer.
OnData(n) ==
  /\ ~stopped
  /\ n \in arrived + 1 .. Len(wire)
  /\ arrived' = n
  /\ processQueue' = processQueue \o splitInbound(arrived + 1, n)
  /\ UNCHANGED <<dispatchVars, wire, handling, stopped, stdout>>

\* writeResponse(): nothing after stop().
writeResponse(k, id, code) ==
  stdout' = IF stopped THEN stdout ELSE Append(stdout, Reply(k, id, code))

\* sanitizeId(): a message without an id is answered with null.
sanitizeId_Unchecked(k) == IF wire[k] \in {"request", "nameless"} THEN "id" ELSE "undefined"
sanitizeId(k) == IF wire[k] \in {"request", "nameless"} THEN "id" ELSE "null"

\* drain() takes the next frame, and handleInbound() runs to its first await.
DrainRefuses ==
  /\ handling = 0 /\ processQueue # <<>>
  /\ LET k == Head(processQueue) IN
       /\ wire[k] \in {"nameless", "invalid", "unparsable"}
       /\ writeResponse(k, sanitizeId(k), IF wire[k] = "unparsable" THEN -32700 ELSE -32600)
  /\ processQueue' = Tail(processQueue)
  /\ UNCHANGED <<dispatchVars, wire, arrived, handling, stopped>>

DrainDispatches_WithoutAwait(m) ==
  /\ processQueue # <<>>
  /\ wire[Head(processQueue)] \in {"request", "notification"}
  /\ handling' = Head(processQueue)
  /\ processQueue' = Tail(processQueue)
  /\ StartDispatch(Head(processQueue), m)
  /\ UNCHANGED <<wire, arrived, stopped, stdout>>

DrainDispatches(m) ==
  /\ handling = 0 /\ processQueue # <<>>
  /\ wire[Head(processQueue)] \in {"request", "notification"}
  /\ handling' = Head(processQueue)
  /\ processQueue' = Tail(processQueue)
  /\ StartDispatch(Head(processQueue), m)
  /\ UNCHANGED <<wire, arrived, stopped, stdout>>

\* The dispatcher has answered, or has thrown.
Respond ==
  /\ handling # 0 /\ ~Pending(handling)
  /\ writeResponse(handling, sanitizeId(handling), answer[handling].code)
  /\ handling' = 0
  /\ UNCHANGED <<dispatchVars, wire, arrived, processQueue, stopped>>

\* The loop of drain() goes on after stop(): what has been read is still executed.
StopBridge ==
  /\ ~stopped
  /\ stopped' = TRUE
  /\ UNCHANGED <<dispatchVars, wire, arrived, processQueue, handling, stdout>>

\* The loop of drain(), and the calls it awaits.
BridgeStep == DrainRefuses \/ Respond \/ (\E m \in Names : DrainDispatches(m)) \/ (DispatchStep /\ UNCHANGED bridgeVars)

BridgeNext ==
  \/ \E kind \in FrameKinds : ClientWrites(kind)
  \/ \E n \in Calls : OnData(n)
  \/ BridgeStep \/ StopBridge

-----------------------------------------------------------------------------
\* Replies leave in the order of the frames, and no frame is skipped or answered twice: the frames
\* answered, the one in progress and those that wait are, in this order, all that have arrived.
Answered  == [k \in DOMAIN stdout |-> stdout[k].frame]
InHand    == IF handling = 0 THEN <<>> ELSE <<handling>>
RepliesInOrder == ~stopped => Answered \o InHand \o processQueue = splitInbound(1, arrived)

\* The bridge serialises the calls it makes, not their effects: two frames are at work at the
\* same time only if the router gave up on the earlier one, or its line "after" was lost.
SerialUnlessGivenUp ==
  \A j, k \in 1 .. arrived :
    (j < k /\ work[j] = "running" /\ method[k] # NoName) => answer[j] \in {Error(CHANNEL_TIMEOUT), Rejected}

\* Both: frames are answered, and in the main executed, one after the other.
BridgeKeepsOrder == RepliesInOrder /\ SerialUnlessGivenUp

\* Every frame that says something is answered, whatever the frames before it do: the router gives
\* up on a call that hangs, and a frame the bridge cannot use does not stop the queue.
FramesAnswered ==
  \A k \in Calls : (k <= arrived /\ wire[k] # "junk") ~> (stopped \/ \E i \in DOMAIN stdout : stdout[i].frame = k)
=============================================================================
