------------------------- MODULE CrossTransactions -------------------------
(***************************************************************************)
(* Cross-channel transactions: the calls of an MCP client, the timeout of  *)
(* ChannelRouter.callTransport(), the CrossExecutor of the MCP server and  *)
(* the TransactionManager of the Godot editor, composed over the editor    *)
(* channel.                                                                *)
(*                                                                         *)
(* An action is one event on either side.  CrossExecutor changes its       *)
(* fields before and after the awaits of editorClient.send(), so the calls *)
(* in flight, their replies, the auto-rollback timers and the router's     *)
(* timeouts interleave.  The WebSocket keeps the order of requests and of  *)
(* replies, and rejects what is pending when it breaks (ChannelClient).    *)
(*                                                                         *)
(* The executor accepts numbers as transaction ids, and the mock editors   *)
(* of its tests hand out numbers; the repository's TransactionManager      *)
(* hands out hexadecimal strings.  idKind says which is at the other end.  *)
(***************************************************************************)
EXTENDS Naturals, Sequences, FiniteSets

CONSTANTS
  Calls,        \* the calls the MCP client may make
  IdKinds,      \* what the editor's ids may be: a subset of {"number", "string"}
  Serial,       \* requests come through the stdio bridge's queue, one at a time
  MaxTx,        \* bound: begins that reach the editor
  MaxFaults     \* bound: losses of the editor channel and restarts of the editor

ASSUME TransactionAssumption ==
  /\ IdKinds \subseteq {"number", "string"}
  /\ Serial \in BOOLEAN
  /\ MaxTx \in Nat
  /\ MaxFaults \in Nat

None  == 0                  \* no transaction id
Ids   == 1 .. MaxTx
Timer == "timer"            \* the sender of a rollback nobody waits for

ASSUME TimerIsNoCall == Timer \notin Calls

VARIABLES
  \* the calls, each a function of the call
  method,               \* the method called, "none" before the call is made
  target,               \* the transaction_id passed, or returned by begin
  stage,                \* where the executor's handler is: "editor" and "runtime" are awaits
  result,               \* how the handler settled
  answer,               \* what the router gave the client: "result" or "timeout"
  \* CrossExecutor
  active, timedOut, hasOpenTransaction,
  timers,               \* transactions whose auto-rollback timer is armed
  \* the editor channel
  linkUp, toEditor, toServer,
  \* TransactionManager
  open,                 \* the keys of _open
  issued,               \* ids handed out so far
  idKind,
  committed, rolledBack,                \* what became of the others (history)
  forgotten,            \* were open when the editor was restarted (history)
  exposed,              \* were open when the channel was lost (history)
  faults

callVars     == <<method, target, stage, result, answer>>
executorVars == <<active, timedOut, hasOpenTransaction, timers>>
channelVars  == <<linkUp, toEditor, toServer>>
editorVars   == <<open, issued, idKind, committed, rolledBack, forgotten, exposed>>
vars == <<callVars, executorVars, channelVars, editorVars, faults>>

Methods  == {"begin", "commit", "rollback"}
Results  == {"ok", "nested", "unknown", "expired", "failed"}
Requests == [from : Calls \cup {Timer}, method : Methods, id : Ids \cup {None}]
Replies  == [from : Calls \cup {Timer}, ok : BOOLEAN, id : Ids \cup {None}]

TypeOK ==
  /\ method \in [Calls -> Methods \cup {"none"}]
  /\ target \in [Calls -> Ids \cup {None}]
  /\ stage \in [Calls -> {"idle", "editor", "runtime", "settled"}]
  /\ result \in [Calls -> Results \cup {"none"}]
  /\ answer \in [Calls -> {"none", "result", "timeout"}]
  /\ active \subseteq Ids
  /\ timedOut \subseteq Ids
  /\ hasOpenTransaction \in BOOLEAN
  /\ timers \subseteq Ids
  /\ linkUp \in BOOLEAN
  /\ toEditor \in Seq(Requests)
  /\ toServer \in Seq(Replies)
  /\ open \subseteq Ids
  /\ issued \in 0 .. MaxTx
  /\ idKind \in IdKinds
  /\ committed \subseteq Ids
  /\ rolledBack \subseteq Ids
  /\ forgotten \subseteq exposed
  /\ exposed \subseteq Ids
  /\ faults \in 0 .. MaxFaults

Init ==
  /\ method = [c \in Calls |-> "none"]
  /\ target = [c \in Calls |-> None]
  /\ stage = [c \in Calls |-> "idle"]
  /\ result = [c \in Calls |-> "none"]
  /\ answer = [c \in Calls |-> "none"]
  /\ active = {} /\ timedOut = {} /\ hasOpenTransaction = FALSE /\ timers = {}
  /\ linkUp = TRUE /\ toEditor = <<>> /\ toServer = <<>>
  /\ open = {} /\ issued = 0 /\ idKind \in IdKinds /\ committed = {} /\ rolledBack = {}
  /\ forgotten = {} /\ exposed = {} /\ faults = 0

-----------------------------------------------------------------------------
(* The handler of a call settles: the router's race passes the result on   *)
(* unless the timeout has answered the client already.                     *)

Settle(c, r) ==
  /\ stage' = [stage EXCEPT ![c] = "settled"]
  /\ result' = [result EXCEPT ![c] = r]
  /\ answer' = [answer EXCEPT ![c] = IF @ = "none" THEN "result" ELSE @]

Await(c, where) ==
  /\ stage' = [stage EXCEPT ![c] = where]
  /\ UNCHANGED <<result, answer>>

\* editorClient.send(): rejected at once when the channel is not connected.
SendFor(c, m, id) ==
  /\ IF linkUp
       THEN /\ toEditor' = Append(toEditor, [from |-> c, method |-> m, id |-> id])
            /\ Await(c, "editor")
       ELSE /\ Settle(c, "failed")
            /\ UNCHANGED toEditor
  /\ UNCHANGED <<linkUp, toServer>>

\* A call goes out.  The stdio bridge starts a request when the one before it has
\* been answered; the SDK's server starts it at once.
Start(c, m, id) ==
  /\ method[c] = "none"
  /\ Serial => \A d \in Calls : method[d] # "none" => answer[d] # "none"
  /\ method' = [method EXCEPT ![c] = m]
  /\ target' = [target EXCEPT ![c] = id]
  /\ UNCHANGED <<editorVars, faults>>

\* Ids the client has been told.
Told == {target[c] : c \in {d \in Calls :
           method[d] = "begin" /\ result[d] = "ok" /\ answer[d] = "result"}}

\* handleBegin(), up to the await.
Begin(c) ==
  /\ Start(c, "begin", None)
  /\ IF hasOpenTransaction
       THEN Settle(c, "nested") /\ UNCHANGED channelVars
       ELSE /\ Cardinality({d \in Calls : method[d] = "begin" /\ result[d] # "nested"}) < MaxTx
            /\ SendFor(c, "begin", None)
  /\ UNCHANGED executorVars

\* handleCommit() and handleRollback() forget the transaction before they await.
Forget_AfterTheReply(id) == UNCHANGED <<active, hasOpenTransaction, timers, timedOut>>

Forget(id) ==
  /\ active' = active \ {id}
  /\ hasOpenTransaction' = FALSE
  /\ timers' = timers \ {id}
  /\ UNCHANGED timedOut

Finish(c, m, id) ==
  /\ Start(c, m, id)
  /\ \/ /\ id \in timedOut              \* checkTimedOut() consumes the id
        /\ timedOut' = timedOut \ {id}
        /\ Settle(c, "expired")
        /\ UNCHANGED <<active, hasOpenTransaction, timers, channelVars>>
     \/ /\ id \notin timedOut /\ id \notin active
        /\ Settle(c, "unknown")
        /\ UNCHANGED <<executorVars, channelVars>>
     \/ /\ id \notin timedOut /\ id \in active
        /\ Forget(id)
        /\ SendFor(c, m, id)

\* autoRollback(): the answer, or a failure to send, is ignored.
Expire_FlagKept(id) ==
  /\ active' = active \ {id}
  /\ timedOut' = timedOut \cup {id}
  /\ UNCHANGED hasOpenTransaction

Expire(id) ==
  /\ active' = active \ {id}
  /\ hasOpenTransaction' = FALSE
  /\ timedOut' = timedOut \cup {id}

AutoRollback(id) ==
  /\ id \in timers
  /\ timers' = timers \ {id}
  /\ IF id \in active
       THEN /\ Expire(id)
            /\ toEditor' = IF linkUp
                 THEN Append(toEditor, [from |-> Timer, method |-> "rollback", id |-> id])
                 ELSE toEditor
       ELSE UNCHANGED <<active, hasOpenTransaction, timedOut, toEditor>>
  /\ UNCHANGED <<callVars, linkUp, toServer, editorVars, faults>>

\* callTransport(): the client is told "channel_timeout"; the handler goes on.
RouterTimeout(c) ==
  /\ method[c] # "none" /\ answer[c] = "none"
  /\ answer' = [answer EXCEPT ![c] = "timeout"]
  /\ UNCHANGED <<method, target, stage, result, executorVars, channelVars, editorVars, faults>>

-----------------------------------------------------------------------------
(* The editor: McpTransactionTools and TransactionManager, without the     *)
(* operations registered in a transaction.                                 *)

ManagerBegin(id) ==
  /\ open' = open \cup {id}
  /\ issued' = id
  /\ UNCHANGED <<idKind, committed, rolledBack>>

ManagerFinish(m, id) ==
  /\ open' = open \ {id}
  /\ committed' = IF m = "commit" THEN committed \cup {id} ELSE committed
  /\ rolledBack' = IF m = "rollback" THEN rolledBack \cup {id} ELSE rolledBack
  /\ UNCHANGED <<idKind, issued>>

\* None stands for a transaction_id that is not a number.
EditorReply(r, ok, id) ==
  toServer' = Append(toServer, [from |-> r.from, ok |-> ok,
                                id |-> IF idKind = "number" THEN id ELSE None])

\* Of an unknown id: TRANSACTION_NOT_OPEN.
EditorHandles ==
  /\ linkUp /\ toEditor # <<>>
  /\ toEditor' = Tail(toEditor)
  /\ LET r == Head(toEditor) IN
     \/ /\ r.method = "begin"
        /\ ManagerBegin(issued + 1)
        /\ EditorReply(r, TRUE, issued + 1)
     \/ /\ r.method # "begin" /\ r.id \in open
        /\ ManagerFinish(r.method, r.id)
        /\ EditorReply(r, TRUE, r.id)
     \/ /\ r.method # "begin" /\ r.id \notin open
        /\ EditorReply(r, FALSE, r.id)
        /\ UNCHANGED <<open, issued, idKind, committed, rolledBack>>
  /\ UNCHANGED <<callVars, executorVars, linkUp, forgotten, exposed, faults>>

-----------------------------------------------------------------------------
(* The rest of the handlers, when the editor's reply arrives.              *)

Opened_NoTimer(id) ==
  /\ active' = active \cup {id}
  /\ hasOpenTransaction' = TRUE
  /\ UNCHANGED <<timers, timedOut>>

Opened(id) ==
  /\ active' = active \cup {id}
  /\ hasOpenTransaction' = TRUE
  /\ timers' = timers \cup {id}
  /\ UNCHANGED timedOut

\* extractTransactionId(): "transaction.begin reply missing transaction_id".
HasId_Unchecked(r) == TRUE
HasId(r) == r.id # None

\* After a commit the runtime bridge is told, if it is connected; its answer is ignored.
Settled_IgnoringErrors(c, ok) == Settle(c, "ok")
Settled(c, ok) == Settle(c, IF ok THEN "ok" ELSE "failed")

ReplyArrives ==
  /\ toServer # <<>>
  /\ toServer' = Tail(toServer)
  /\ LET r == Head(toServer) IN
     \/ /\ r.from = Timer
        /\ UNCHANGED <<callVars, executorVars>>
     \/ /\ r.from # Timer
        /\ method[r.from] = "begin" /\ ~HasId(r)
        /\ Settle(r.from, "failed")
        /\ UNCHANGED <<method, target, executorVars>>
     \/ /\ r.from # Timer
        /\ method[r.from] = "begin" /\ HasId(r)
        /\ Opened(r.id)
        /\ target' = [target EXCEPT ![r.from] = r.id]
        /\ Settle(r.from, "ok")
        /\ UNCHANGED method
     \/ /\ r.from # Timer
        /\ method[r.from] # "begin"
        /\ \/ Settled(r.from, r.ok)
           \/ method[r.from] = "commit" /\ r.ok /\ Await(r.from, "runtime")
        /\ UNCHANGED <<method, target, executorVars>>
  /\ UNCHANGED <<linkUp, toEditor, editorVars, faults>>

RuntimeAck(c) ==
  /\ stage[c] = "runtime"
  /\ Settle(c, "ok")
  /\ UNCHANGED <<method, target, executorVars, channelVars, editorVars, faults>>

-----------------------------------------------------------------------------
(* The channel breaks, the editor restarts, the channel is reconnected.    *)

LinkLost ==
  /\ linkUp
  /\ faults < MaxFaults
  /\ faults' = faults + 1
  /\ linkUp' = FALSE
  /\ toEditor' = <<>> /\ toServer' = <<>>
  /\ LET hit == {c \in Calls : stage[c] = "editor"} IN
     /\ stage' = [c \in Calls |-> IF c \in hit THEN "settled" ELSE stage[c]]
     /\ result' = [c \in Calls |-> IF c \in hit THEN "failed" ELSE result[c]]
     /\ answer' = [c \in Calls |->
                     IF c \in hit /\ answer[c] = "none" THEN "result" ELSE answer[c]]
  /\ exposed' = exposed \cup open
  /\ UNCHANGED <<method, target, executorVars, issued, idKind, committed, rolledBack>>

LinkDrops == LinkLost /\ UNCHANGED <<open, forgotten>>

\* _open lives in the editor process.
EditorRestarts ==
  /\ LinkLost
  /\ open' = {}
  /\ forgotten' = forgotten \cup open

LinkReturns ==
  /\ ~linkUp
  /\ linkUp' = TRUE
  /\ UNCHANGED <<callVars, executorVars, toEditor, toServer, editorVars, faults>>

-----------------------------------------------------------------------------
ClientNext == \E c \in Calls : \/ Begin(c)
                               \/ \E id \in Told, m \in {"commit", "rollback"} : Finish(c, m, id)
ServerNext == \/ \E id \in Ids : AutoRollback(id)
              \/ \E c \in Calls : RouterTimeout(c)
              \/ ReplyArrives
              \/ \E c \in Calls : RuntimeAck(c)
Environment == LinkDrops \/ EditorRestarts \/ LinkReturns

Next == ClientNext \/ ServerNext \/ EditorHandles \/ Environment

Spec == Init /\ [][Next]_vars

\* The timers of the event loop fire, the editor handles what it receives, and the
\* replies arrive.  Nothing is assumed of the client.
Fairness ==
  /\ \A id \in Ids : WF_vars(AutoRollback(id))
  /\ WF_vars(EditorHandles)
  /\ WF_vars(ReplyArrives)
  /\ WF_vars(LinkReturns)

FairSpec == Spec /\ Fairness

-----------------------------------------------------------------------------
(* Properties.                                                             *)

\* hasOpenTransaction never stays set without a transaction to commit or roll back:
\* handleBegin() would refuse every transaction from then on.
FlagNotStuck == hasOpenTransaction => active # {}

\* What the executor lets a client commit or roll back is open in the editor, unless
\* the editor has been restarted since.
ActiveIsOpen == active \subseteq open \cup forgotten

\* A transaction reported as timed out (TRANSACTION_TIMEOUT, rolled back) is never
\* committed, although the auto-rollback timer runs while commits are in flight.
ExpiredNotCommitted ==
  \A id \in timedOut \cup {target[c] : c \in {d \in Calls : result[d] = "expired"}} :
    id \notin committed

\* A commit or rollback that a client sees succeed is what happened in the editor.
ResultIsTrue ==
  \A c \in Calls : result[c] = "ok" =>
    /\ method[c] = "commit" => target[c] \in committed
    /\ method[c] = "rollback" => target[c] \in rolledBack

\* Of an editor whose ids are numbers: while its channel holds, no transaction stays open in it
\* for ever, even if its client was told that begin() timed out and never learns the id.  With the
\* strings that this repository's editor hands out every begin() fails in the executor and stays
\* open, see the README.
NoOrphan ==
  \A id \in Ids : (id \in open /\ idKind = "number") ~> (id \notin open \/ id \in exposed)

\* hasOpenTransaction is "True iff there is a non-timed-out transaction in `active`":
\* false in the code, see the README.
FlagExact == hasOpenTransaction <=> active # {}
=============================================================================
