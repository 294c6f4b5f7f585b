---------------------- MODULE CrossTransactionsProofs ----------------------
(* What is proved of CrossTransactions for any calls, ids and numbers of     *)
(* faults.                                                                   *)
EXTENDS CrossTransactions, FiniteSetTheorems, TLAPS

-----------------------------------------------------------------------------
(* The flag of the executor.                                               *)

\* The three fields that decide together whether a begin is refused are changed by
\* the handlers of begin, commit and rollback and by the auto-rollback only.
Untouched == UNCHANGED <<active, hasOpenTransaction>>

LEMMA UntouchedKeeps == FlagNotStuck /\ Untouched => FlagNotStuck'
BY DEF FlagNotStuck, Untouched

\* Begin changes nothing before its await.
LEMMA BeginKeeps == ASSUME NEW c \in Calls, FlagNotStuck, Begin(c) PROVE FlagNotStuck'
BY UntouchedKeeps DEF Begin, executorVars, Untouched

\* A commit or rollback clears the flag whenever it forgets a transaction.
LEMMA FinishKeeps ==
  ASSUME NEW c \in Calls, NEW id \in Told, NEW m \in {"commit", "rollback"},
         FlagNotStuck, Finish(c, m, id)
  PROVE  FlagNotStuck'
<1>1. CASE id \in timedOut
  BY <1>1, UntouchedKeeps DEF Finish, Untouched
<1>2. CASE id \notin timedOut /\ id \notin active
  BY <1>2, UntouchedKeeps DEF Finish, Untouched, executorVars
<1>3. CASE id \notin timedOut /\ id \in active
  BY <1>3 DEF Finish, Forget, FlagNotStuck
<1> QED
  BY <1>1, <1>2, <1>3

\* So does the timer.
LEMMA AutoRollbackKeeps ==
  ASSUME NEW id \in Ids, FlagNotStuck, AutoRollback(id) PROVE FlagNotStuck'
<1>1. CASE id \in active
  BY <1>1 DEF AutoRollback, Expire, FlagNotStuck
<1>2. CASE id \notin active
  BY <1>2, UntouchedKeeps DEF AutoRollback, Untouched
<1> QED
  BY <1>1, <1>2

\* The flag is set together with an entry in `active'.
LEMMA ReplyKeeps == ASSUME FlagNotStuck, ReplyArrives PROVE FlagNotStuck'
<1> DEFINE r == Head(toServer)
<1>1. CASE r.from # Timer /\ method[r.from] = "begin" /\ HasId(r)
  <2>1. Opened(r.id)
    BY <1>1 DEF ReplyArrives
  <2> QED
    BY <2>1 DEF Opened, FlagNotStuck
<1>2. CASE ~(r.from # Timer /\ method[r.from] = "begin" /\ HasId(r))
  <2>1. UNCHANGED executorVars
    BY <1>2 DEF ReplyArrives
  <2> QED
    BY <2>1, UntouchedKeeps DEF executorVars, Untouched
<1> QED
  BY <1>1, <1>2

\* However begins, commits, rollbacks, timers and losses interleave, the flag that makes
\* handleBegin() refuse never stays set without a transaction to close: the executor
\* cannot lock itself out.
THEOREM NeverLockedOut == Spec => []FlagNotStuck
<1>1. Init => FlagNotStuck
  BY DEF Init, FlagNotStuck
<1>2. FlagNotStuck /\ [Next]_vars => FlagNotStuck'
  <2> SUFFICES ASSUME FlagNotStuck, [Next]_vars PROVE FlagNotStuck'
    OBVIOUS
  <2>1. CASE ClientNext
    BY <2>1, BeginKeeps, FinishKeeps DEF ClientNext
  <2>2. ASSUME NEW id \in Ids, AutoRollback(id) PROVE FlagNotStuck'
    BY <2>2, AutoRollbackKeeps
  <2>3. ASSUME NEW c \in Calls, RouterTimeout(c) \/ RuntimeAck(c) PROVE FlagNotStuck'
    BY <2>3, UntouchedKeeps DEF RouterTimeout, RuntimeAck, executorVars, Untouched
  <2>4. CASE ReplyArrives
    BY <2>4, ReplyKeeps
  <2>5. CASE EditorHandles
    BY <2>5, UntouchedKeeps DEF EditorHandles, executorVars, Untouched
  <2>6. CASE Environment
    BY <2>6, UntouchedKeeps
    DEF Environment, LinkDrops, EditorRestarts, LinkLost, LinkReturns, executorVars, Untouched
  <2>7. CASE UNCHANGED vars
    BY <2>7, UntouchedKeeps DEF vars, executorVars, Untouched
  <2> QED
    BY <2>1, <2>2, <2>3, <2>4, <2>5, <2>6, <2>7 DEF Next, ServerNext
<1> QED
  BY <1>1, <1>2, PTL DEF Spec

-----------------------------------------------------------------------------
(***************************************************************************)
(* The inductive invariant of the exchange.  TypeOK, ActiveIsOpen,         *)
(* ExpiredNotCommitted and ResultIsTrue are not inductive by themselves:   *)
(* what the executor may do with an id depends on the requests and replies *)
(* under way.  The invariant says, of every message in flight, which call  *)
(* it belongs to and what became of its id, that no two messages belong to *)
(* one call, and that no request is under way for an active transaction:   *)
(* handleCommit(), handleRollback() and autoRollback() forget the id       *)
(* before they send.                                                       *)
(***************************************************************************)

\* Where a call stands: a handler that awaits has no result, only a commit goes on to
\* the runtime, and a begin without success has no id.
CallsInv ==
  \A c \in Calls :
    /\ stage[c] = "idle" <=> method[c] = "none"
    /\ stage[c] = "settled" <=> result[c] # "none"
    /\ stage[c] = "runtime" => method[c] = "commit"
    /\ method[c] = "begin" /\ result[c] # "ok" => target[c] = None

\* The positions of the requests and of the replies under way.
Requested == 1 .. Len(toEditor)
Answered  == 1 .. Len(toServer)

\* The reply of a begin that brings an id.
NewId(q) == q.from # Timer /\ method[q.from] = "begin" /\ q.id # None

\* A request under way belongs to a call that awaits it, and its id is not active.
RequestOk(i) ==
    /\ toEditor[i].from = Timer => toEditor[i].method = "rollback"
    /\ toEditor[i].from # Timer =>
         /\ stage[toEditor[i].from] = "editor"
         /\ method[toEditor[i].from] = toEditor[i].method
         /\ target[toEditor[i].from] = toEditor[i].id
    /\ toEditor[i].method # "begin" => toEditor[i].id \in (1 .. issued) \ active

RequestsInv == \A i \in Requested : RequestOk(i)

\* A reply under way belongs to a call that awaits it; what it reports has happened; the
\* id of a new transaction is open, and nobody has used it yet.
ReplyOk(i) ==
    /\ toServer[i].from # Timer =>
         /\ stage[toServer[i].from] = "editor"
         /\ toServer[i].ok /\ method[toServer[i].from] = "commit" => target[toServer[i].from] \in committed
         /\ toServer[i].ok /\ method[toServer[i].from] = "rollback" => target[toServer[i].from] \in rolledBack
    /\ NewId(toServer[i]) =>
         /\ toServer[i].id \in (open \cup forgotten) \ (active \cup timedOut)
         /\ \A j \in Requested : toEditor[j].method # "begin" => toEditor[j].id # toServer[i].id

RepliesInv == \A i \in Answered : ReplyOk(i)

\* A call has one message under way at most, and a new id comes once.
OneMessage ==
  /\ \A i, j \in Requested : i # j => toEditor[i].from # toEditor[j].from \/ toEditor[i].from = Timer
  /\ \A i, j \in Answered :
       i # j => /\ toServer[i].from # toServer[j].from \/ toServer[i].from = Timer
                /\ NewId(toServer[i]) /\ NewId(toServer[j]) => toServer[i].id # toServer[j].id
  /\ \A i \in Requested, j \in Answered :
       toEditor[i].from # toServer[j].from \/ toEditor[i].from = Timer

\* What the two sides hold of the ids.
IdsInv ==
  /\ active \subseteq open \cup forgotten
  /\ open \cup forgotten \subseteq 1 .. issued
  /\ open \cap forgotten = {}
  /\ (open \cup forgotten) \cap (committed \cup rolledBack) = {}
  /\ committed \cup rolledBack \cup timedOut \subseteq 1 .. issued

\* The ids that were, or will be, reported as timed out.
Expired == timedOut \cup {target[c] : c \in {d \in Calls : result[d] = "expired"}}

\* Such an id is neither committed nor about to be.
ExpiredInv ==
  \A id \in Expired :
    /\ id \notin committed \cup active
    /\ id \in 1 .. issued
    /\ \A i \in Requested : toEditor[i].id = id => toEditor[i].method # "commit"
    /\ \A i \in Answered : NewId(toServer[i]) => toServer[i].id # id

\* What the handlers have been told, and the commits that are with the runtime.
SuccessInv ==
  \A c \in Calls : result[c] = "ok" \/ stage[c] = "runtime" =>
    /\ method[c] = "commit" => target[c] \in committed
    /\ method[c] = "rollback" => target[c] \in rolledBack
    /\ method[c] = "begin" => target[c] # None

\* The begins that count towards MaxTx; those of them the editor has not seen.
Begun == {c \in Calls : method[c] = "begin" /\ result[c] # "nested"}
OnTheWay == {c \in Calls : \E i \in Requested : toEditor[i].from = c /\ toEditor[i].method = "begin"}
\* Every id stands for a begin of its own, so the bound on begins bounds the ids.
CountInv ==
  /\ IsFiniteSet(Begun)
  /\ Cardinality(Begun) <= MaxTx
  /\ issued <= Cardinality(Begun \ OnTheWay)

\* The invariant.
TxInv ==
  /\ TypeOK /\ CallsInv
  /\ RequestsInv /\ RepliesInv /\ OneMessage
  /\ IdsInv /\ ExpiredInv /\ SuccessInv /\ CountInv

-----------------------------------------------------------------------------
(* Queues: what is where after a message is added or taken.                *)

\* An added message is the last; the others keep their places.
LEMMA Appended ==
  ASSUME NEW S, NEW s \in Seq(S), NEW e \in S
  PROVE  /\ Append(s, e) \in Seq(S)
         /\ Len(Append(s, e)) = Len(s) + 1
         /\ \A i \in 1 .. Len(s) : Append(s, e)[i] = s[i]
         /\ Append(s, e)[Len(s) + 1] = e
         /\ 1 .. Len(Append(s, e)) = 1 .. Len(s) \cup {Len(s) + 1}
         /\ Len(s) \in Nat
         /\ Len(s) + 1 \notin 1 .. Len(s)
OBVIOUS

\* When the first message is taken, the others move up by one.
LEMMA Shifted ==
  ASSUME NEW S, NEW s \in Seq(S), s # <<>>
  PROVE  /\ Tail(s) \in Seq(S)
         /\ Head(s) = s[1]
         /\ 1 \in 1 .. Len(s)
         /\ \A i \in 1 .. Len(Tail(s)) : i + 1 \in 1 .. Len(s) /\ i + 1 # 1 /\ Tail(s)[i] = s[i + 1]
         /\ \A i, j \in 1 .. Len(Tail(s)) : i # j => i + 1 # j + 1
OBVIOUS

(* Steps that touch the messages, of whichever action.                     *)

\* The fields of the messages under way.
LEMMA MessageTypes ==
  ASSUME TypeOK
  PROVE  /\ \A i \in Requested : /\ toEditor[i].from \in Calls \cup {Timer}
                                 /\ toEditor[i].method \in Methods
                                 /\ toEditor[i].id \in Ids \cup {None}
         /\ \A i \in Answered : /\ toServer[i].from \in Calls \cup {Timer}
                                /\ toServer[i].ok \in BOOLEAN
                                /\ toServer[i].id \in Ids \cup {None}
<1>1. ASSUME NEW i \in Requested PROVE toEditor[i] \in Requests
  BY <1>1 DEF TypeOK, Requested
<1>2. ASSUME NEW i \in Answered PROVE toServer[i] \in Replies
  BY <1>2 DEF TypeOK, Answered
<1> QED
  BY <1>1, <1>2 DEF Requests, Replies

\* What no call in the editor's hands sees.
LEMMA Frame ==
  ASSUME TxInv, UNCHANGED <<channelVars, open, forgotten, issued, committed, rolledBack>>,
         active' \subseteq active, timedOut' \subseteq timedOut \cup active,
         \A d \in Calls : stage[d] = "editor" =>
            UNCHANGED <<stage[d], method[d], target[d]>>
  PROVE  RequestsInv' /\ RepliesInv' /\ OneMessage'
<1>1. \A i \in Requested : toEditor[i].from \in Calls \cup {Timer}
  BY MessageTypes DEF TxInv
<1>2. \A i \in Answered : toServer[i].from \in Calls \cup {Timer}
  BY MessageTypes DEF TxInv
<1>3. Requested' = Requested /\ Answered' = Answered /\ toEditor' = toEditor /\ toServer' = toServer
  BY DEF Requested, Answered, channelVars
<1>4. \A i \in Answered : NewId(toServer[i])' <=> NewId(toServer[i])
  BY <1>2, <1>3 DEF NewId, TxInv, RepliesInv, ReplyOk
<1>5. RequestsInv'
  BY <1>1, <1>3 DEF RequestsInv, RequestOk, TxInv
<1>6. RepliesInv'
  BY <1>2, <1>3, <1>4 DEF RepliesInv, ReplyOk, TxInv
<1>7. OneMessage'
  BY <1>3, <1>4 DEF OneMessage, TxInv
<1> QED
  BY <1>5, <1>6, <1>7

\* A request is sent, for a call that starts or for a timer.
LEMMA RequestSent ==
  ASSUME TxInv, NEW r \in Requests, NEW n,
         Requested' = Requested \cup {n}, n \notin Requested,
         \A i \in Requested : toEditor'[i] = toEditor[i],
         toEditor'[n] = r,
         UNCHANGED <<toServer, open, forgotten, issued, committed, rolledBack>>,
         active' \subseteq active,
         timedOut' \subseteq timedOut \cup active,
         r.from = Timer => r.method = "rollback",
         r.from # Timer => /\ stage[r.from] = "idle"
                           /\ stage'[r.from] = "editor"
                           /\ method'[r.from] = r.method
                           /\ target'[r.from] = r.id,
         r.method # "begin" => r.id \in active \ active',
         \A d \in Calls : stage[d] = "editor" =>
            UNCHANGED <<stage[d], method[d], target[d]>>
  PROVE  RequestsInv' /\ RepliesInv' /\ OneMessage'
<1>0. /\ \A i \in Requested : toEditor[i].from \in Calls \cup {Timer}
      /\ \A i \in Answered : toServer[i].from \in Calls \cup {Timer}
      /\ r.from \in Calls \cup {Timer}
  BY MessageTypes DEF TxInv, Requests
<1>2. Answered' = Answered /\ toServer' = toServer
  BY DEF Answered
<1>4. \A i \in Answered : NewId(toServer[i])' <=> NewId(toServer[i])
  BY <1>0, <1>2 DEF NewId, TxInv, RepliesInv, ReplyOk
<1>5. RequestsInv'
  <2>1. ASSUME NEW i \in Requested PROVE RequestOk(i)'
    <3>1. RequestOk(i)
      BY <2>1 DEF RequestsInv, TxInv
    <3>2. toEditor[i].from # Timer =>
            UNCHANGED <<stage[toEditor[i].from], method[toEditor[i].from], target[toEditor[i].from]>>
      BY <2>1, <3>1, <1>0 DEF RequestOk
    <3> QED
      BY <2>1, <3>1, <3>2 DEF RequestOk
  <2>2. RequestOk(n)'
    <3>1. r.method # "begin" => r.id \in (1 .. issued) \ active'
      BY DEF TxInv, IdsInv
    <3> QED
      BY <1>0, <3>1 DEF RequestOk
  <2> QED
    BY <2>1, <2>2 DEF RequestsInv
<1>6. RepliesInv'
  <2> SUFFICES ASSUME NEW i \in Answered PROVE ReplyOk(i)'
    BY <1>2 DEF RepliesInv
  <2>0. ReplyOk(i)
    BY DEF TxInv, RepliesInv
  <2>1. CASE NewId(toServer[i])
    <3>1. \A j \in Requested' : toEditor'[j].method # "begin" => toEditor'[j].id # toServer[i].id
      BY <2>0, <2>1 DEF ReplyOk
    <3>2. toServer[i].id \in (open' \cup forgotten') \ (active' \cup timedOut')
      BY <2>0, <2>1 DEF ReplyOk, TxInv, IdsInv
    <3>3. toServer[i].from # Timer =>
            UNCHANGED <<stage[toServer[i].from], method[toServer[i].from], target[toServer[i].from]>>
      BY <2>0, <1>0 DEF ReplyOk
    <3> QED
      BY <2>0, <2>1, <3>1, <3>2, <3>3, <1>0, <1>2, <1>4 DEF ReplyOk
  <2>2. CASE ~NewId(toServer[i])
    BY <2>0, <2>2, <1>0, <1>2, <1>4 DEF ReplyOk
  <2> QED
    BY <2>1, <2>2
<1>7. OneMessage'
  <2>1. r.from # Timer => /\ \A i \in Requested : toEditor[i].from # r.from
                          /\ \A i \in Answered : toServer[i].from # r.from
    BY <1>0 DEF TxInv, RequestsInv, RequestOk, RepliesInv, ReplyOk
  <2>2. \A i, j \in Requested' : i # j => toEditor'[i].from # toEditor'[j].from \/ toEditor'[i].from = Timer
    BY <2>1 DEF OneMessage, TxInv
  <2>3. \A i \in Requested', j \in Answered' :
           toEditor'[i].from # toServer'[j].from \/ toEditor'[i].from = Timer
    BY <2>1, <1>2 DEF OneMessage, TxInv
  <2> QED
    BY <2>2, <2>3, <1>2, <1>4 DEF OneMessage, TxInv
<1> QED
  BY <1>5, <1>6, <1>7
\* The editor takes the first request and answers it.
LEMMA EditorHandlesMessages ==
  ASSUME TxInv, NEW q, NEW n, NEW r,
         r = toEditor[1], 1 \in Requested,
         \A i \in Requested' : i + 1 \in Requested /\ i + 1 # 1 /\ toEditor'[i] = toEditor[i + 1],
         \A i, j \in Requested' : i # j => i + 1 # j + 1,
         Answered' = Answered \cup {n}, n \notin Answered,
         \A i \in Answered : toServer'[i] = toServer[i],
         toServer'[n] = q,
         q.from = r.from,
         issued \in Nat, issued' \in Nat, issued <= issued',
         UNCHANGED <<stage, method, target, active, timedOut, forgotten>>,
         open \subseteq open' \cup (IF r.method = "begin" THEN {} ELSE {r.id}),
         committed \subseteq committed', rolledBack \subseteq rolledBack',
         q.ok /\ r.method = "commit" => r.id \in committed',
         q.ok /\ r.method = "rollback" => r.id \in rolledBack',
         r.method = "begin" /\ q.id # None =>
           /\ q.id \in open' \ (1 .. issued)
  PROVE  RequestsInv' /\ RepliesInv' /\ OneMessage'
<1>0. /\ \A i \in Requested : toEditor[i].from \in Calls \cup {Timer}
      /\ \A i \in Answered : toServer[i].from \in Calls \cup {Timer}
  BY MessageTypes DEF TxInv
<1>1. RequestOk(1)
  BY DEF TxInv, RequestsInv
<1>2. \A i \in Answered : NewId(toServer[i])' <=> NewId(toServer[i])
  BY DEF NewId
<1>3. NewId(toServer[n])' <=> r.method = "begin" /\ q.id # None
  BY <1>0, <1>1 DEF NewId, RequestOk
<1>5. RequestsInv'
  <2> SUFFICES ASSUME NEW i \in Requested' PROVE RequestOk(i)'
    BY DEF RequestsInv
  <2>1. RequestOk(i + 1)
    BY DEF RequestsInv, TxInv
  <2>2. toEditor'[i] = toEditor[i + 1]
    OBVIOUS
  <2>3. 1 .. issued \subseteq 1 .. issued'
    OBVIOUS
  <2> QED
    BY <2>1, <2>2, <2>3 DEF RequestOk
<1>6. RepliesInv'
  <2>1. ASSUME NEW i \in Answered PROVE ReplyOk(i)'
    <3>1. ReplyOk(i)
      BY <2>1 DEF TxInv, RepliesInv
    <3>2. toServer'[i] = toServer[i]
      BY <2>1
    <3>3. CASE NewId(toServer[i])
      <4>1. \A j \in Requested' : toEditor'[j].method # "begin" => toEditor'[j].id # toServer[i].id
        BY <3>1, <3>3 DEF ReplyOk
      <4>2. r.method # "begin" => r.id # toServer[i].id
        BY <3>1, <3>3 DEF ReplyOk
      <4> QED
        BY <3>1, <3>2, <3>3, <4>1, <4>2 DEF ReplyOk
    <3>4. CASE ~NewId(toServer[i])
      BY <1>2, <2>1, <3>1, <3>2, <3>4 DEF ReplyOk
    <3> QED
      BY <3>3, <3>4
  <2>2. ReplyOk(n)'
    <3>1. r.from # Timer => stage[r.from] = "editor" /\ method[r.from] = r.method /\ target[r.from] = r.id
      BY <1>1 DEF RequestOk
    <3>2. CASE NewId(toServer[n])'
      <4>1. r.method = "begin" /\ q.id # None /\ q.id \in open' /\ q.id \notin 1 .. issued
        BY <3>2, <1>3
      <4>2. q.id \notin active \cup timedOut
        BY <4>1 DEF TxInv, IdsInv
      <4>3. ASSUME NEW j \in Requested', toEditor'[j].method # "begin" PROVE toEditor'[j].id # q.id
        <5>1. RequestOk(j + 1) /\ toEditor'[j] = toEditor[j + 1]
          BY <4>3 DEF TxInv, RequestsInv
        <5> QED
          BY <4>1, <4>3, <5>1 DEF RequestOk
      <4> QED
        BY <3>1, <4>1, <4>2, <4>3 DEF ReplyOk
    <3>3. CASE ~NewId(toServer[n])'
      BY <3>1, <3>3 DEF ReplyOk
    <3> QED
      BY <3>2, <3>3
  <2> QED
    BY <2>1, <2>2 DEF RepliesInv
<1>7. OneMessage'
  <2>1. r.from # Timer => /\ \A i \in Requested' : toEditor'[i].from # r.from
                          /\ \A i \in Answered : toServer[i].from # r.from
    BY DEF TxInv, OneMessage
  <2>2. \A i, j \in Requested' : i # j => toEditor'[i].from # toEditor'[j].from \/ toEditor'[i].from = Timer
    BY DEF OneMessage, TxInv
  <2>3. \A i \in Requested', j \in Answered' :
           toEditor'[i].from # toServer'[j].from \/ toEditor'[i].from = Timer
    BY <2>1 DEF OneMessage, TxInv
  <2>4. \A i, j \in Answered' : i # j => toServer'[i].from # toServer'[j].from \/ toServer'[i].from = Timer
    BY <2>1 DEF OneMessage, TxInv
  <2>5. ASSUME NEW i \in Answered, NewId(toServer[i]), NewId(toServer[n])' PROVE toServer[i].id # q.id
    <3>1. toServer[i].id \in open \cup forgotten
      BY <2>5 DEF TxInv, RepliesInv, ReplyOk
    <3> QED
      BY <3>1, <1>3, <2>5 DEF TxInv, IdsInv
  <2>6. \A i, j \in Answered' :
          i # j /\ NewId(toServer[i])' /\ NewId(toServer[j])' => toServer'[i].id # toServer'[j].id
    BY <2>5, <1>2 DEF OneMessage, TxInv
  <2> QED
    BY <2>2, <2>3, <2>4, <2>6 DEF OneMessage
<1> QED
  BY <1>5, <1>6, <1>7

\* The executor takes the first reply.
LEMMA ReplyTaken ==
  ASSUME TxInv, NEW q, q = toServer[1], 1 \in Answered,
         \A i \in Answered' : i + 1 \in Answered /\ i + 1 # 1 /\ toServer'[i] = toServer[i + 1],
         \A i, j \in Answered' : i # j => i + 1 # j + 1,
         UNCHANGED <<toEditor, method, open, forgotten, issued, timedOut, committed, rolledBack>>,
         \A d \in Calls : d # q.from => UNCHANGED <<stage[d], target[d]>>,
         active' \subseteq active \cup (IF NewId(q) THEN {q.id} ELSE {})
  PROVE  RequestsInv' /\ RepliesInv' /\ OneMessage'
<1>0. /\ \A i \in Requested : toEditor[i].from \in Calls \cup {Timer}
      /\ \A i \in Answered : toServer[i].from \in Calls \cup {Timer}
  BY MessageTypes DEF TxInv
<1>1. /\ \A i \in Requested : toEditor[i].from # q.from \/ toEditor[i].from = Timer
      /\ \A i \in Answered' : toServer'[i].from # q.from \/ toServer'[i].from = Timer
  BY DEF TxInv, OneMessage
<1>2. Requested' = Requested
  BY DEF Requested
<1>3. \A i \in Answered' : NewId(toServer[i])' <=> NewId(toServer[i + 1])
  BY DEF NewId
<1>4. NewId(q) => /\ \A j \in Requested : toEditor[j].method # "begin" => toEditor[j].id # q.id
                  /\ \A i \in Answered' : NewId(toServer[i])' => toServer'[i].id # q.id
  <2> SUFFICES ASSUME NewId(q)
               PROVE  /\ \A j \in Requested : toEditor[j].method # "begin" => toEditor[j].id # q.id
                      /\ \A i \in Answered' : NewId(toServer[i])' => toServer'[i].id # q.id
    OBVIOUS
  <2>1. ReplyOk(1)
    BY DEF TxInv, RepliesInv
  <2>2. ASSUME NEW i \in Answered', NewId(toServer[i])' PROVE toServer'[i].id # q.id
    BY <2>2, <1>3 DEF TxInv, OneMessage
  <2> QED
    BY <2>1, <2>2 DEF ReplyOk
<1>5. RequestsInv'
  <2> SUFFICES ASSUME NEW i \in Requested PROVE RequestOk(i)'
    BY <1>2 DEF RequestsInv
  <2>1. RequestOk(i)
    BY DEF RequestsInv, TxInv
  <2>2. toEditor[i].from # Timer => UNCHANGED <<stage[toEditor[i].from], target[toEditor[i].from]>>
    BY <1>0, <1>1
  <2> QED
    BY <2>1, <2>2, <1>4 DEF RequestOk
<1>6. RepliesInv'
  <2> SUFFICES ASSUME NEW i \in Answered' PROVE ReplyOk(i)'
    BY DEF RepliesInv
  <2>1. ReplyOk(i + 1) /\ toServer'[i] = toServer[i + 1]
    BY DEF RepliesInv, TxInv
  <2> PICK f : f = toServer[i + 1].from
    OBVIOUS
  <2>2. f # Timer => f \in Calls /\ stage'[f] = stage[f] /\ target'[f] = target[f]
    BY <2>1, <1>0, <1>1
  <2>3. CASE NewId(toServer[i])'
    <3>1. /\ toServer'[i].id \in (open' \cup forgotten') \ (active' \cup timedOut')
          /\ \A j \in Requested' : toEditor'[j].method # "begin" => toEditor'[j].id # toServer'[i].id
      BY <2>1, <2>3, <1>2, <1>3, <1>4 DEF ReplyOk
    <3> QED
      BY <2>1, <2>2, <3>1, <2>3 DEF ReplyOk
  <2>4. CASE ~NewId(toServer[i])'
    BY <2>1, <2>2, <2>4, <1>3 DEF ReplyOk
  <2> QED
    BY <2>3, <2>4
<1>7. OneMessage'
  BY <1>2, <1>3 DEF TxInv, OneMessage
<1> QED
  BY <1>5, <1>6, <1>7
\* The count of the begins that may still reach the editor.
LEMMA CountStep ==
  ASSUME CountInv, TypeOK, issued' = issued,
         \/ Begun' = Begun
         \/ \E c \in Calls : Begun' = Begun \cup {c} /\ Cardinality(Begun) < MaxTx,
         Begun \ OnTheWay \subseteq (Begun \ OnTheWay)'
  PROVE  CountInv'
<1>1. IsFiniteSet(Begun') /\ Cardinality(Begun') <= MaxTx
  <2>1. CASE Begun' = Begun
    BY <2>1 DEF CountInv
  <2>2. ASSUME NEW c \in Calls, Begun' = Begun \cup {c}, Cardinality(Begun) < MaxTx
        PROVE  IsFiniteSet(Begun') /\ Cardinality(Begun') <= MaxTx
    <3>1. IsFiniteSet(Begun) /\ Cardinality(Begun) \in Nat
      BY FS_CardinalityType DEF CountInv
    <3>2. /\ IsFiniteSet(Begun \cup {c})
          /\ Cardinality(Begun \cup {c}) = IF c \in Begun THEN Cardinality(Begun) ELSE Cardinality(Begun) + 1
      BY <3>1, FS_AddElement
    <3>3. Cardinality(Begun \cup {c}) <= MaxTx
      BY <2>2, <3>1, <3>2, TransactionAssumption
    <3> QED
      BY <2>2, <3>2, <3>3
  <2> QED
    BY <2>1, <2>2
<1>2. issued' <= Cardinality((Begun \ OnTheWay)')
  <2>1. IsFiniteSet((Begun \ OnTheWay)')
    BY <1>1, FS_Subset
  <2>2. IsFiniteSet(Begun \ OnTheWay)
    BY FS_Subset DEF CountInv
  <2>3. Cardinality(Begun \ OnTheWay) <= Cardinality((Begun \ OnTheWay)')
    BY <2>1, FS_Subset
  <2>4. Cardinality(Begun \ OnTheWay) \in Nat /\ Cardinality((Begun \ OnTheWay)') \in Nat
    BY <2>1, <2>2, FS_CardinalityType
  <2> QED
    BY <2>3, <2>4 DEF CountInv, TypeOK
<1> QED
  BY <1>1, <1>2 DEF CountInv

-----------------------------------------------------------------------------
(* The actions, one by one.                                                *)

\* handleBegin() up to its await: refused, rejected at once, or sent.
LEMMA BeginInv == ASSUME TxInv, NEW c \in Calls, Begin(c) PROVE TxInv'
<1> USE TimerIsNoCall, TransactionAssumption DEF TxInv
<1>1. /\ method[c] = "none" /\ stage[c] = "idle" /\ result[c] = "none"
      /\ UNCHANGED <<editorVars, faults, executorVars, linkUp, toServer>>
      /\ method' = [method EXCEPT ![c] = "begin"]
      /\ target' = [target EXCEPT ![c] = None]
  BY DEF Begin, Start, channelVars, SendFor, CallsInv, TypeOK
<1> DEFINE AtOnce == /\ toEditor' = toEditor
                     /\ \/ Settle(c, "nested")
                        \/ Settle(c, "failed") /\ Cardinality(Begun) < MaxTx
           Sent == /\ toEditor' = Append(toEditor, [from |-> c, method |-> "begin", id |-> None])
                   /\ Await(c, "editor")
                   /\ Cardinality(Begun) < MaxTx
<1>2. AtOnce \/ Sent
  BY DEF Begin, SendFor, channelVars, Begun
<1>3. TypeOK' /\ CallsInv'
  <2>1. toEditor' \in Seq(Requests)
    <3>1. [from |-> c, method |-> "begin", id |-> None] \in Requests
      BY DEF Requests, Methods
    <3>2. toEditor \in Seq(Requests)
      BY DEF TypeOK
    <3>3. toEditor' \in {toEditor, Append(toEditor, [from |-> c, method |-> "begin", id |-> None])}
      BY <1>2
    <3> QED
      BY <3>1, <3>2, <3>3, Appended
  <2>2. stage' \in [Calls -> {"idle", "editor", "runtime", "settled"}]
        /\ result' \in [Calls -> Results \cup {"none"}]
        /\ answer' \in [Calls -> {"none", "result", "timeout"}]
    BY <1>2 DEF TypeOK, Settle, Await, Results
  <2>3. CallsInv'
    BY <1>1, <1>2 DEF TypeOK, CallsInv, Settle, Await
  <2> QED
    BY <1>1, <2>1, <2>2, <2>3 DEF TypeOK, Methods, editorVars, executorVars
<1>4. \A d \in Calls : d # c => UNCHANGED <<stage[d], method[d], target[d], result[d]>>
  BY <1>1, <1>2 DEF TypeOK, Settle, Await
<1>5. IdsInv'
  BY <1>1 DEF IdsInv, editorVars, executorVars
<1>6. CASE AtOnce
  <2>1. RequestsInv' /\ RepliesInv' /\ OneMessage'
    BY <1>1, <1>4, <1>6, Frame DEF channelVars, editorVars, executorVars
  <2>2. Expired' = Expired
    BY <1>1, <1>4, <1>6 DEF Expired, executorVars, Settle, TypeOK
  <2>3. ExpiredInv'
    <3>1. \A i \in Answered' : NewId(toServer[i])' => NewId(toServer[i])
      BY <1>1, <2>1, MessageTypes DEF NewId, RepliesInv, ReplyOk, CallsInv, Answered, TypeOK
    <3> QED
      BY <1>1, <1>6, <2>2, <3>1 DEF ExpiredInv, executorVars, editorVars, Requested, Answered
  <2>4. SuccessInv'
    BY <1>1, <1>4, <1>6 DEF SuccessInv, editorVars, Settle, TypeOK
  <2>5. CountInv'
    <3>1. OnTheWay' = OnTheWay
      BY <1>6 DEF OnTheWay, Requested
    <3>2. Begun' = IF result'[c] = "nested" THEN Begun ELSE Begun \cup {c}
      BY <1>1, <1>4 DEF Begun, TypeOK
    <3>3. result'[c] = "nested" \/ Cardinality(Begun) < MaxTx
      BY <1>6 DEF Settle, TypeOK
    <3> QED
      BY <1>1, <3>1, <3>2, <3>3, CountStep DEF editorVars
  <2> QED
    BY <1>3, <1>5, <2>1, <2>3, <2>4, <2>5
<1>7. CASE Sent
  <2> PICK r \in Requests : r = [from |-> c, method |-> "begin", id |-> None]
    BY DEF Requests, Methods
  <2>1. PICK n : /\ Requested' = Requested \cup {n} /\ n \notin Requested
                 /\ \A i \in Requested : toEditor'[i] = toEditor[i]
                 /\ toEditor'[n] = r
    <3>1. toEditor \in Seq(Requests) /\ toEditor' = Append(toEditor, r)
      BY <1>7 DEF TypeOK
    <3> QED
      BY <3>1, Appended DEF Requested
  <2>2. /\ r.from = c /\ r.method = "begin" /\ r.id = None /\ c # Timer
        /\ stage'[c] = "editor" /\ method'[c] = "begin" /\ target'[c] = None
        /\ UNCHANGED <<result, active, timedOut, open, forgotten, issued, committed, rolledBack, toServer>>
    BY <1>1, <1>7 DEF Await, TypeOK, executorVars, editorVars
  <2>3. RequestsInv' /\ RepliesInv' /\ OneMessage'
    BY <1>1, <1>4, <2>1, <2>2, RequestSent
  <2>4. Expired' = Expired
    BY <1>1, <1>4, <2>2 DEF Expired
  <2>5. ExpiredInv'
    <3>1. \A i \in Answered' : NewId(toServer[i])' => NewId(toServer[i])
      BY <1>1, <2>2, MessageTypes DEF NewId, RepliesInv, ReplyOk, CallsInv, Answered, TypeOK
    <3> QED
      BY <2>1, <2>2, <2>4, <3>1 DEF ExpiredInv, Answered
  <2>6. SuccessInv'
    BY <1>1, <1>4, <2>2 DEF SuccessInv, TypeOK
  <2>7. CountInv'
    <3>1. OnTheWay' = OnTheWay \cup {c}
      BY <2>1, <2>2 DEF OnTheWay
    <3>2. Begun' = Begun \cup {c} /\ c \notin Begun
      BY <1>1, <1>4, <2>2 DEF Begun, TypeOK
    <3> QED
      BY <1>7, <2>2, <3>1, <3>2, CountStep
  <2> QED
    BY <1>3, <1>5, <2>3, <2>5, <2>6, <2>7
<1> HIDE DEF AtOnce, Sent
<1> QED
  BY <1>2, <1>6, <1>7
\* handleCommit() and handleRollback(): the id is consumed, unknown, or forgotten and sent.
LEMMA FinishInv ==
  ASSUME TxInv, NEW c \in Calls, NEW m \in {"commit", "rollback"}, NEW id \in Told, Finish(c, m, id)
  PROVE  TxInv'
<1> USE TimerIsNoCall, TransactionAssumption DEF TxInv
<1>0. id \in Ids \cup {None}
  BY DEF Told, TypeOK
<1>1. /\ method[c] = "none" /\ stage[c] = "idle" /\ result[c] = "none"
      /\ UNCHANGED <<editorVars, faults, linkUp, toServer>>
      /\ method' = [method EXCEPT ![c] = m]
      /\ target' = [target EXCEPT ![c] = id]
  BY DEF Finish, Start, channelVars, SendFor, CallsInv, TypeOK
<1> DEFINE AtOnce == /\ UNCHANGED <<channelVars, active, hasOpenTransaction, timers>>
                     /\ \/ id \in timedOut /\ timedOut' = timedOut \ {id} /\ Settle(c, "expired")
                        \/ UNCHANGED timedOut /\ Settle(c, "unknown")
           Lost == /\ UNCHANGED channelVars
                   /\ id \in active /\ Forget(id) /\ Settle(c, "failed")
           Sent == /\ toEditor' = Append(toEditor, [from |-> c, method |-> m, id |-> id])
                   /\ id \in active /\ Forget(id) /\ Await(c, "editor")
<1>2. AtOnce \/ Lost \/ Sent
  BY DEF Finish, SendFor, channelVars, executorVars
<1>3. /\ active' \subseteq active /\ timers' \subseteq timers /\ timedOut' \subseteq timedOut
      /\ hasOpenTransaction' \in BOOLEAN
  BY <1>2 DEF Forget, TypeOK
<1>4. TypeOK' /\ CallsInv'
  <2>1. toEditor' \in Seq(Requests)
    <3>1. [from |-> c, method |-> m, id |-> id] \in Requests
      BY <1>0 DEF Requests, Methods
    <3>2. toEditor \in Seq(Requests)
      BY DEF TypeOK
    <3>3. toEditor' \in {toEditor, Append(toEditor, [from |-> c, method |-> m, id |-> id])}
      BY <1>2 DEF channelVars
    <3> QED
      BY <3>1, <3>2, <3>3, Appended
  <2>2. stage' \in [Calls -> {"idle", "editor", "runtime", "settled"}]
        /\ result' \in [Calls -> Results \cup {"none"}]
        /\ answer' \in [Calls -> {"none", "result", "timeout"}]
    BY <1>2 DEF TypeOK, Settle, Await, Results
  <2>3. CallsInv'
    BY <1>1, <1>2 DEF TypeOK, CallsInv, Settle, Await
  <2>4. method' \in [Calls -> Methods \cup {"none"}] /\ target' \in [Calls -> Ids \cup {None}]
    BY <1>0, <1>1 DEF TypeOK, Methods
  <2>5. active' \subseteq Ids /\ timedOut' \subseteq Ids /\ timers' \subseteq Ids
    BY <1>3 DEF TypeOK
  <2> QED
    BY <1>1, <1>3, <2>1, <2>2, <2>3, <2>4, <2>5 DEF TypeOK, editorVars
<1>5. \A d \in Calls : d # c => UNCHANGED <<stage[d], method[d], target[d], result[d]>>
  BY <1>1, <1>2 DEF TypeOK, Settle, Await
<1>6. IdsInv'
  BY <1>1, <1>3 DEF IdsInv, editorVars
<1>7. SuccessInv'
  <2>1. result'[c] # "ok" /\ stage'[c] # "runtime"
    BY <1>1, <1>2 DEF TypeOK, Settle, Await
  <2> QED
    BY <1>1, <1>5, <2>1 DEF SuccessInv, editorVars
<1>8. /\ Begun' = Begun
      /\ \A i \in Answered : NewId(toServer[i])' <=> NewId(toServer[i])
  <2>1. Begun' = Begun
    BY <1>1, <1>5 DEF Begun, TypeOK
  <2> QED
    BY <1>1, <2>1, MessageTypes DEF NewId, RepliesInv, ReplyOk, CallsInv, TypeOK
<1>9. Answered' = Answered /\ toServer' = toServer
  BY <1>1 DEF Answered
<1>10. CASE AtOnce
  <2>1. RequestsInv' /\ RepliesInv' /\ OneMessage'
    BY <1>1, <1>3, <1>5, <1>10, Frame DEF editorVars
  <2>2. Expired' \subseteq Expired
    <3>1. target'[c] = id /\ (result'[c] = "expired" => id \in timedOut)
      BY <1>1, <1>10 DEF TypeOK, Settle
    <3> QED
      BY <1>3, <1>5, <3>1 DEF Expired
  <2>3. ExpiredInv'
    BY <1>1, <1>8, <1>9, <1>10, <2>2 DEF ExpiredInv, editorVars, channelVars, Requested
  <2>4. CountInv'
    <3>1. OnTheWay' = OnTheWay
      BY <1>10 DEF OnTheWay, Requested, channelVars
    <3> QED
      BY <1>1, <1>8, <3>1, CountStep DEF editorVars
  <2> QED
    BY <1>4, <1>6, <1>7, <2>1, <2>3, <2>4
<1>11. ASSUME id \in active, Forget(id), result'[c] # "expired"
       PROVE  Expired' = Expired /\ active' = active \ {id} /\ UNCHANGED timedOut
  <2>1. \A d \in Calls : result'[d] = "expired" <=> result[d] = "expired"
    BY <1>1, <1>5, <1>11
  <2>2. \A d \in Calls : result'[d] = "expired" => target'[d] = target[d]
    BY <1>1, <1>5, <1>11
  <2> QED
    BY <1>11, <2>1, <2>2 DEF Expired, Forget
<1>12. CASE Lost
  <2>0. Expired' = Expired /\ active' = active \ {id} /\ UNCHANGED timedOut
    <3>1. result'[c] = "failed"
      BY <1>12 DEF Settle, TypeOK
    <3> QED
      BY <1>11, <1>12, <3>1
  <2>1. RequestsInv' /\ RepliesInv' /\ OneMessage'
    BY <1>1, <1>3, <1>5, <1>12, Frame DEF editorVars
  <2>2. ExpiredInv'
    BY <1>1, <1>8, <1>9, <1>12, <2>0 DEF ExpiredInv, editorVars, channelVars, Requested
  <2>3. CountInv'
    <3>1. OnTheWay' = OnTheWay
      BY <1>12 DEF OnTheWay, Requested, channelVars
    <3> QED
      BY <1>1, <1>8, <3>1, CountStep DEF editorVars
  <2> QED
    BY <1>4, <1>6, <1>7, <2>1, <2>2, <2>3
<1>13. CASE Sent
  <2>0. Expired' = Expired /\ active' = active \ {id} /\ UNCHANGED timedOut
    <3>1. result'[c] = "none"
      BY <1>1, <1>13 DEF Await
    <3> QED
      BY <1>11, <1>13, <3>1
  <2> PICK r \in Requests : r = [from |-> c, method |-> m, id |-> id]
    BY <1>0 DEF Requests, Methods
  <2>1. PICK n : /\ Requested' = Requested \cup {n} /\ n \notin Requested
                 /\ \A i \in Requested : toEditor'[i] = toEditor[i]
                 /\ toEditor'[n] = r
    <3>1. toEditor \in Seq(Requests) /\ toEditor' = Append(toEditor, r)
      BY <1>13 DEF TypeOK
    <3> QED
      BY <3>1, Appended DEF Requested
  <2>2. /\ r.from = c /\ r.method = m /\ r.id = id /\ c # Timer
        /\ stage'[c] = "editor" /\ method'[c] = m /\ target'[c] = id
        /\ UNCHANGED <<open, forgotten, issued, committed, rolledBack, toServer>>
    BY <1>1, <1>13 DEF Await, TypeOK, editorVars
  <2>3. RequestsInv' /\ RepliesInv' /\ OneMessage'
    <3>1. id \in active
      BY <1>13
    <3> QED
      BY <1>1, <1>5, <2>0, <2>1, <2>2, <3>1, RequestSent
  <2>4. ExpiredInv'
    <3>1. id \notin Expired
      BY <1>13 DEF ExpiredInv
    <3> QED
      BY <1>8, <1>9, <2>0, <2>1, <2>2, <3>1 DEF ExpiredInv
  <2>5. CountInv'
    <3>1. OnTheWay' = OnTheWay
      BY <2>1, <2>2 DEF OnTheWay
    <3> QED
      BY <1>8, <2>2, <3>1, CountStep
  <2> QED
    BY <1>4, <1>6, <1>7, <2>3, <2>4, <2>5
<1> HIDE DEF AtOnce, Lost, Sent
<1> QED
  BY <1>2, <1>10, <1>12, <1>13

\* The timer: an active id expires, and its rollback is sent if the channel is up.
LEMMA AutoRollbackInv ==
  ASSUME TxInv, NEW id \in Ids, AutoRollback(id)
  PROVE  TxInv'
<1> USE TimerIsNoCall, TransactionAssumption DEF TxInv
<1>1. /\ UNCHANGED <<callVars, linkUp, toServer, editorVars, faults>>
      /\ timers' = timers \ {id}
  BY DEF AutoRollback
<1> DEFINE Idle == UNCHANGED <<active, hasOpenTransaction, timedOut, toEditor>>
           Lost == id \in active /\ Expire(id) /\ toEditor' = toEditor
           Sent == /\ id \in active /\ Expire(id)
                   /\ toEditor' = Append(toEditor, [from |-> Timer, method |-> "rollback", id |-> id])
<1>2. Idle \/ Lost \/ Sent
  BY DEF AutoRollback
<1>3. /\ active' \subseteq active /\ timers' \subseteq timers
      /\ timedOut' \subseteq timedOut \cup active
      /\ hasOpenTransaction' \in BOOLEAN
  BY <1>1, <1>2 DEF Expire, TypeOK
<1>4. TypeOK' /\ CallsInv'
  <2>1. toEditor' \in Seq(Requests)
    <3>1. [from |-> Timer, method |-> "rollback", id |-> id] \in Requests
      BY DEF Requests, Methods
    <3>2. toEditor \in Seq(Requests)
      BY DEF TypeOK
    <3>3. toEditor' \in {toEditor, Append(toEditor, [from |-> Timer, method |-> "rollback", id |-> id])}
      BY <1>2
    <3> QED
      BY <3>1, <3>2, <3>3, Appended
  <2>2. CallsInv'
    BY <1>1 DEF CallsInv, callVars
  <2>3. active' \subseteq Ids /\ timedOut' \subseteq Ids /\ timers' \subseteq Ids
    BY <1>3 DEF TypeOK
  <2> QED
    BY <1>1, <1>3, <2>1, <2>2, <2>3 DEF TypeOK, editorVars, callVars
<1>5. \A d \in Calls : UNCHANGED <<stage[d], method[d], target[d], result[d]>>
  BY <1>1 DEF callVars
<1>6. IdsInv'
  BY <1>1, <1>3 DEF IdsInv, editorVars
<1>7. SuccessInv'
  BY <1>1 DEF SuccessInv, editorVars, callVars
<1>8. /\ Begun' = Begun /\ Answered' = Answered /\ toServer' = toServer
      /\ \A i \in Answered : NewId(toServer[i])' <=> NewId(toServer[i])
  BY <1>1 DEF Begun, Answered, NewId, callVars
<1>9. \A i \in Answered : NewId(toServer[i]) => toServer[i].id \notin active
  BY DEF RepliesInv, ReplyOk
<1>10. id \in active => id \notin committed /\ id \in 1 .. issued
                        /\ \A i \in Requested : toEditor[i].id = id => toEditor[i].method # "commit"
  BY DEF IdsInv, RequestsInv, RequestOk
<1>11. CASE Idle
  <2>1. RequestsInv' /\ RepliesInv' /\ OneMessage'
    BY <1>1, <1>3, <1>5, <1>11, Frame DEF editorVars, channelVars
  <2>2. ExpiredInv'
    <3>1. Expired' = Expired
      BY <1>1, <1>11 DEF Expired, callVars
    <3> QED
      BY <1>1, <1>8, <1>11, <3>1 DEF ExpiredInv, editorVars, Requested
  <2>3. CountInv'
    <3>1. OnTheWay' = OnTheWay
      BY <1>11 DEF OnTheWay, Requested
    <3> QED
      BY <1>1, <1>8, <3>1, CountStep DEF editorVars
  <2> QED
    BY <1>4, <1>6, <1>7, <2>1, <2>2, <2>3
<1>12. ASSUME Expire(id) PROVE Expired' = Expired \cup {id} /\ active' = active \ {id}
  BY <1>1, <1>12 DEF Expired, Expire, callVars
<1>13. CASE Lost
  <2>0. Expired' = Expired \cup {id} /\ active' = active \ {id} /\ id \in active
    BY <1>12, <1>13
  <2>1. RequestsInv' /\ RepliesInv' /\ OneMessage'
    BY <1>1, <1>3, <1>5, <1>13, Frame DEF editorVars, channelVars
  <2>2. ExpiredInv'
    BY <1>1, <1>8, <1>9, <1>10, <1>13, <2>0 DEF ExpiredInv, editorVars, Requested
  <2>3. CountInv'
    <3>1. OnTheWay' = OnTheWay
      BY <1>13 DEF OnTheWay, Requested
    <3> QED
      BY <1>1, <1>8, <3>1, CountStep DEF editorVars
  <2> QED
    BY <1>4, <1>6, <1>7, <2>1, <2>2, <2>3
<1>14. CASE Sent
  <2>0. Expired' = Expired \cup {id} /\ active' = active \ {id} /\ id \in active
    BY <1>12, <1>14
  <2> PICK r \in Requests : r = [from |-> Timer, method |-> "rollback", id |-> id]
    BY DEF Requests, Methods
  <2>1. PICK n : /\ Requested' = Requested \cup {n} /\ n \notin Requested
                 /\ \A i \in Requested : toEditor'[i] = toEditor[i]
                 /\ toEditor'[n] = r
    <3>1. toEditor \in Seq(Requests) /\ toEditor' = Append(toEditor, r)
      BY <1>14 DEF TypeOK
    <3> QED
      BY <3>1, Appended DEF Requested
  <2>2. /\ r.from = Timer /\ r.method = "rollback" /\ r.id = id
        /\ UNCHANGED <<open, forgotten, issued, committed, rolledBack, toServer>>
    BY <1>1 DEF editorVars
  <2>3. RequestsInv' /\ RepliesInv' /\ OneMessage'
    BY <1>3, <1>5, <2>0, <2>1, <2>2, RequestSent
  <2>4. ExpiredInv'
    BY <1>8, <1>9, <1>10, <2>0, <2>1, <2>2 DEF ExpiredInv
  <2>5. CountInv'
    <3>1. OnTheWay' = OnTheWay
      BY <2>1, <2>2 DEF OnTheWay
    <3> QED
      BY <1>8, <2>2, <3>1, CountStep
  <2> QED
    BY <1>4, <1>6, <1>7, <2>3, <2>4, <2>5
<1> HIDE DEF Idle, Lost, Sent
<1> QED
  BY <1>2, <1>11, <1>13, <1>14
\* The editor opens, finishes or refuses, and answers.  A begin takes the next id: the
\* count shows that there is one.
LEMMA EditorHandlesInv == ASSUME TxInv, EditorHandles PROVE TxInv'
<1> USE TimerIsNoCall, TransactionAssumption DEF TxInv
<1> PICK r : r = Head(toEditor)
  OBVIOUS
<1>0. /\ toEditor \in Seq(Requests) /\ toEditor # <<>> /\ toServer \in Seq(Replies)
      /\ toEditor' = Tail(toEditor)
      /\ UNCHANGED <<callVars, executorVars, linkUp, idKind, forgotten, exposed, faults>>
      /\ issued \in Nat
  <2>1. toEditor \in Seq(Requests) /\ toServer \in Seq(Replies) /\ issued \in Nat
    BY DEF TypeOK
  <2>2. /\ toEditor # <<>> /\ toEditor' = Tail(toEditor)
        /\ UNCHANGED <<callVars, executorVars, linkUp, forgotten, exposed, faults>>
    BY DEF EditorHandles
  <2>3. UNCHANGED idKind
    BY DEF EditorHandles, ManagerBegin, ManagerFinish
  <2> QED
    BY <2>1, <2>2, <2>3
<1> DEFINE Opens == r.method = "begin" /\ ManagerBegin(issued + 1)
           Finishes == r.method # "begin" /\ r.id \in open /\ ManagerFinish(r.method, r.id)
           Refuses == r.method # "begin" /\ UNCHANGED <<open, issued, idKind, committed, rolledBack>>
           newId == IF r.method = "begin" THEN issued + 1 ELSE r.id
           ok == r.method = "begin" \/ r.id \in open
<1>1. Opens \/ Finishes \/ Refuses
  BY DEF EditorHandles
<1>2. EditorReply(r, ok, newId)
  BY DEF EditorHandles
<1>3. /\ toEditor' \in Seq(Requests) /\ r = toEditor[1] /\ 1 \in Requested
      /\ \A i \in Requested' : i + 1 \in Requested /\ i + 1 # 1 /\ toEditor'[i] = toEditor[i + 1]
      /\ \A i, j \in Requested' : i # j => i + 1 # j + 1
  BY <1>0, Shifted DEF Requested
<1>4. /\ r.from \in Calls \cup {Timer} /\ r.method \in Methods /\ r.id \in Ids \cup {None}
      /\ RequestOk(1)
  BY <1>3, MessageTypes DEF RequestsInv
<1>5. /\ r.method = "begin" => r.from \in OnTheWay /\ r.from \in Begun
      /\ r.method # "begin" => r.id \in (1 .. issued) \ active
      /\ r.method = "commit" => r.id \notin Expired
  <2>1. r.method = "begin" => r.from \in OnTheWay /\ r.from \in Begun
    BY <1>3, <1>4 DEF RequestOk, OnTheWay, Begun, CallsInv
  <2> QED
    BY <2>1, <1>3, <1>4 DEF RequestOk, ExpiredInv
\* The count comes first: it bounds the ids.
<1>6. CountInv' /\ issued' \in 0 .. MaxTx /\ issued <= issued'
  <2>0. Begun' = Begun /\ OnTheWay' \subseteq OnTheWay
    <3>1. Begun' = Begun
      BY <1>0 DEF Begun, callVars
    <3>2. OnTheWay' \subseteq OnTheWay
      BY <1>3 DEF OnTheWay
    <3> QED
      BY <3>1, <3>2
  <2>1. CASE issued' = issued
    BY <2>0, <2>1, <1>0, CountStep DEF TypeOK
  <2>2. CASE Opens
    <3> DEFINE before == Begun \ OnTheWay
               after == Begun \ OnTheWay'
    <3>1. r.from \notin before /\ before \cup {r.from} \subseteq after /\ r.from \in Begun
      <4>1. r.from \notin OnTheWay'
        <5>1. r.from # Timer
          BY <2>2, <1>4 DEF RequestOk
        <5> QED
          BY <5>1, <1>3 DEF OnTheWay, OneMessage
      <4> QED
        BY <4>1, <2>0, <2>2, <1>5
    <3>2. IsFiniteSet(Begun) /\ Cardinality(Begun) \in Nat /\ Cardinality(Begun) <= MaxTx
      BY FS_CardinalityType DEF CountInv
    <3>3. IsFiniteSet(before) /\ Cardinality(before) \in Nat /\ IsFiniteSet(after) /\ Cardinality(after) \in Nat
      BY <3>2, FS_Subset, FS_CardinalityType
    <3>4. Cardinality(before \cup {r.from}) = Cardinality(before) + 1
      BY <3>1, <3>3, FS_AddElement
    <3>5. Cardinality(before \cup {r.from}) <= Cardinality(after)
      BY <3>1, <3>3, FS_Subset
    <3>6. Cardinality(after) <= Cardinality(Begun)
      BY <3>2, FS_Subset
    <3>7. issued' = issued + 1 /\ issued <= Cardinality(before)
      BY <2>2 DEF ManagerBegin, CountInv
    <3>8. issued' <= Cardinality(after) /\ issued' <= MaxTx
      <4> HIDE DEF before, after
      <4> QED
        BY <1>0, <3>2, <3>3, <3>4, <3>5, <3>6, <3>7
    <3> QED
      BY <1>0, <2>0, <3>2, <3>7, <3>8 DEF CountInv
  <2> QED
    BY <1>1, <2>1, <2>2 DEF ManagerFinish
<1>7. /\ r.method = "begin" => /\ issued' = issued + 1 /\ open' = open \cup {issued + 1}
                               /\ UNCHANGED <<committed, rolledBack>>
      /\ r.method # "begin" =>
            /\ issued' = issued
            /\ open' = open \ {r.id}
            /\ r.id \in open /\ r.method = "commit" =>
                 committed' = committed \cup {r.id} /\ rolledBack' = rolledBack
            /\ r.id \in open /\ r.method = "rollback" =>
                 committed' = committed /\ rolledBack' = rolledBack \cup {r.id}
            /\ r.id \notin open => UNCHANGED <<committed, rolledBack>>
  BY <1>4 DEF EditorHandles, ManagerBegin, ManagerFinish, Methods
<1> PICK q : q = [from |-> r.from, ok |-> ok, id |-> IF idKind = "number" THEN newId ELSE None]
  OBVIOUS
<1>8. /\ q \in Replies
      /\ q.from = r.from /\ q.ok = ok /\ q.id \in {newId, None}
  <2>1. newId \in Ids \cup {None}
    BY <1>4, <1>6, <1>7, <1>0 DEF Ids
  <2> QED
    BY <2>1, <1>4 DEF Replies
<1>9. PICK n : /\ toServer' \in Seq(Replies)
               /\ Answered' = Answered \cup {n} /\ n \notin Answered
               /\ \A i \in Answered : toServer'[i] = toServer[i]
               /\ toServer'[n] = q
  <2>1. toServer' = Append(toServer, q)
    BY <1>2 DEF EditorReply
  <2>2. /\ Append(toServer, q) \in Seq(Replies) /\ Append(toServer, q)[Len(toServer) + 1] = q
        /\ \A i \in 1 .. Len(toServer) : Append(toServer, q)[i] = toServer[i]
        /\ 1 .. Len(Append(toServer, q)) = 1 .. Len(toServer) \cup {Len(toServer) + 1}
        /\ Len(toServer) + 1 \notin 1 .. Len(toServer)
    BY <1>0, <1>8, Appended
  <2> QED
    BY <2>1, <2>2 DEF Answered
<1>10. /\ committed \subseteq committed' /\ rolledBack \subseteq rolledBack'
       /\ open \subseteq open' \cup (IF r.method = "begin" THEN {} ELSE {r.id})
       /\ q.ok /\ r.method = "commit" => r.id \in committed'
       /\ q.ok /\ r.method = "rollback" => r.id \in rolledBack'
       /\ r.method = "begin" /\ q.id # None => q.id \in open' \ (1 .. issued)
  <2>1. CASE r.method = "begin"
    <3>1. q.id # None => q.id = issued + 1
      BY <2>1, <1>8
    <3> QED
      BY <2>1, <3>1, <1>0, <1>7
  <2>2. CASE r.method # "begin"
    BY <2>2, <1>4, <1>7, <1>8 DEF Methods
  <2> QED
    BY <2>1, <2>2
<1>11. RequestsInv' /\ RepliesInv' /\ OneMessage'
  <2>1. issued' \in Nat
    BY <1>6
  <2>2. UNCHANGED <<stage, method, target, active, timedOut, forgotten>>
    BY <1>0 DEF callVars, executorVars
  <2> HIDE DEF TxInv
  <2> QED
    BY <1>0, <1>3, <1>6, <1>8, <1>9, <1>10, <2>1, <2>2, EditorHandlesMessages
<1>12. IdsInv'
  <2>1. UNCHANGED <<active, timedOut, forgotten>>
    BY <1>0 DEF executorVars
  <2>2. CASE r.method = "begin"
    BY <2>1, <2>2, <1>0, <1>7 DEF IdsInv
  <2>3. CASE r.method # "begin"
    BY <2>1, <2>3, <1>0, <1>4, <1>5, <1>7 DEF IdsInv, Methods
  <2> QED
    BY <2>2, <2>3
<1>13. TypeOK' /\ CallsInv'
  <2>1. open' \subseteq Ids /\ committed' \subseteq Ids /\ rolledBack' \subseteq Ids
    BY <1>6, <1>12 DEF IdsInv, Ids, TypeOK
  <2> QED
    BY <1>0, <1>3, <1>6, <1>9, <2>1 DEF TypeOK, CallsInv, callVars, executorVars
<1>14. SuccessInv'
  BY <1>0, <1>10 DEF SuccessInv, callVars
<1>15. ExpiredInv'
  <2>1. Expired' = Expired /\ active' = active
    BY <1>0 DEF Expired, callVars, executorVars
  <2>2. committed' \subseteq committed \cup (IF r.method = "commit" THEN {r.id} ELSE {})
    BY <1>4, <1>7 DEF Methods
  <2>3. \A i \in Answered' : NewId(toServer[i])' => toServer'[i].id \notin Expired
    <3>1. ASSUME NEW i \in Answered, NewId(toServer[i])' PROVE toServer'[i].id \notin Expired
      BY <3>1, <1>0, <1>9 DEF ExpiredInv, NewId, callVars
    <3>2. ASSUME NewId(toServer[n])' PROVE toServer'[n].id \notin Expired
      <4>1. r.method = "begin" /\ q.id # None
        BY <3>2, <1>0, <1>4, <1>8, <1>9 DEF NewId, RequestOk, callVars
      <4> QED
        BY <4>1, <1>9, <1>10 DEF ExpiredInv
    <3> QED
      BY <3>1, <3>2, <1>9
  <2>4. \A i \in Requested' : toEditor'[i].method = "commit" => toEditor'[i].id \notin Expired
    BY <1>3 DEF ExpiredInv
  <2>5. \A id \in Expired : id \notin committed' /\ id \notin active /\ id \in 1 .. issued'
    BY <2>2, <1>0, <1>5, <1>6 DEF ExpiredInv
  <2> QED
    BY <2>1, <2>3, <2>4, <2>5 DEF ExpiredInv
<1> QED
  BY <1>6, <1>11, <1>12, <1>13, <1>14, <1>15
\* The handler goes on with the reply: for nobody, to its end or the runtime, or with a
\* new transaction.
LEMMA ReplyArrivesInv == ASSUME TxInv, ReplyArrives PROVE TxInv'
<1> USE TimerIsNoCall, TransactionAssumption DEF TxInv
<1> PICK q : q = Head(toServer)
  OBVIOUS
<1> DEFINE c == q.from
           Nobody == c = Timer /\ UNCHANGED <<callVars, executorVars>>
           Ends == /\ c # Timer /\ UNCHANGED <<method, target, executorVars>>
                   /\ \/ Settle(c, "failed")
                      \/ Settle(c, "ok") /\ method[c] # "begin" /\ q.ok
                      \/ Await(c, "runtime") /\ method[c] = "commit" /\ q.ok
           Opens == /\ c # Timer /\ NewId(q) /\ UNCHANGED method
                    /\ Opened(q.id) /\ target' = [target EXCEPT ![c] = q.id] /\ Settle(c, "ok")
<1>0. /\ toServer \in Seq(Replies) /\ toServer # <<>> /\ toServer' = Tail(toServer)
      /\ UNCHANGED <<linkUp, toEditor, editorVars, faults>>
  BY DEF ReplyArrives, TypeOK
<1>1. Nobody \/ Ends \/ Opens
  BY DEF ReplyArrives, Settled, HasId, NewId
<1>2. /\ toServer' \in Seq(Replies) /\ q = toServer[1] /\ 1 \in Answered
      /\ \A i \in Answered' : i + 1 \in Answered /\ i + 1 # 1 /\ toServer'[i] = toServer[i + 1]
      /\ \A i, j \in Answered' : i # j => i + 1 # j + 1
  BY <1>0, Shifted DEF Answered
<1>3. /\ c \in Calls \cup {Timer} /\ q.ok \in BOOLEAN /\ q.id \in Ids \cup {None}
      /\ ReplyOk(1)
  BY <1>2, MessageTypes DEF RepliesInv
<1>4. /\ c # Timer => stage[c] = "editor" /\ result[c] = "none"
      /\ NewId(q) => /\ q.id \in Ids /\ q.id # None
                     /\ q.id \in open \cup forgotten
                     /\ q.id \notin Expired
                     /\ method[c] = "begin"
  <2>1. c # Timer => stage[c] = "editor"
    BY <1>2, <1>3 DEF ReplyOk
  <2>2. c # Timer => result[c] = "none"
    BY <2>1, <1>3 DEF CallsInv
  <2>3. NewId(q) => q.id \in open \cup forgotten /\ q.id \notin Expired
    BY <1>2, <1>3 DEF ReplyOk, ExpiredInv
  <2> QED
    BY <2>1, <2>2, <2>3, <1>3 DEF NewId
<1>5. \A d \in Calls : d # c => UNCHANGED <<stage[d], method[d], target[d], result[d]>>
  BY <1>1 DEF TypeOK, Settle, Await, callVars
<1>6. /\ method' = method
      /\ active' \subseteq active \cup (IF NewId(q) THEN {q.id} ELSE {})
      /\ timers' \subseteq timers \cup (IF NewId(q) THEN {q.id} ELSE {})
      /\ timedOut' = timedOut /\ hasOpenTransaction' \in BOOLEAN
  BY <1>1 DEF callVars, executorVars, Opened, TypeOK
<1>7. c # Timer => /\ result'[c] # "expired"
                   /\ result'[c] # "nested"
                   /\ result'[c] = "none" \/ stage'[c] = "settled"
  BY <1>1, <1>4, <1>3 DEF Settle, Await, TypeOK
<1>8. TypeOK'
  <2>1. stage' \in [Calls -> {"idle", "editor", "runtime", "settled"}]
        /\ result' \in [Calls -> Results \cup {"none"}]
        /\ answer' \in [Calls -> {"none", "result", "timeout"}]
    <3>1. stage' \in [Calls -> {"idle", "editor", "runtime", "settled"}]
      BY <1>1, <1>3 DEF TypeOK, Settle, Await, callVars
    <3>2. result' \in [Calls -> Results \cup {"none"}]
      BY <1>1, <1>3 DEF TypeOK, Settle, Await, Results, callVars
    <3>3. answer' \in [Calls -> {"none", "result", "timeout"}]
      BY <1>1, <1>3 DEF TypeOK, Settle, Await, callVars
    <3> QED
      BY <3>1, <3>2, <3>3
  <2>2. target' \in [Calls -> Ids \cup {None}]
    BY <1>1, <1>3 DEF TypeOK, callVars
  <2>3. active' \subseteq Ids /\ timers' \subseteq Ids
    BY <1>4, <1>6 DEF TypeOK
  <2> QED
    BY <1>0, <1>2, <1>6, <2>1, <2>2, <2>3 DEF TypeOK, editorVars
<1>9. CallsInv'
  <2>1. c # Timer => /\ stage'[c] # "idle" /\ method[c] # "none"
                     /\ stage'[c] = "settled" <=> result'[c] # "none"
                     /\ stage'[c] = "runtime" => method[c] = "commit"
                     /\ method[c] = "begin" /\ result'[c] # "ok" => target'[c] = None
    BY <1>1, <1>3, <1>4 DEF Settle, Await, TypeOK, CallsInv, callVars
  <2> QED
    BY <1>5, <1>6, <1>3, <2>1 DEF CallsInv
<1>10. RequestsInv' /\ RepliesInv' /\ OneMessage'
  <2>1. UNCHANGED <<toEditor, method, open, forgotten, issued, timedOut, committed, rolledBack>>
    BY <1>0, <1>6 DEF editorVars
  <2>2. \A d \in Calls : d # q.from => UNCHANGED <<stage[d], target[d]>>
    BY <1>5
  <2> HIDE DEF TxInv
  <2> QED
    BY <1>2, <1>6, <2>1, <2>2, ReplyTaken
<1>11. IdsInv'
  BY <1>0, <1>4, <1>6 DEF IdsInv, editorVars
<1>12. ExpiredInv'
  <2>1. \A d \in Calls : result'[d] = "expired" => result[d] = "expired" /\ target'[d] = target[d]
    BY <1>3, <1>5, <1>7
  <2>2. \A d \in Calls : result[d] = "expired" => result'[d] = "expired" /\ target'[d] = target[d]
    BY <1>3, <1>4, <1>5
  <2>3. Expired' = Expired
    BY <2>1, <2>2, <1>6 DEF Expired
  <2>4. \A i \in Answered' : NewId(toServer[i])' => toServer'[i].id \notin Expired
    BY <1>2, <1>6 DEF ExpiredInv, NewId
  <2> QED
    BY <2>3, <2>4, <1>0, <1>4, <1>6 DEF ExpiredInv, editorVars, Requested
<1>13. SuccessInv'
  <2>1. c # Timer /\ (result'[c] = "ok" \/ stage'[c] = "runtime") =>
          /\ method[c] = "commit" => target'[c] \in committed
          /\ method[c] = "rollback" => target'[c] \in rolledBack
          /\ method[c] = "begin" => target'[c] # None
    <3>1. CASE Ends
      <4>1. c # Timer /\ c \in Calls /\ stage[c] = "editor" /\ result[c] = "none" /\ target' = target
        BY <3>1, <1>3, <1>4
      <4>2. result'[c] = "ok" \/ stage'[c] = "runtime" => q.ok /\ method[c] # "begin"
        BY <3>1, <4>1 DEF Settle, Await, TypeOK
      <4>3. /\ q.ok /\ method[c] = "commit" => target[c] \in committed
            /\ q.ok /\ method[c] = "rollback" => target[c] \in rolledBack
        BY <4>1, <1>2, <1>3 DEF ReplyOk
      <4> QED
        BY <4>1, <4>2, <4>3
    <3>2. CASE Opens
      <4>1. c # Timer /\ c \in Calls /\ method[c] = "begin" /\ target'[c] # None
        BY <3>2, <1>3, <1>4 DEF TypeOK
      <4> QED
        BY <4>1
    <3>3. CASE Nobody
      BY <3>3
    <3> QED
      BY <3>1, <3>2, <3>3, <1>1
  <2> QED
    BY <2>1, <1>0, <1>3, <1>5, <1>6 DEF SuccessInv, editorVars
<1>14. CountInv'
  <2>1. Begun' = Begun
    BY <1>3, <1>4, <1>5, <1>6, <1>7 DEF Begun
  <2>2. OnTheWay' = OnTheWay
    BY <1>0 DEF OnTheWay, Requested
  <2> QED
    BY <2>1, <2>2, <1>0, CountStep DEF editorVars
<1> QED
  BY <1>8, <1>9, <1>10, <1>11, <1>12, <1>13, <1>14

\* The router answers for a handler that goes on.
LEMMA RouterTimeoutInv == ASSUME TxInv, NEW c \in Calls, RouterTimeout(c) PROVE TxInv'
<1> USE TimerIsNoCall, TransactionAssumption DEF TxInv
<1>1. /\ answer' \in [Calls -> {"none", "result", "timeout"}]
      /\ UNCHANGED <<method, target, stage, result, active, timedOut, hasOpenTransaction, timers,
                     linkUp, toEditor, toServer, open, issued, idKind, committed, rolledBack,
                     forgotten, exposed, faults>>
  BY DEF RouterTimeout, TypeOK, executorVars, channelVars, editorVars
<1>2. Requested' = Requested /\ Answered' = Answered /\ Expired' = Expired /\ Begun' = Begun
      /\ OnTheWay' = OnTheWay /\ \A i \in Answered : NewId(toServer[i])' <=> NewId(toServer[i])
  BY <1>1 DEF Requested, Answered, Expired, Begun, OnTheWay, NewId
<1>3. RequestsInv' /\ RepliesInv' /\ OneMessage'
  BY <1>1, Frame DEF channelVars
<1>4. TypeOK' /\ CallsInv' /\ IdsInv' /\ SuccessInv'
  BY <1>1 DEF TypeOK, CallsInv, IdsInv, SuccessInv
<1>5. ExpiredInv' /\ CountInv'
  BY <1>1, <1>2 DEF ExpiredInv, CountInv
<1> QED
  BY <1>3, <1>4, <1>5

\* The runtime has answered, or not: the commit is a success either way.
LEMMA RuntimeAckInv == ASSUME TxInv, NEW c \in Calls, RuntimeAck(c) PROVE TxInv'
<1> USE TimerIsNoCall, TransactionAssumption DEF TxInv
<1>1. /\ stage[c] = "runtime" /\ method[c] = "commit" /\ result[c] = "none"
      /\ Settle(c, "ok")
      /\ UNCHANGED <<method, target, active, timedOut, hasOpenTransaction, timers,
                     linkUp, toEditor, toServer, open, issued, idKind, committed, rolledBack,
                     forgotten, exposed, faults>>
  BY DEF RuntimeAck, CallsInv, executorVars, channelVars, editorVars
<1>2. \A d \in Calls : d # c => UNCHANGED <<stage[d], result[d]>>
  BY <1>1 DEF Settle, TypeOK
<1>3. stage'[c] = "settled" /\ result'[c] = "ok"
  BY <1>1 DEF Settle, TypeOK
<1>4. Requested' = Requested /\ Answered' = Answered /\ Expired' = Expired /\ Begun' = Begun
      /\ OnTheWay' = OnTheWay /\ \A i \in Answered : NewId(toServer[i])' <=> NewId(toServer[i])
  BY <1>1, <1>2, <1>3 DEF Requested, Answered, Expired, Begun, OnTheWay, NewId
<1>5. RequestsInv' /\ RepliesInv' /\ OneMessage'
  BY <1>1, <1>2, Frame DEF channelVars
<1>6. TypeOK'
  BY <1>1 DEF TypeOK, Settle, Results
<1>7. CallsInv' /\ IdsInv' /\ SuccessInv'
  BY <1>1, <1>2, <1>3 DEF CallsInv, IdsInv, SuccessInv
<1>8. ExpiredInv' /\ CountInv'
  BY <1>1, <1>4 DEF ExpiredInv, CountInv
<1> QED
  BY <1>5, <1>6, <1>7, <1>8

\* A loss empties both directions and rejects what was in the editor's hands.
LEMMA LossInv == ASSUME TxInv, LinkDrops \/ EditorRestarts PROVE TxInv'
<1> USE TimerIsNoCall, TransactionAssumption DEF TxInv
<1>1. /\ LinkLost
      /\ \/ UNCHANGED <<open, forgotten>>
         \/ open' = {} /\ forgotten' = forgotten \cup open
  BY DEF LinkDrops, EditorRestarts
<1>2. /\ toEditor' = <<>> /\ toServer' = <<>> /\ linkUp' = FALSE
      /\ exposed' = exposed \cup open /\ faults < MaxFaults /\ faults' = faults + 1
      /\ UNCHANGED <<method, target, active, timedOut, hasOpenTransaction, timers, issued, idKind,
                     committed, rolledBack>>
      /\ \A d \in Calls : /\ stage'[d] = IF stage[d] = "editor" THEN "settled" ELSE stage[d]
                          /\ result'[d] = IF stage[d] = "editor" THEN "failed" ELSE result[d]
  BY <1>1 DEF LinkLost, executorVars
<1>3. Requested' = {} /\ Answered' = {}
  BY <1>2 DEF Requested, Answered
<1>4. RequestsInv' /\ RepliesInv' /\ OneMessage'
  BY <1>3 DEF RequestsInv, RepliesInv, OneMessage
<1>5. TypeOK'
  <2>1. /\ stage' \in [Calls -> {"idle", "editor", "runtime", "settled"}]
        /\ result' \in [Calls -> Results \cup {"none"}]
        /\ answer' \in [Calls -> {"none", "result", "timeout"}]
    BY <1>1 DEF LinkLost, TypeOK, Results
  <2>2. toEditor' \in Seq(Requests) /\ toServer' \in Seq(Replies)
    BY <1>2
  <2>3. faults' \in 0 .. MaxFaults
    BY <1>2 DEF TypeOK
  <2>4. open' \subseteq Ids /\ forgotten' \subseteq exposed' /\ exposed' \subseteq Ids
    BY <1>1, <1>2 DEF TypeOK
  <2>5. linkUp' \in BOOLEAN
    BY <1>2
  <2> QED
    BY <1>2, <2>1, <2>2, <2>3, <2>4, <2>5 DEF TypeOK
<1>6. CallsInv'
  BY <1>2 DEF CallsInv
<1>7. IdsInv'
  BY <1>1, <1>2 DEF IdsInv
<1>8. SuccessInv'
  BY <1>2 DEF SuccessInv
<1>9. ExpiredInv'
  <2>1. \A d \in Calls : result'[d] = "expired" => result[d] = "expired"
    BY <1>2
  <2>2. Expired' \subseteq Expired
    BY <1>2, <2>1 DEF Expired
  <2> QED
    BY <1>2, <1>3, <2>2 DEF ExpiredInv
<1>10. CountInv'
  <2>1. Begun' = Begun
    BY <1>2 DEF Begun, CallsInv
  <2>2. OnTheWay' = {}
    BY <1>3 DEF OnTheWay
  <2> QED
    BY <1>2, <2>1, <2>2, CountStep
<1> QED
  BY <1>4, <1>5, <1>6, <1>7, <1>8, <1>9, <1>10

\* The channel returns with nothing under way.
LEMMA UntouchedInv == ASSUME TxInv, LinkReturns \/ UNCHANGED vars PROVE TxInv'
<1> USE TimerIsNoCall, TransactionAssumption DEF TxInv
<1>1. /\ linkUp' \in BOOLEAN
      /\ UNCHANGED <<method, target, stage, result, answer, active, timedOut, hasOpenTransaction, timers,
                     toEditor, toServer, open, issued, idKind, committed, rolledBack,
                     forgotten, exposed, faults>>
  BY DEF LinkReturns, vars, TypeOK, callVars, executorVars, channelVars, editorVars
<1>2. TypeOK' /\ CallsInv' /\ IdsInv' /\ SuccessInv'
  BY <1>1 DEF TypeOK, CallsInv, IdsInv, SuccessInv
<1>3. Requested' = Requested /\ Answered' = Answered /\ Expired' = Expired /\ Begun' = Begun
      /\ OnTheWay' = OnTheWay /\ \A i \in Answered : NewId(toServer[i])' <=> NewId(toServer[i])
  BY <1>1 DEF Requested, Answered, Expired, Begun, OnTheWay, NewId
<1>4. RequestsInv' /\ RepliesInv' /\ OneMessage' /\ ExpiredInv' /\ CountInv'
  BY <1>1, <1>3 DEF RequestsInv, RequestOk, RepliesInv, ReplyOk, OneMessage, ExpiredInv, CountInv
<1> QED
  BY <1>2, <1>4

\* The server starts.
LEMMA InitInv == Init => TxInv
<1> SUFFICES ASSUME Init PROVE TxInv
  OBVIOUS
<1> USE TransactionAssumption
<1>1. Requested = {} /\ Answered = {} /\ Begun = {} /\ OnTheWay = {} /\ Expired = {}
  BY DEF Init, Requested, Answered, Begun, OnTheWay, Expired
<1>2. TypeOK
  <2>1. toEditor \in Seq(Requests) /\ toServer \in Seq(Replies)
    BY DEF Init
  <2>2. issued \in 0 .. MaxTx /\ faults \in 0 .. MaxFaults
    BY DEF Init
  <2>3. /\ method \in [Calls -> Methods \cup {"none"}] /\ target \in [Calls -> Ids \cup {None}]
        /\ stage \in [Calls -> {"idle", "editor", "runtime", "settled"}]
        /\ result \in [Calls -> Results \cup {"none"}]
        /\ answer \in [Calls -> {"none", "result", "timeout"}]
    BY DEF Init
  <2> QED
    BY <2>1, <2>2, <2>3 DEF Init, TypeOK
<1>3. CallsInv /\ IdsInv /\ SuccessInv
  BY DEF Init, CallsInv, IdsInv, SuccessInv
<1>4. RequestsInv /\ RepliesInv /\ OneMessage /\ ExpiredInv
  BY <1>1 DEF RequestsInv, RepliesInv, OneMessage, ExpiredInv
<1>5. CountInv
  BY <1>1, FS_EmptySet DEF CountInv, Init
<1> QED
  BY <1>2, <1>3, <1>4, <1>5 DEF TxInv

-----------------------------------------------------------------------------
\* Every step preserves the invariant.
LEMMA Inductive == Spec => []TxInv
<1>1. ASSUME TxInv, [Next]_vars PROVE TxInv'
  <2>1. CASE ClientNext
    BY <1>1, <2>1, BeginInv, FinishInv DEF ClientNext
  <2>2. CASE ServerNext
    BY <1>1, <2>2, AutoRollbackInv, RouterTimeoutInv, ReplyArrivesInv, RuntimeAckInv DEF ServerNext
  <2>3. CASE EditorHandles
    BY <1>1, <2>3, EditorHandlesInv
  <2>4. CASE Environment
    BY <1>1, <2>4, LossInv, UntouchedInv DEF Environment
  <2>5. CASE UNCHANGED vars
    BY <1>1, <2>5, UntouchedInv
  <2> QED
    BY <1>1, <2>1, <2>2, <2>3, <2>4, <2>5 DEF Next
<1> QED
  BY <1>1, InitInv, PTL DEF Spec

\* The fields of the executor, of the channel and of the TransactionManager keep their
\* types, and the editor never hands out more ids than begins were sent.
THEOREM TypeCorrect == Spec => []TypeOK
BY Inductive, PTL DEF TxInv

\* Whatever the executor still lets a client finish exists in the editor, unless the editor
\* was restarted: no interleaving of replies, timers and commits revives a finished id.
THEOREM ActiveTransactionsExist == Spec => []ActiveIsOpen
<1>1. TxInv => ActiveIsOpen
  BY DEF TxInv, IdsInv, ActiveIsOpen
<1> QED
  BY <1>1, Inductive, PTL

\* A client that was told TRANSACTION_TIMEOUT never finds the transaction committed,
\* although commits of other calls race the auto-rollback timer.
THEOREM TimeoutIsFinal == Spec => []ExpiredNotCommitted
<1>1. TxInv => ExpiredNotCommitted
  BY DEF TxInv, ExpiredInv, Expired, ExpiredNotCommitted
<1> QED
  BY <1>1, Inductive, PTL

\* A commit or rollback that reports success has happened in the editor, even though the
\* ids, the replies and the commit's detour over the runtime interleave.
THEOREM ResultsAreTrue == Spec => []ResultIsTrue
<1>1. TxInv => ResultIsTrue
  BY DEF TxInv, SuccessInv, ResultIsTrue
<1> QED
  BY <1>1, Inductive, PTL
=============================================================================
