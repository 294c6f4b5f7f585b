----------------------------- MODULE RpcChannel -----------------------------
(***************************************************************************)
(* What a channel client promises the code that calls it, without sockets, *)
(* timers or retries: a link that is up or down, and requests whose        *)
(* promise settles at most once, only while the link is up, and at the     *)
(* latest when the link goes down.                                         *)
(***************************************************************************)
CONSTANT Request

VARIABLES
  up,       \* isConnected()
  result    \* the state of every request's promise

Result == {"none", "waiting", "resolved", "rejected"}

TypeOK == up \in BOOLEAN /\ result \in [Request -> Result]

Init == up = FALSE /\ result = [r \in Request |-> "none"]

Connect == ~up /\ up' = TRUE /\ UNCHANGED result

\* A request is taken only while the link is up; the transport may refuse it at once.
Submit(r) ==
  /\ up /\ result[r] = "none"
  /\ \E o \in {"waiting", "rejected"} : result' = [result EXCEPT ![r] = o]
  /\ UNCHANGED up

Answer(r) ==
  /\ up /\ result[r] = "waiting"
  /\ \E o \in {"resolved", "rejected"} : result' = [result EXCEPT ![r] = o]
  /\ UNCHANGED up

\* The link goes down and settles everything that was waiting, in one step.
Drop ==
  /\ up /\ up' = FALSE
  /\ result' = [r \in Request |-> IF result[r] = "waiting" THEN "rejected" ELSE result[r]]

Next == Connect \/ Drop \/ \E r \in Request : Submit(r) \/ Answer(r)

Spec == Init /\ [][Next]_<<up, result>>

\* A link that is down owes nobody an answer.
NoneWaitingWhenDown == ~up => \A r \in Request : result[r] # "waiting"
=============================================================================
