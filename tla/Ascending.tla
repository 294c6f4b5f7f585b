----------------------------- MODULE Ascending -----------------------------
(***************************************************************************)
(* Finite sets of numbers written as increasing sequences: what sorting by *)
(* a unique number, or taking things in the order of arrival, returns.     *)
(***************************************************************************)
EXTENDS Naturals, Sequences, FiniteSets, SequencesExt, Functions

IsAscending(s) == \A j, k \in DOMAIN s : j < k => s[j] < s[k]

\* The elements of S, each once, the smallest first.
Ascending(S) == CHOOSE s \in [1 .. Cardinality(S) -> S] : IsAscending(s) /\ S \subseteq ToSet(s)

\* The members of a finite set in the order of their keys.
ByKey(P, key) ==
  CHOOSE p \in Bijection(1 .. Cardinality(P), P) :
    \A i, j \in DOMAIN p : i < j => key[p[i]] <= key[p[j]]

\* Array.filter() and Array.sort(): what is kept of a sequence, and a sequence by its keys.
Filtered(s, S)   == LET at == Ascending({i \in DOMAIN s : s[i] \in S}) IN [k \in DOMAIN at |-> s[at[k]]]
SortedBy(s, key) == LET at == ByKey(DOMAIN s, key) IN [k \in DOMAIN at |-> s[at[k]]]
=============================================================================
