---------------------------- MODULE PartsProofs ----------------------------
(***************************************************************************)
(* What is proved of the parts of the workbench, each alone: the hook that *)
(* guards a commit, the installer of git hooks, the check of module        *)
(* versions, the writers of project files, the start of servers, the       *)
(* editor plugin, and what an operator reads from the health endpoint; for *)
(* any number of runs, calls, processes, files, requests, scenes, pings,   *)
(* lines and samples, and any failures.  Loops are folds: what FoldLemmas  *)
(* says of any operator is used for each of theirs.                        *)
(***************************************************************************)
EXTENDS PreCommit, HookInstaller, ModuleTools, ProjectFiles, ServerBoot, EditorSide, Observability,
        AscendingProofs, FiniteSetTheorems, SequenceTheorems, TLAPS

-----------------------------------------------------------------------------
(* The hook that guards a commit: what counts as a change of a section,    *)
(* and that no commit passes without one, for documents of any length, any *)
(* edits and any context map.                                              *)

\* An edited document: what is left of the committed one is in its old order.
Line(l, w) == [depth |-> l.depth, slug |-> l.slug, was |-> w]
DocLine == [depth : Nat, slug : {l.slug : l \in DocLines}, was : Nat]
DocInv(old, doc) ==
  /\ old \in Seq(DocLines) /\ doc \in Seq(DocLine)
  /\ \A k \in DOMAIN doc : doc[k].was # 0 => doc[k].was \in DOMAIN old /\ doc[k] = Line(old[doc[k].was], doc[k].was)
  /\ \A j, k \in DOMAIN doc : (j < k /\ doc[j].was # 0 /\ doc[k].was # 0) => doc[j].was < doc[k].was

\* The exit code stands for what was staged: nothing is edited after the commit.
CommitInv ==
  /\ \A f \in ContextFiles : DocInv(committed[f], index[f])
  /\ index = [f \in ContextFiles |-> index[f]]
  /\ \A f \in ContextFiles \ staged : index[f] = Placed(committed[f])
  /\ exits.preCommit \in {NotRun, preCommit}

\* A sequence with one element more.
LEMMA InsertIs ==
  ASSUME NEW S, NEW q \in Seq(S), NEW k \in 0 .. Len(q), NEW e \in S
  PROVE  /\ InsertAt(q, k + 1, e) \in Seq(S) /\ Len(InsertAt(q, k + 1, e)) = Len(q) + 1
         /\ \A i \in 1 .. Len(q) + 1 :
              InsertAt(q, k + 1, e)[i] = IF i <= k THEN q[i] ELSE IF i = k + 1 THEN e ELSE q[i - 1]
<1> DEFINE a == SubSeq(q, 1, k)
           b == SubSeq(q, k + 1, Len(q))
<1>1. a \in Seq(S) /\ Len(a) = k /\ \A i \in 1 .. k : a[i] = q[i]
  OBVIOUS
<1>2. b \in Seq(S) /\ Len(b) = Len(q) - k /\ \A i \in 1 .. Len(q) - k : b[i] = q[k + i]
  OBVIOUS
<1>3. InsertAt(q, k + 1, e) = (a \o <<e>>) \o b
  <2>1. (k + 1) - 1 = k
    OBVIOUS
  <2> QED BY <2>1 DEF InsertAt
<1> HIDE DEF a, b
<1>4. <<e>> \in Seq(S) /\ Len(<<e>>) = 1 /\ <<e>>[1] = e
  OBVIOUS
<1> DEFINE c == a \o <<e>>
<1>5. c \in Seq(S) /\ Len(c) = k + 1 /\ \A i \in 1 .. k + 1 : c[i] = IF i <= k THEN q[i] ELSE e
  BY <1>1, <1>4
<1> HIDE DEF c
<1> DEFINE r == c \o b
<1>6. r \in Seq(S) /\ Len(r) = Len(c) + Len(b)
      /\ \A i \in 1 .. Len(c) + Len(b) : r[i] = IF i <= Len(c) THEN c[i] ELSE b[i - Len(c)]
  BY <1>2, <1>5, ConcatProperties
<1> HIDE DEF r
<1>7. Len(r) = Len(q) + 1 /\ \A i \in 1 .. Len(q) + 1 : i > k + 1 => i - (k + 1) \in 1 .. Len(q) - k /\ k + (i - (k + 1)) = i - 1
  BY <1>2, <1>5, <1>6
<1>8. ASSUME NEW i \in 1 .. Len(q) + 1
      PROVE  r[i] = IF i <= k THEN q[i] ELSE IF i = k + 1 THEN e ELSE q[i - 1]
  <2>1. r[i] = IF i <= k + 1 THEN c[i] ELSE b[i - (k + 1)]
    BY <1>2, <1>5, <1>6
  <2>2. CASE i <= k + 1
    BY <1>5, <2>1, <2>2
  <2>3. CASE i > k + 1
    <3>1. i - (k + 1) \in 1 .. Len(q) - k /\ k + (i - (k + 1)) = i - 1
      BY <1>7, <2>3
    <3>2. b[i - (k + 1)] = q[i - 1]
      BY <1>2, <3>1
    <3> QED BY <2>1, <2>3, <3>2
  <2> QED BY <2>2, <2>3
<1>9. InsertAt(q, k + 1, e) = r
  BY <1>3 DEF c, r
<1> QED
  BY <1>6, <1>7, <1>8, <1>9

\* And with one less.
LEMMA RemoveIs ==
  ASSUME NEW S, NEW q \in Seq(S), NEW k \in 1 .. Len(q)
  PROVE  /\ RemoveAt(q, k) \in Seq(S) /\ Len(RemoveAt(q, k)) = Len(q) - 1
         /\ \A i \in 1 .. Len(q) - 1 : RemoveAt(q, k)[i] = IF i < k THEN q[i] ELSE q[i + 1]
<1> DEFINE a == SubSeq(q, 1, k - 1)
           b == SubSeq(q, k + 1, Len(q))
<1>1. a \in Seq(S) /\ Len(a) = k - 1 /\ \A i \in 1 .. k - 1 : a[i] = q[i]
  OBVIOUS
<1>2. b \in Seq(S) /\ Len(b) = Len(q) - k /\ \A i \in 1 .. Len(q) - k : b[i] = q[k + i]
  OBVIOUS
<1>3. RemoveAt(q, k) = a \o b
  BY DEF RemoveAt
<1> HIDE DEF a, b
<1> DEFINE r == a \o b
<1>4. r \in Seq(S) /\ Len(r) = Len(a) + Len(b)
      /\ \A i \in 1 .. Len(a) + Len(b) : r[i] = IF i <= Len(a) THEN a[i] ELSE b[i - Len(a)]
  BY <1>1, <1>2, ConcatProperties
<1> HIDE DEF r
<1>5. Len(r) = Len(q) - 1 /\ \A i \in 1 .. Len(q) - 1 : i >= k => i - (k - 1) \in 1 .. Len(q) - k /\ k + (i - (k - 1)) = i + 1
  BY <1>1, <1>2, <1>4
<1>6. ASSUME NEW i \in 1 .. Len(q) - 1 PROVE r[i] = IF i < k THEN q[i] ELSE q[i + 1]
  <2>1. r[i] = IF i <= k - 1 THEN a[i] ELSE b[i - (k - 1)]
    BY <1>1, <1>2, <1>4
  <2>2. CASE i < k
    BY <1>1, <2>1, <2>2
  <2>3. CASE i >= k
    <3>1. i - (k - 1) \in 1 .. Len(q) - k /\ k + (i - (k - 1)) = i + 1
      BY <1>5, <2>3
    <3>2. b[i - (k - 1)] = q[i + 1]
      BY <1>2, <3>1
    <3> QED BY <2>1, <2>3, <3>2
  <2> QED BY <2>2, <2>3
<1>7. RemoveAt(q, k) = r
  BY <1>3 DEF r
<1> QED
  BY <1>4, <1>5, <1>6, <1>7

\* The committed document is one that nobody has edited.
LEMMA PlacedInv ==
  ASSUME NEW old \in Seq(DocLines) PROVE DocInv(old, Placed(old))
<1>1. \A k \in DOMAIN old : old[k] \in DocLines /\ k \in Nat
  OBVIOUS
<1>2. DOMAIN Placed(old) = 1 .. Len(old) /\ \A k \in 1 .. Len(old) : Placed(old)[k] = Line(old[k], k)
  BY DEF Placed, Line
<1>3. \A k \in 1 .. Len(old) : Line(old[k], k) \in DocLine /\ Line(old[k], k).was = k
  BY <1>1, PreCommitAssumption DEF Line, DocLine
<1>4. Placed(old) \in Seq(DocLine)
  <2>1. Placed(old) = [k \in 1 .. Len(old) |-> Line(old[k], k)]
    BY DEF Placed, Line
  <2>2. Placed(old) \in [1 .. Len(old) -> DocLine]
    BY <2>1, <1>3
  <2> QED BY <2>2
<1> QED BY <1>2, <1>3, <1>4 DEF DocInv

\* What the proofs use of an edited document.
LEMMA DocIs ==
  ASSUME NEW old, NEW doc, DocInv(old, doc)
  PROVE  /\ Len(doc) \in Nat /\ DOMAIN doc = 1 .. Len(doc) /\ Len(old) \in Nat /\ DOMAIN old = 1 .. Len(old)
         /\ \A k \in 1 .. Len(doc) : doc[k] \in DocLine /\ doc[k].was \in Nat /\ doc[k].depth \in Nat
         /\ \A k \in 1 .. Len(doc) : doc[k].was # 0 =>
              doc[k].was \in 1 .. Len(old) /\ doc[k] = Line(old[doc[k].was], doc[k].was)
         /\ \A j, k \in 1 .. Len(doc) : (j < k /\ doc[j].was # 0 /\ doc[k].was # 0) => doc[j].was < doc[k].was
<1>1. Len(doc) \in Nat /\ DOMAIN doc = 1 .. Len(doc) /\ Len(old) \in Nat /\ DOMAIN old = 1 .. Len(old)
  BY DEF DocInv
<1>2. \A k \in 1 .. Len(doc) : doc[k] \in DocLine
  BY DEF DocInv
<1>3. \A k \in 1 .. Len(doc) : doc[k].was \in Nat /\ doc[k].depth \in Nat
  BY <1>2 DEF DocLine
<1>4. \A k \in 1 .. Len(doc) : doc[k].was # 0 =>
         doc[k].was \in 1 .. Len(old) /\ doc[k] = Line(old[doc[k].was], doc[k].was)
  BY <1>1 DEF DocInv
<1>5. \A j, k \in 1 .. Len(doc) : (j < k /\ doc[j].was # 0 /\ doc[k].was # 0) => doc[j].was < doc[k].was
  BY <1>1 DEF DocInv
<1> QED BY <1>1, <1>2, <1>3, <1>4, <1>5

\* A new line leaves the old ones in their order.
LEMMA InsertKeeps ==
  ASSUME NEW old, NEW doc, DocInv(old, doc), NEW k \in 0 .. Len(doc), NEW l \in DocLines
  PROVE  DocInv(old, InsertAt(doc, k + 1, Added(l)))
<1> DEFINE new == InsertAt(doc, k + 1, Added(l))
<1>0. Len(doc) \in Nat
  BY DocIs
<1>1. Added(l) \in DocLine /\ Added(l).was = 0
  BY PreCommitAssumption DEF Added, DocLine
<1>2. /\ new \in Seq(DocLine) /\ Len(new) = Len(doc) + 1
      /\ \A i \in 1 .. Len(doc) + 1 : new[i] = IF i <= k THEN doc[i] ELSE IF i = k + 1 THEN Added(l) ELSE doc[i - 1]
  BY <1>1, InsertIs DEF DocInv
<1> HIDE DEF new
<1> DEFINE before(i) == IF i <= k THEN i ELSE i - 1
<1>3. \A i \in 1 .. Len(new) : new[i].was # 0 => before(i) \in 1 .. Len(doc) /\ new[i] = doc[before(i)]
  <2> SUFFICES ASSUME NEW i \in 1 .. Len(new), new[i].was # 0 PROVE before(i) \in 1 .. Len(doc) /\ new[i] = doc[before(i)]
    OBVIOUS
  <2>1. i # k + 1 /\ i \in 1 .. Len(doc) + 1
    BY <1>1, <1>2
  <2>2. CASE i <= k
    BY <1>0, <1>2, <2>1, <2>2
  <2>3. CASE i > k + 1
    BY <1>0, <1>2, <2>1, <2>3
  <2> QED BY <1>0, <2>1, <2>2, <2>3
<1>4. \A i, j \in 1 .. Len(new) : i < j /\ i # k + 1 /\ j # k + 1 => before(i) < before(j)
  BY <1>0, <1>2
<1>5. \A i \in 1 .. Len(new) : new[i].was # 0 => i # k + 1
  BY <1>1, <1>2
<1> HIDE DEF before
<1>6. \A i \in 1 .. Len(new) : new[i].was # 0 => new[i].was \in DOMAIN old /\ new[i] = Line(old[new[i].was], new[i].was)
  BY <1>3, DocIs
<1>7. \A i, j \in 1 .. Len(new) : (i < j /\ new[i].was # 0 /\ new[j].was # 0) => new[i].was < new[j].was
  <2> SUFFICES ASSUME NEW i \in 1 .. Len(new), NEW j \in 1 .. Len(new), i < j, new[i].was # 0, new[j].was # 0
               PROVE  new[i].was < new[j].was
    OBVIOUS
  <2>1. before(i) \in 1 .. Len(doc) /\ new[i] = doc[before(i)] /\ before(j) \in 1 .. Len(doc) /\ new[j] = doc[before(j)]
    BY <1>3
  <2>2. before(i) < before(j)
    BY <1>4, <1>5
  <2> QED BY <2>1, <2>2, DocIs
<1>8. DOMAIN new = 1 .. Len(new)
  BY <1>2
<1>9. DocInv(old, new)
  BY <1>2, <1>6, <1>7, <1>8 DEF DocInv
<1> QED
  BY <1>9 DEF new

\* So does one that is taken away.
LEMMA RemoveKeeps ==
  ASSUME NEW old, NEW doc, DocInv(old, doc), NEW k \in 1 .. Len(doc)
  PROVE  DocInv(old, RemoveAt(doc, k))
<1> DEFINE new == RemoveAt(doc, k)
<1>1. /\ new \in Seq(DocLine) /\ Len(new) = Len(doc) - 1
      /\ \A i \in 1 .. Len(doc) - 1 : new[i] = IF i < k THEN doc[i] ELSE doc[i + 1]
  BY RemoveIs DEF DocInv
<1> HIDE DEF new
<1> DEFINE before(i) == IF i < k THEN i ELSE i + 1
<1>2. \A i \in 1 .. Len(new) : before(i) \in 1 .. Len(doc) /\ new[i] = doc[before(i)]
  <2>1. Len(doc) \in Nat
    BY DEF DocInv
  <2> QED BY <1>1, <2>1
<1>3. \A i, j \in 1 .. Len(new) : i < j => before(i) < before(j)
  BY <1>1 DEF DocInv
<1> HIDE DEF before
<1>4. DOMAIN new = 1 .. Len(new)
  BY <1>1
<1>5. \A i \in 1 .. Len(new) : new[i].was # 0 => new[i].was \in DOMAIN old /\ new[i] = Line(old[new[i].was], new[i].was)
  BY <1>2, DocIs
<1>6. \A i, j \in 1 .. Len(new) : (i < j /\ new[i].was # 0 /\ new[j].was # 0) => new[i].was < new[j].was
  <2> SUFFICES ASSUME NEW i \in 1 .. Len(new), NEW j \in 1 .. Len(new), i < j, new[i].was # 0, new[j].was # 0
               PROVE  new[i].was < new[j].was
    OBVIOUS
  <2>1. before(i) \in 1 .. Len(doc) /\ new[i] = doc[before(i)] /\ before(j) \in 1 .. Len(doc) /\ new[j] = doc[before(j)]
    BY <1>2
  <2>2. before(i) < before(j)
    BY <1>3
  <2> QED BY <2>1, <2>2, DocIs
<1>7. DocInv(old, new)
  BY <1>1, <1>4, <1>5, <1>6 DEF DocInv
<1> QED
  BY <1>7 DEF new

\* findHeadingRange() finds the section: from its first heading to the line before the next heading
\* that is not deeper, or to the end.
LEMMA SectionIs ==
  ASSUME NEW doc \in Seq(DocLine), NEW slug, headings(doc, slug) # {}
  PROVE  LET range == findHeadingRange(doc, slug) IN
           /\ range.start \in headings(doc, slug) /\ \A j \in headings(doc, slug) : range.start <= j
           /\ range.end \in range.start .. Len(doc)
           /\ SectionLines(doc, slug) = range.start .. range.end
           /\ range.end < Len(doc) =>
                doc[range.end + 1].depth > 0 /\ doc[range.end + 1].depth <= doc[range.start].depth
<1> DEFINE H == headings(doc, slug)
           first == CHOOSE k \in H : \A j \in H : k <= j
           after == {k \in first + 1 .. Len(doc) : doc[k].depth > 0 /\ doc[k].depth <= doc[first].depth}
           last == IF after = {} THEN Len(doc) ELSE (CHOOSE k \in after : \A j \in after : k <= j) - 1
<1>1. findHeadingRange(doc, slug) = [start |-> first, end |-> last]
  BY DEF findHeadingRange
<1>2. Len(doc) \in Nat /\ H \subseteq 1 .. Len(doc) /\ \A k \in 1 .. Len(doc) : doc[k].depth \in Nat
  <2>1. DOMAIN doc = 1 .. Len(doc) /\ Len(doc) \in Nat /\ \A k \in 1 .. Len(doc) : doc[k] \in DocLine
    OBVIOUS
  <2>2. H \subseteq DOMAIN doc
    BY DEF headings
  <2> QED BY <2>1, <2>2 DEF DocLine
<1>3. first \in H /\ \A j \in H : first <= j
  <2>1. \E k \in H : \A j \in H : k <= j
    <3>1. H \in SUBSET Nat
      BY <1>2
    <3> QED BY <3>1, LeastNatural
  <2> QED BY <2>1
<1> HIDE DEF first
<1>4. first \in 1 .. Len(doc) /\ after \subseteq first + 1 .. Len(doc)
  BY <1>2, <1>3
<1>5. /\ last \in first .. Len(doc) /\ \A j \in after : j > last
      /\ last < Len(doc) => last + 1 \in after
  <2>1. CASE after = {}
    BY <1>4, <2>1
  <2>2. CASE after # {}
    <3> DEFINE a == CHOOSE k \in after : \A j \in after : k <= j
    <3>1. \E k \in after : \A j \in after : k <= j
      <4>1. after \in SUBSET Nat
        BY <1>4
      <4> QED BY <2>2, <4>1, LeastNatural
    <3>2. a \in after /\ \A j \in after : a <= j
      BY <3>1
    <3>3. last = a - 1
      BY <2>2
    <3> HIDE DEF a, last
    <3> QED BY <1>4, <3>2, <3>3
  <2> QED BY <2>1, <2>2
<1> HIDE DEF last
<1>6. last < Len(doc) => doc[last + 1].depth > 0 /\ doc[last + 1].depth <= doc[first].depth
  BY <1>5
<1>7. ASSUME NEW k \in SectionLines(doc, slug) PROVE k \in first .. last
  <2>1. PICK h \in 1 .. k : /\ h \in H /\ \A j \in H : h <= j
                            /\ \A j \in h + 1 .. k : doc[j].depth = 0 \/ doc[j].depth > doc[h].depth
    BY DEF SectionLines
  <2>2. k \in 1 .. Len(doc)
    BY DEF SectionLines
  <2>3. h = first
    BY <1>2, <1>3, <2>1
  <2>4. last + 1 \in after => ~(last + 1 <= k)
    BY <1>2, <1>4, <1>5, <2>1, <2>2, <2>3
  <2> QED BY <1>4, <1>5, <2>1, <2>2, <2>3, <2>4
<1>8. ASSUME NEW k \in first .. last PROVE k \in SectionLines(doc, slug)
  <2>1. k \in 1 .. Len(doc) /\ first \in 1 .. k
    BY <1>4, <1>5
  <2>2. \A j \in first + 1 .. k : doc[j].depth = 0 \/ doc[j].depth > doc[first].depth
    <3> SUFFICES ASSUME NEW j \in first + 1 .. k PROVE doc[j].depth = 0 \/ doc[j].depth > doc[first].depth
      OBVIOUS
    <3>1. j \notin after /\ j \in first + 1 .. Len(doc) /\ j \in 1 .. Len(doc)
      BY <1>4, <1>5, <2>1
    <3>2. ~(doc[j].depth > 0 /\ doc[j].depth <= doc[first].depth)
      BY <3>1
    <3>3. doc[j].depth \in Nat /\ doc[first].depth \in Nat
      BY <1>2, <1>4, <3>1
    <3> QED BY <3>2, <3>3
  <2>3. k \in DOMAIN doc
    BY <2>1
  <2>4. first \in headings(doc, slug) /\ \A j \in headings(doc, slug) : first <= j
    BY <1>3
  <2> HIDE DEF last, after
  <2> QED BY <2>1, <2>2, <2>3, <2>4 DEF SectionLines
<1>9. SectionLines(doc, slug) = first .. last
  BY <1>7, <1>8
<1>10. findHeadingRange(doc, slug).start = first /\ findHeadingRange(doc, slug).end = last
  BY <1>1
<1> HIDE DEF after
<1> QED BY <1>3, <1>5, <1>6, <1>9, <1>10

\* The section and the line after it are one range of lines.
LEMMA SectionAndNextIs ==
  ASSUME NEW doc \in Seq(DocLine), NEW slug, headings(doc, slug) # {}
  PROVE  LET range == findHeadingRange(doc, slug)
             next == IF range.end < Len(doc) THEN range.end + 1 ELSE Len(doc)
         IN  SectionAndNext(doc, slug) = {doc[k] : k \in range.start .. next}
<1> DEFINE s == findHeadingRange(doc, slug).start
           e == findHeadingRange(doc, slug).end
           next == IF e < Len(doc) THEN e + 1 ELSE Len(doc)
           lines == SectionLines(doc, slug)
<1>1. s \in 1 .. Len(doc) /\ e \in s .. Len(doc) /\ lines = s .. e /\ Len(doc) \in Nat /\ DOMAIN doc = 1 .. Len(doc)
  <2>1. s \in DOMAIN doc /\ e \in s .. Len(doc) /\ lines = s .. e
    BY SectionIs DEF headings
  <2> QED BY <2>1
<1> HIDE DEF s, e, lines
<1>2. lines \cup ({j + 1 : j \in lines} \cap DOMAIN doc) = s .. next
  <2>1. \A x : x \in s .. next <=> x \in s .. e \/ (x - 1 \in s .. e /\ x \in 1 .. Len(doc) /\ x \in Int)
    BY <1>1
  <2>2. \A x : x \in {j + 1 : j \in s .. e} <=> x \in Int /\ x - 1 \in s .. e
    <3>1. \A j \in s .. e : j + 1 \in Int /\ (j + 1) - 1 = j
      BY <1>1
    <3>2. \A x \in Int : (x - 1) + 1 = x
      OBVIOUS
    <3> QED BY <3>1, <3>2
  <2> QED BY <1>1, <2>1, <2>2
<1>3. SectionAndNext(doc, slug) = {doc[k] : k \in s .. next}
  BY <1>2 DEF SectionAndNext, lines
<1> QED BY <1>3 DEF s, e

\* A hunk is a run of new lines, or a place where old ones went.
LEMMA HunkIs ==
  ASSUME NEW old, NEW doc, DocInv(old, doc), NEW h \in gitDiff(old, doc)
  PROVE  \/ /\ h.start \in 1 .. Len(doc) /\ h.count \in 1 .. Len(doc) /\ h.start + h.count - 1 <= Len(doc)
            /\ \A k \in h.start .. h.start + h.count - 1 : doc[k].was = 0
         \/ /\ h.start \in 0 .. Len(doc) /\ h.count = 0
            /\ h.start # 0 => doc[h.start].was # 0
            /\ h.start # Len(doc) => doc[h.start + 1].was # 0
            /\ (IF h.start = Len(doc) THEN Len(old) + 1 ELSE doc[h.start + 1].was) # PlaceOf(doc, h.start) + 1
<1> DEFINE added == {g \in [start : DOMAIN doc, count : DOMAIN doc] :
                      LET last == g.start + g.count - 1 IN
                        /\ last \in DOMAIN doc /\ \A k \in g.start .. last : doc[k].was = 0
                        /\ (g.start = 1 \/ doc[g.start - 1].was # 0)
                        /\ (last = Len(doc) \/ doc[last + 1].was # 0)}
           gone == {k \in 0 .. Len(doc) :
                      /\ k = 0 \/ doc[k].was # 0
                      /\ k = Len(doc) \/ doc[k + 1].was # 0
                      /\ (IF k = Len(doc) THEN Len(old) + 1 ELSE doc[k + 1].was) # PlaceOf(doc, k) + 1}
<1>1. gitDiff(old, doc) = added \cup {[start |-> k, count |-> 0] : k \in gone}
  BY DEF gitDiff
<1>2. DOMAIN doc = 1 .. Len(doc) /\ Len(doc) \in Nat
  BY DocIs
<1>3. CASE h \in added
  BY <1>2, <1>3
<1>4. ASSUME NEW k \in gone, h = [start |-> k, count |-> 0]
      PROVE  /\ h.start \in 0 .. Len(doc) /\ h.count = 0
             /\ h.start # 0 => doc[h.start].was # 0
             /\ h.start # Len(doc) => doc[h.start + 1].was # 0
             /\ (IF h.start = Len(doc) THEN Len(old) + 1 ELSE doc[h.start + 1].was) # PlaceOf(doc, h.start) + 1
  <2>1. h.start = k /\ h.count = 0
    BY <1>4
  <2> QED BY <2>1
<1> HIDE DEF added, gone
<1> QED BY <1>1, <1>3, <1>4

\* A section with a new line is touched: the run of new lines around it is a hunk that meets it.
LEMMA TouchedIfNew ==
  ASSUME NEW old, NEW doc, DocInv(old, doc), NEW slug, NEW k \in SectionLines(doc, slug), doc[k].was = 0
  PROVE  anchorWasTouched(gitDiff(old, doc), slug, doc)
<1> DEFINE N == Len(doc)
           T == {j \in 1 .. k : \A i \in j .. k : doc[i].was = 0}
           E == {n \in k + 1 .. N + 1 : n = N + 1 \/ doc[n].was # 0}
<1>1. N \in Nat /\ DOMAIN doc = 1 .. N /\ k \in 1 .. N /\ headings(doc, slug) # {} /\ doc \in Seq(DocLine)
  BY DocIs DEF SectionLines, DocInv
<1>2. PICK s \in T : \A j \in T : s <= j
  <2>1. k \in T /\ T \in SUBSET Nat
    BY <1>1
  <2> QED BY <2>1, LeastNatural
<1>3. PICK e \in E : \A j \in E : e <= j
  <2>1. N + 1 \in E /\ E \in SUBSET Nat
    BY <1>1
  <2> QED BY <2>1, LeastNatural
<1>4. s \in 1 .. k /\ e \in k + 1 .. N + 1
  BY <1>2, <1>3
<1>5. \A i \in s .. e - 1 : doc[i].was = 0
  <2> SUFFICES ASSUME NEW i \in s .. e - 1 PROVE doc[i].was = 0
    OBVIOUS
  <2>1. CASE i <= k
    BY <1>2, <1>4, <2>1
  <2>2. CASE i > k
    <3>1. i \in k + 1 .. N + 1 /\ i # N + 1 /\ i < e
      BY <1>1, <1>4, <2>2
    <3>2. i \notin E
      BY <1>1, <1>3, <1>4, <3>1
    <3> QED BY <3>1, <3>2
  <2> QED BY <1>1, <1>4, <2>1, <2>2
<1>6. s = 1 \/ doc[s - 1].was # 0
  <2> SUFFICES ASSUME s # 1, doc[s - 1].was = 0 PROVE FALSE
    OBVIOUS
  <2>1. s - 1 \in 1 .. k /\ \A i \in s - 1 .. k : i = s - 1 \/ i \in s .. k
    BY <1>1, <1>4
  <2>2. \A i \in s - 1 .. k : doc[i].was = 0
    BY <1>2, <2>1
  <2>3. s - 1 \in T
    BY <2>1, <2>2
  <2>4. s - 1 < s
    BY <1>4
  <2> QED BY <1>2, <1>4, <2>3, <2>4
<1>7. e - 1 = N \/ doc[e].was # 0
  BY <1>1, <1>3, <1>4
<1> HIDE DEF T, E
<1> DEFINE h == [start |-> s, count |-> e - s]
<1>8. /\ h.start = s /\ h.count = e - s /\ s \in 1 .. N /\ e - s \in 1 .. N
      /\ h.start + h.count - 1 = e - 1 /\ e - 1 \in 1 .. N /\ (e - 1) + 1 = e
  BY <1>1, <1>4
<1>9. h \in gitDiff(old, doc)
  <2>1. h \in [start : DOMAIN doc, count : DOMAIN doc]
    BY <1>1, <1>8
  <2> HIDE DEF h
  <2> QED BY <1>1, <1>5, <1>6, <1>7, <1>8, <2>1 DEF gitDiff
<1> HIDE DEF h
<1>10. [start |-> s, end |-> e - 1] \in parsePostImageRanges(gitDiff(old, doc))
  BY <1>8, <1>9 DEF parsePostImageRanges
<1>11. LET range == findHeadingRange(doc, slug) IN k \in range.start .. range.end
  BY <1>1, SectionIs
<1>12. /\ findHeadingRange(doc, slug).start \in Int /\ findHeadingRange(doc, slug).end \in Int
  <2>1. findHeadingRange(doc, slug).start \in DOMAIN doc
    BY <1>1, SectionIs DEF headings
  <2>2. findHeadingRange(doc, slug).end \in findHeadingRange(doc, slug).start .. Len(doc)
    BY <1>1, SectionIs
  <2> QED BY <1>1, <2>1, <2>2
<1>13. s <= findHeadingRange(doc, slug).end /\ e - 1 >= findHeadingRange(doc, slug).start
  BY <1>1, <1>4, <1>11, <1>12
<1> QED BY <1>1, <1>9, <1>10, <1>13 DEF anchorWasTouched
\* A section that was touched is not what it was: if it and the line after it were, every old line
\* would be there in its place, and no hunk could meet it.
LEMMA TouchedMeansChanged ==
  ASSUME NEW old, NEW doc, DocInv(old, doc), NEW slug, anchorWasTouched(gitDiff(old, doc), slug, doc)
  PROVE  headings(doc, slug) # {} /\ SectionAndNext(Placed(old), slug) # SectionAndNext(doc, slug)
<1> DEFINE was == Placed(old)
           s == findHeadingRange(doc, slug).start
           e == findHeadingRange(doc, slug).end
           N == Len(doc)
           next == IF e < N THEN e + 1 ELSE N
<1>1. headings(doc, slug) # {} /\ \E g \in parsePostImageRanges(gitDiff(old, doc)) : g.start <= e /\ g.end >= s
  BY DEF anchorWasTouched
<1>2. PICK h \in gitDiff(old, doc) : h.start <= e /\ h.start + h.count - 1 >= s
  BY <1>1 DEF parsePostImageRanges
<1>3. /\ N \in Nat /\ DOMAIN doc = 1 .. N /\ doc \in Seq(DocLine) /\ old \in Seq(DocLines)
      /\ Len(old) \in Nat /\ DOMAIN old = 1 .. Len(old)
  BY DocIs DEF DocInv
<1>4. /\ s \in 1 .. N /\ e \in s .. N /\ SectionLines(doc, slug) = s .. e /\ s \in headings(doc, slug)
      /\ SectionAndNext(doc, slug) = {doc[k] : k \in s .. next}
  <2>1. s \in headings(doc, slug) /\ e \in s .. N /\ SectionLines(doc, slug) = s .. e
    BY <1>1, <1>3, SectionIs
  <2>2. s \in 1 .. N
    BY <1>3, <2>1 DEF headings
  <2>3. SectionAndNext(doc, slug) = {doc[k] : k \in s .. next}
    BY <1>1, <1>3, SectionAndNextIs
  <2> QED BY <2>1, <2>2, <2>3
<1>5. next \in e .. N
  BY <1>3, <1>4
<1> HIDE DEF s, e, N, next
<1>6. /\ was \in Seq(DocLine) /\ DocInv(old, was) /\ Len(was) = Len(old) /\ DOMAIN was = 1 .. Len(old)
      /\ \A k \in 1 .. Len(old) : was[k] = Line(old[k], k) /\ was[k].was = k
  <2>1. DocInv(old, was)
    BY <1>3, PlacedInv
  <2>2. was \in Seq(DocLine)
    BY <2>1 DEF DocInv
  <2>3. DOMAIN was = 1 .. Len(old) /\ \A k \in 1 .. Len(old) : was[k] = Line(old[k], k) /\ was[k].was = k
    BY <1>3 DEF Placed, Line
  <2>4. Len(was) = Len(old)
    BY <1>3, <2>2, <2>3
  <2> QED BY <2>1, <2>2, <2>3, <2>4
<1> HIDE DEF was
<1>7. SUFFICES ASSUME SectionAndNext(was, slug) = SectionAndNext(doc, slug) PROVE FALSE
  BY <1>1 DEF was
<1> DEFINE r == findHeadingRange(was, slug).start
           q == findHeadingRange(was, slug).end
           M == Len(old)
           stop == IF q < M THEN q + 1 ELSE M
<1>8. headings(was, slug) # {}
  <2>1. headings(was, slug) = {} => SectionAndNext(was, slug) = {}
    BY DEF SectionAndNext, SectionLines
  <2>2. doc[s] \in SectionAndNext(doc, slug)
    BY <1>3, <1>4, <1>5
  <2> QED BY <1>7, <2>1, <2>2
<1>9. /\ r \in 1 .. M /\ q \in r .. M /\ r \in headings(was, slug) /\ \A j \in headings(was, slug) : r <= j
      /\ SectionAndNext(was, slug) = {was[k] : k \in r .. stop}
      /\ q < M => was[q + 1].depth > 0 /\ was[q + 1].depth <= was[r].depth
  <2>1. /\ r \in headings(was, slug) /\ (\A j \in headings(was, slug) : r <= j) /\ q \in r .. Len(was)
        /\ q < Len(was) => was[q + 1].depth > 0 /\ was[q + 1].depth <= was[r].depth
    BY <1>6, <1>8, SectionIs
  <2>2. r \in 1 .. M
    BY <1>6, <2>1 DEF headings
  <2>3. SectionAndNext(was, slug) = {was[k] : k \in r .. IF q < Len(was) THEN q + 1 ELSE Len(was)}
    BY <1>6, <1>8, SectionAndNextIs
  <2> QED BY <1>6, <2>1, <2>2, <2>3
<1>10. stop \in q .. M /\ M \in Nat
  BY <1>3, <1>9
<1>11. (stop # M \/ stop # q) => was[stop].depth > 0 /\ was[stop].depth <= was[r].depth
  BY <1>9, <1>10, <1>3
<1> HIDE DEF r, q, M, stop
\* What is in the section now was in the old one, and the other way round.
<1>12. \A k \in s .. next : doc[k].was \in r .. stop /\ doc[k] = was[doc[k].was] /\ k \in 1 .. N
  <2> SUFFICES ASSUME NEW k \in s .. next PROVE doc[k].was \in r .. stop /\ doc[k] = was[doc[k].was] /\ k \in 1 .. N
    OBVIOUS
  <2>1. doc[k] \in {was[j] : j \in r .. stop}
    BY <1>4, <1>7, <1>9
  <2>2. PICK j \in r .. stop : doc[k] = was[j]
    BY <2>1
  <2>3. was[j].was = j
    BY <1>3, <1>6, <1>9, <1>10, <2>2 DEF M
  <2> QED BY <1>3, <1>4, <1>5, <2>2, <2>3
<1>13. \A j \in r .. stop : \E k \in s .. next : doc[k].was = j
  <2> SUFFICES ASSUME NEW j \in r .. stop PROVE \E k \in s .. next : doc[k].was = j
    OBVIOUS
  <2>1. was[j] \in {was[i] : i \in r .. stop}
    OBVIOUS
  <2>2. was[j] \in {doc[k] : k \in s .. next}
    BY <1>4, <1>7, <1>9, <2>1
  <2>3. j \in 1 .. M
    BY <1>9, <1>10
  <2>4. was[j].was = j
    BY <1>6, <2>3 DEF M
  <2> QED BY <2>2, <2>4
<1>14. \A j, k \in s .. next : j < k <=> doc[j].was < doc[k].was
  <2> SUFFICES ASSUME NEW j \in s .. next, NEW k \in s .. next PROVE j < k <=> doc[j].was < doc[k].was
    OBVIOUS
  <2>1. doc[j].was \in Nat \ {0} /\ doc[k].was \in Nat \ {0} /\ j \in 1 .. N /\ k \in 1 .. N
    BY <1>9, <1>10, <1>12
  <2>2. (j < k => doc[j].was < doc[k].was) /\ (k < j => doc[k].was < doc[j].was)
    BY <2>1, DocIs DEF N
  <2> QED BY <2>1, <2>2
<1>15. \A k \in s .. next : doc[k].was # 0
  BY <1>9, <1>10, <1>12
\* A line was added.
<1>16. CASE h.count # 0
  <2>1. /\ h.start \in 1 .. N /\ h.count \in 1 .. N /\ h.start + h.count - 1 <= N
        /\ \A k \in h.start .. h.start + h.count - 1 : doc[k].was = 0
    BY <1>16, HunkIs DEF N
  <2>2. \E k \in h.start .. h.start + h.count - 1 : k \in s .. next
    <3>1. CASE h.start >= s
      <4>1. h.start \in h.start .. h.start + h.count - 1 /\ h.start \in s .. next
        BY <1>2, <1>3, <1>4, <1>5, <2>1, <3>1
      <4> QED BY <4>1
    <3>2. CASE h.start < s
      <4>1. s \in h.start .. h.start + h.count - 1 /\ s \in s .. next
        BY <1>2, <1>3, <1>4, <1>5, <2>1, <3>2
      <4> QED BY <4>1
    <3> QED BY <1>4, <2>1, <3>1, <3>2
  <2> QED BY <1>15, <2>1, <2>2
\* Lines went after the line k.
<1>17. CASE h.count = 0
  <2> DEFINE k == h.start
  <2>1. /\ k \in 0 .. N
        /\ (IF k = N THEN Len(old) + 1 ELSE doc[k + 1].was) # PlaceOf(doc, k) + 1
    BY <1>17, HunkIs DEF N
  <2>2. k \in s + 1 .. e /\ k \in s .. next
    BY <1>2, <1>3, <1>4, <1>5, <1>17, <2>1
  <2>3. (IF k = N THEN M + 1 ELSE doc[k + 1].was) # doc[k].was + 1
    BY <1>4, <2>1, <2>2 DEF PlaceOf, M
  <2> HIDE DEF k
  <2>4. CASE k # N
    <3>1. k + 1 \in s .. next /\ k < k + 1
      BY <1>3, <1>4, <1>5, <2>1, <2>2, <2>4 DEF next
    <3>2. doc[k].was \in r .. stop /\ doc[k + 1].was \in r .. stop /\ doc[k].was < doc[k + 1].was
      BY <1>12, <1>14, <2>2, <3>1
    <3>3. doc[k].was + 1 \in r .. stop /\ doc[k].was < doc[k].was + 1 /\ doc[k].was + 1 < doc[k + 1].was
      BY <1>9, <1>10, <2>3, <2>4, <3>2
    <3>4. PICK j \in s .. next : doc[j].was = doc[k].was + 1
      BY <1>13, <3>3
    <3>5. k < j /\ j < k + 1
      BY <1>14, <2>2, <3>1, <3>3, <3>4
    <3> QED BY <1>4, <1>5, <2>2, <3>5
  <2>5. CASE k = N
    <3>1. \A j \in s .. next : j <= k
      <4>1. N \in Nat /\ next \in Nat /\ next <= N /\ s \in Nat
        BY <1>3, <1>4, <1>5
      <4> QED BY <2>5, <4>1
    <3>2. doc[k].was = stop
      <4>1. PICK j \in s .. next : doc[j].was = stop
        BY <1>9, <1>10, <1>13
      <4>2. ~(k < j)
        BY <1>4, <1>5, <2>2, <3>1
      <4>3. doc[k].was \in r .. stop /\ ~(doc[k].was < stop)
        BY <1>12, <1>14, <2>2, <4>1, <4>2
      <4> QED BY <1>9, <1>10, <4>3
    <3>3. was[stop].depth > 0 /\ was[stop].depth <= was[r].depth
      BY <1>9, <1>10, <1>11, <2>3, <2>5, <3>2
    <3>4. doc[k] = was[stop] /\ doc[s] = was[r]
      <4>1. doc[k] = was[stop]
        BY <1>12, <2>2, <3>2
      <4>2. s \in s .. next
        BY <1>4, <1>5
      <4>3. doc[s].was \in headings(was, slug)
        <5>1. doc[s].was \in 1 .. M /\ doc[s] = was[doc[s].was] /\ doc[s].depth > 0 /\ doc[s].slug = slug
          BY <1>4, <1>9, <1>10, <1>12, <4>2 DEF headings
        <5> QED BY <1>6, <5>1 DEF headings, M
      <4>4. PICK j \in s .. next : doc[j].was = r
        BY <1>9, <1>10, <1>13
      <4>5. ~(r < doc[s].was)
        BY <1>4, <1>14, <4>2, <4>4
      <4>6. doc[s].was = r
        BY <1>9, <1>10, <1>12, <4>2, <4>3, <4>5
      <4> QED BY <1>12, <4>1, <4>2, <4>6
    <3>5. doc[k].depth = 0 \/ doc[k].depth > doc[s].depth
      <4>1. k \in SectionLines(doc, slug)
        BY <1>4, <2>2
      <4>2. PICK g \in 1 .. k : /\ g \in headings(doc, slug) /\ \A j \in headings(doc, slug) : g <= j
                                /\ \A j \in g + 1 .. k : doc[j].depth = 0 \/ doc[j].depth > doc[g].depth
        BY <4>1 DEF SectionLines
      <4>3. \A j \in headings(doc, slug) : s <= j
        BY <1>1, <1>3, SectionIs DEF s
      <4>4. g = s
        BY <1>3, <1>4, <4>2, <4>3
      <4> QED BY <1>3, <1>4, <2>2, <4>2, <4>4
    <3>6. doc[k].depth \in Nat /\ doc[s].depth \in Nat
      BY <1>3, <1>4, <2>2, DocIs DEF N
    <3> QED BY <3>3, <3>4, <3>5, <3>6
  <2> QED BY <2>4, <2>5
<1> QED BY <1>16, <1>17, HunkIs

\* A section is touched if and only if it has changed: a hunk of new lines that meets it has one of
\* its lines, and a hunk without lines meets it if its place is a line of the section below the heading.
LEMMA TouchedIffChanged ==
  ASSUME NEW old, NEW doc, DocInv(old, doc), NEW slug
  PROVE  anchorWasTouched(gitDiff(old, doc), slug, doc) <=> SectionChanged(old, doc, slug)
<1> DEFINE s == findHeadingRange(doc, slug).start
           e == findHeadingRange(doc, slug).end
           N == Len(doc)
<1>1. /\ N \in Nat /\ DOMAIN doc = 1 .. N /\ doc \in Seq(DocLine) /\ Len(old) \in Nat
      /\ \A k \in 1 .. N : doc[k].was \in Nat
  BY DocIs DEF DocInv
<1>2. ASSUME headings(doc, slug) # {}
      PROVE  s \in 1 .. N /\ e \in s .. N /\ SectionLines(doc, slug) = s .. e
  <2>1. s \in headings(doc, slug) /\ e \in s .. N /\ SectionLines(doc, slug) = s .. e
    BY <1>1, <1>2, SectionIs
  <2> QED BY <1>1, <2>1 DEF headings
<1>3. ASSUME NEW k \in SectionLines(doc, slug)
      PROVE  headings(doc, slug) # {}
  BY <1>3 DEF SectionLines
<1> HIDE DEF s, e, N
<1>4. ASSUME NEW k \in SectionLines(doc, slug), k - 1 \in SectionLines(doc, slug), LostBelow(old, doc, k)
      PROVE  anchorWasTouched(gitDiff(old, doc), slug, doc)
  <2>1. headings(doc, slug) # {} /\ s \in 1 .. N /\ e \in s .. N /\ k \in s .. e /\ k - 1 \in s .. e
    BY <1>2, <1>3, <1>4
  <2>2. k \in 0 .. N /\ k # 0 /\ PlaceOf(doc, k) = doc[k].was
    BY <1>1, <2>1 DEF PlaceOf
  <2>3. [start |-> k, count |-> 0] \in gitDiff(old, doc)
    <3>1. k = N \/ doc[k + 1].was # 0
      BY <1>4 DEF LostBelow, N
    <3>2. (IF k = N THEN Len(old) + 1 ELSE doc[k + 1].was) # PlaceOf(doc, k) + 1
      <4>1. doc[k].was \in Nat
        BY <1>1, <2>1
      <4>2. CASE k = N
        <5>1. doc[k].was # Len(old)
          BY <1>4, <4>2 DEF LostBelow, N
        <5> QED BY <1>1, <2>2, <4>1, <4>2, <5>1
      <4>3. CASE k # N
        <5>1. doc[k + 1].was # doc[k].was + 1
          BY <1>4, <4>3 DEF LostBelow, N
        <5> QED BY <2>2, <4>3, <5>1
      <4> QED BY <4>2, <4>3
    <3> QED BY <1>4, <2>2, <3>1, <3>2 DEF gitDiff, LostBelow, N
  <2>4. [start |-> k, end |-> k - 1] \in parsePostImageRanges(gitDiff(old, doc))
    <3> DEFINE h == [start |-> k, count |-> 0]
    <3>1. h.start = k /\ h.start + h.count - 1 = k - 1
      BY <2>2
    <3> QED BY <2>3, <3>1 DEF parsePostImageRanges
  <2>5. k <= e /\ k - 1 >= s
    BY <1>1, <2>1
  <2> QED BY <2>1, <2>3, <2>4, <2>5 DEF anchorWasTouched, s, e
<1>5. ASSUME anchorWasTouched(gitDiff(old, doc), slug, doc)
      PROVE  SectionChanged(old, doc, slug)
  <2>1. headings(doc, slug) # {} /\ \E g \in parsePostImageRanges(gitDiff(old, doc)) : g.start <= e /\ g.end >= s
    BY <1>5 DEF anchorWasTouched, s, e
  <2>2. PICK h \in gitDiff(old, doc) : h.start <= e /\ h.start + h.count - 1 >= s
    BY <2>1 DEF parsePostImageRanges
  <2>3. s \in 1 .. N /\ e \in s .. N /\ SectionLines(doc, slug) = s .. e
    BY <1>2, <2>1
  <2>4. \/ /\ h.start \in 1 .. N /\ h.count \in 1 .. N /\ h.start + h.count - 1 <= N
           /\ \A i \in h.start .. h.start + h.count - 1 : doc[i].was = 0
        \/ /\ h.start \in 0 .. N /\ h.count = 0
           /\ h.start # 0 => doc[h.start].was # 0
           /\ h.start # N => doc[h.start + 1].was # 0
           /\ (IF h.start = N THEN Len(old) + 1 ELSE doc[h.start + 1].was) # PlaceOf(doc, h.start) + 1
    BY HunkIs DEF N
  <2>5. CASE /\ h.start \in 1 .. N /\ h.count \in 1 .. N /\ h.start + h.count - 1 <= N
             /\ \A i \in h.start .. h.start + h.count - 1 : doc[i].was = 0
    <3> DEFINE k == IF h.start < s THEN s ELSE h.start
    <3>1. k \in s .. e /\ k \in h.start .. h.start + h.count - 1
      BY <1>1, <2>2, <2>3, <2>5
    <3> QED BY <2>3, <2>5, <3>1 DEF SectionChanged
  <2>6. CASE /\ h.start \in 0 .. N /\ h.count = 0
             /\ h.start # 0 => doc[h.start].was # 0
             /\ h.start # N => doc[h.start + 1].was # 0
             /\ (IF h.start = N THEN Len(old) + 1 ELSE doc[h.start + 1].was) # PlaceOf(doc, h.start) + 1
    <3>1. h.start \in s .. e /\ h.start - 1 \in s .. e /\ h.start # 0 /\ h.start \in 1 .. N
      BY <1>1, <2>2, <2>3, <2>6
    <3>2. PlaceOf(doc, h.start) = doc[h.start].was /\ doc[h.start].was \in Nat
      BY <1>1, <3>1 DEF PlaceOf
    <3>3. LostBelow(old, doc, h.start)
      BY <1>1, <2>6, <3>1, <3>2 DEF LostBelow, N
    <3> QED BY <2>3, <3>1, <3>3 DEF SectionChanged
  <2> QED BY <2>4, <2>5, <2>6
<1> QED BY <1>4, <1>5, TouchedIfNew DEF SectionChanged

\* Nothing has changed in a document that was not edited.
LEMMA PlacedUnchanged ==
  ASSUME NEW old \in Seq(DocLines), NEW slug
  PROVE  ~SectionChanged(old, Placed(old), slug)
<1> DEFINE was == Placed(old)
<1>1. Len(old) \in Nat /\ DOMAIN was = 1 .. Len(old) /\ \A k \in 1 .. Len(old) : was[k].was = k
  BY DEF Placed
<1>2. Len(was) = Len(old)
  BY PlacedInv, DocIs, <1>1
<1> HIDE DEF was
<1>3. SUFFICES ASSUME NEW k \in SectionLines(was, slug), was[k].was = 0 \/ LostBelow(old, was, k) PROVE FALSE
  BY DEF SectionChanged, was
<1>4. k \in 1 .. Len(old)
  BY <1>1 DEF SectionLines
<1>5. was[k].was = k /\ k # 0
  BY <1>1, <1>4
<1>6. LostBelow(old, was, k)
  BY <1>3, <1>5
<1>7. CASE k = Len(old)
  BY <1>2, <1>5, <1>6, <1>7 DEF LostBelow
<1>8. CASE k # Len(old)
  <2>1. k + 1 \in 1 .. Len(old)
    BY <1>1, <1>4, <1>8
  <2>2. was[k + 1].was = k + 1
    BY <1>1, <2>1
  <2> QED BY <1>2, <1>5, <1>6, <1>8, <2>2 DEF LostBelow
<1> QED BY <1>7, <1>8

LEMMA CommitInvImplies == CommitInv => HookStopsStale
<1> SUFFICES ASSUME CommitInv PROVE HookStopsStale
  OBVIOUS
<1>1. ASSUME exits.preCommit = 0, Enforced
      PROVE  \A m \in Mappings : m.files \cap staged # {} =>
               /\ headings(index[m.file], m.slug) # {}
               /\ SectionAndNext(Placed(committed[m.file]), m.slug) # SectionAndNext(index[m.file], m.slug)
  <2> SUFFICES ASSUME NEW m \in Mappings, m.files \cap staged # {}
               PROVE  /\ headings(index[m.file], m.slug) # {}
                      /\ SectionAndNext(Placed(committed[m.file]), m.slug) # SectionAndNext(index[m.file], m.slug)
    OBVIOUS
  <2>1. preCommit = 0
    BY <1>1 DEF CommitInv, NotRun
  <2>2. ~\E n \in findRequiredAnchors : stale(n)
    BY <1>1, <2>1 DEF preCommit, Enforced
  <2>3. m \in findRequiredAnchors
    BY DEF findRequiredAnchors
  <2>4. anchorWasTouched(gitDiff(committed[m.file], index[m.file]), m.slug, index[m.file])
    BY <2>2, <2>3 DEF stale
  <2>5. DocInv(committed[m.file], index[m.file])
    BY PreCommitAssumption DEF CommitInv
  <2> QED BY <2>4, <2>5, TouchedMeansChanged
<1>2. ASSUME exits.preCommit # NotRun, Enforced
      PROVE  exits.preCommit = 0 <=>
               \A m \in Mappings : m.files \cap staged # {} =>
                 ~conditions.gitFails /\ SectionChanged(committed[m.file], index[m.file], m.slug)
  <2>1. exits.preCommit = IF \E m \in findRequiredAnchors : stale(m) THEN 1 ELSE 0
    BY <1>2 DEF CommitInv, preCommit, Enforced
  <2>2. ASSUME NEW m \in Mappings
        PROVE  stale(m) <=> ~(~conditions.gitFails /\ SectionChanged(committed[m.file], index[m.file], m.slug))
    <3>1. m.file \in ContextFiles /\ DocInv(committed[m.file], index[m.file])
      BY PreCommitAssumption DEF CommitInv
    <3>2. m.file \notin staged => ~SectionChanged(committed[m.file], index[m.file], m.slug)
      BY <3>1, PlacedUnchanged DEF CommitInv, DocInv
    <3> QED BY <3>1, <3>2, TouchedIffChanged DEF stale
  <2>3. \A m : m \in findRequiredAnchors <=> m \in Mappings /\ m.files \cap staged # {}
    BY DEF findRequiredAnchors
  <2> QED BY <2>1, <2>2, <2>3
<1> QED BY <1>1, <1>2 DEF HookStopsStale, PassedMeansUpdated, PassedIffChanged

LEMMA CommitBegins == CommitInit => CommitInv
<1> SUFFICES ASSUME CommitInit PROVE CommitInv
  OBVIOUS
<1>1. \A f \in ContextFiles : index[f] = Placed(committed[f]) /\ committed[f] \in Seq(DocLines)
  BY PreCommitAssumption DEF CommitInit
<1>2. \A f \in ContextFiles : DocInv(committed[f], index[f])
  BY <1>1, PlacedInv
<1>3. index = [f \in ContextFiles |-> index[f]]
  BY DEF CommitInit
<1>4. exits.preCommit = NotRun
  BY DEF CommitInit
<1> QED BY <1>1, <1>2, <1>3, <1>4 DEF CommitInv

LEMMA EditKeeps == CommitInv /\ Edit => CommitInv'
<1> SUFFICES ASSUME CommitInv, Edit PROVE CommitInv'
  OBVIOUS
<1>1. PICK f \in ContextFiles, k \in Places :
         /\ RemoveLine(f, k) \/ \E l \in DocLines : AddLine(f, k, l)
         /\ staged' = staged \cup {f}
  BY DEF Edit
<1>2. /\ committed' = committed /\ exits' = exits /\ exits.preCommit = NotRun
  BY DEF Edit
<1>3. DocInv(committed[f], index[f]) /\ DOMAIN index[f] = 1 .. Len(index[f])
  BY <1>1, DocIs DEF CommitInv
<1>4. PICK doc : DocInv(committed[f], doc) /\ index' = [index EXCEPT ![f] = doc]
  <2>1. CASE RemoveLine(f, k)
    <3>1. k \in 1 .. Len(index[f]) /\ index' = [index EXCEPT ![f] = RemoveAt(@, k)]
      BY <1>3, <2>1 DEF RemoveLine
    <3> QED BY <1>3, <3>1, RemoveKeeps
  <2>2. ASSUME NEW l \in DocLines, AddLine(f, k, l)
        PROVE  \E doc : DocInv(committed[f], doc) /\ index' = [index EXCEPT ![f] = doc]
    <3>1. k \in 0 .. Len(index[f]) /\ index' = [index EXCEPT ![f] = InsertAt(@, k + 1, Added(l))]
      BY <2>2 DEF AddLine
    <3> QED BY <1>3, <3>1, InsertKeeps
  <2> QED BY <1>1, <2>1, <2>2
<1>5. DOMAIN index = ContextFiles /\ index' = [g \in ContextFiles |-> IF g = f THEN doc ELSE index[g]]
  BY <1>4 DEF CommitInv
<1>6. index' = [g \in ContextFiles |-> index'[g]]
  BY <1>5
<1>7. \A g \in ContextFiles : DocInv(committed[g], index'[g])
  BY <1>4, <1>5 DEF CommitInv
<1>8. \A g \in ContextFiles \ staged' : index'[g] = Placed(committed[g])
  BY <1>1, <1>5 DEF CommitInv
<1> QED BY <1>2, <1>6, <1>7, <1>8 DEF CommitInv

\* Nothing is edited after the commit, so its exit code keeps its reason.
LEMMA CommitStepKeeps == CommitInv /\ [CommitNext]_commitVars => CommitInv'
<1> SUFFICES ASSUME CommitInv, [CommitNext]_commitVars PROVE CommitInv'
  OBVIOUS
<1>1. CASE Edit
  BY <1>1, EditKeeps
<1>2. CASE Commit
  <2>1. UNCHANGED <<committed, index, staged, conditions>> /\ exits'.preCommit = preCommit
    BY <1>2 DEF Commit
  <2>2. preCommit' = preCommit
    BY <2>1 DEF preCommit, findRequiredAnchors, stale
  <2> QED BY <2>1, <2>2 DEF CommitInv
<1>3. CASE UNCHANGED commitVars
  <2>1. UNCHANGED <<committed, index, staged, conditions, exits>>
    BY <1>3 DEF commitVars
  <2>2. preCommit' = preCommit
    BY <2>1 DEF preCommit, findRequiredAnchors, stale
  <2> QED BY <2>1, <2>2 DEF CommitInv
<1> QED BY <1>1, <1>2, <1>3 DEF CommitNext

CommitSpec == CommitInit /\ [][CommitNext]_commitVars

\* Whatever lines an author adds to the documents and takes from them: a commit that passed left no
\* section that the context map asks for as it was, and a commit passes exactly if each of them has a
\* new line or lost lines below one of its lines other than the heading, with nothing in their place
\* (runHook() of pre-commit, parsePostImageRanges(), findHeadingRange()).
THEOREM StaleSectionsAreStopped == CommitSpec => []HookStopsStale
<1> QED BY CommitBegins, CommitStepKeeps, CommitInvImplies, PTL DEF CommitSpec

-----------------------------------------------------------------------------
(* The installer of git hooks: nothing of the user's is lost, and a run    *)
(* that says it succeeded has left hooks that run.                         *)

InstallSteps == {"idle", "stat", "read", "rename", "write", "writing", "chmod"}
IsWorking == installer.at # "idle"
ShimThere(h) == hookFile[h] = <<"shim">> /\ (windows \/ h \in executable)

\* A run has a number of its own while it works.
RunInv == /\ installer \in [at : InstallSteps, hook : 1 .. 2]
          /\ IsWorking => runs \in 1 .. MaxRuns
          /\ exitStatus = "0" => ~IsWorking

\* The name that the next backup gets is not in use: of the run in progress before its rename,
\* and of the runs to come.
NamesFree ==
  \A h \in Hooks, r \in 1 .. MaxRuns :
    (\/ r > runs
     \/ r = runs /\ IsWorking /\ installer.hook = 1 /\ h = plan[2]
     \/ r = runs /\ installer.at \in {"stat", "read", "rename"} /\ h = hook)
    => backups[<<h, r>>] = <<"none">>

\* What is truncated or written is no hook of the user.
NothingOverwritten ==
  (~mistaken /\ installer.at \in {"write", "writing"}) => hookFile[hook] \notin UserHooks

\* The hooks of the plan before the one at work are whole, and the one that is being made
\* executable holds the shim.
PlanDone ==
  /\ (IsWorking /\ installer.hook = 2) => ShimThere(plan[1])
  /\ installer.at = "chmod" => hookFile[hook] = <<"shim">>

InstallInv == /\ InstallTypeOK /\ RunInv /\ NamesFree /\ NothingOverwritten /\ PlanDone
              /\ UserHooksKept /\ SuccessMeansInstalled

LEMMA HooksAre == Hooks = {"commit-msg", "pre-commit"} /\ DOMAIN plan = 1 .. 2 /\ Len(plan) = 2
BY DEF Hooks, plan, ToSet

\* A new run has a fresh number.
LEMMA RunKeeps == ASSUME InstallInv, Run PROVE InstallInv'
<1> USE HooksAre, InstallerAssumption
    DEF InstallInv, InstallTypeOK, RunInv, IsWorking, InstallSteps, AtStep, hook, plan, Run
<1>1. InstallTypeOK'
  BY DEF Contents, UserHooks
<1>2. RunInv'
  OBVIOUS
<1>3. NamesFree'
  BY DEF NamesFree
<1>4. NothingOverwritten'
  BY DEF NothingOverwritten, UserHooks, Contents
<1>5. PlanDone'
  BY DEF PlanDone, ShimThere
<1>6. UserHooksKept'
  BY DEF UserHooksKept, NamesFree, NothingOverwritten, UserHooks
<1>7. SuccessMeansInstalled'
  BY DEF SuccessMeansInstalled, PlanDone, ShimThere
<1> QED
  BY <1>1, <1>2, <1>3, <1>4, <1>5, <1>6, <1>7

\* Looking at a hook changes no file.
LEMMA StatHookKeeps == ASSUME InstallInv, StatHook PROVE InstallInv'
<1> USE HooksAre, InstallerAssumption
    DEF InstallInv, InstallTypeOK, RunInv, IsWorking, InstallSteps, AtStep, hook, plan, StatHook, Continues
<1>1. InstallTypeOK'
  <2>1. windows' \in BOOLEAN /\ mistaken' \in BOOLEAN
    OBVIOUS
  <2>2. /\ hookFile' \in [Hooks -> Contents] /\ executable' \subseteq Hooks
        /\ backups' \in [Hooks \X (1 .. MaxRuns) -> Contents]
    BY DEF Contents, UserHooks
  <2>3. /\ installer'.at \in InstallSteps /\ installer'.hook \in DOMAIN plan
        /\ exitStatus' \in {"none", "0", "1"}
    OBVIOUS
  <2>4. runs' \in 0 .. MaxRuns /\ failures' \in 0 .. MaxFailures /\ authored' \in 0 .. MaxUserHooks
    OBVIOUS
  <2> QED
    BY <2>1, <2>2, <2>3, <2>4
<1>2. RunInv'
  OBVIOUS
<1>3. NamesFree'
  BY DEF NamesFree
<1>4. NothingOverwritten'
  BY DEF NothingOverwritten, UserHooks, Contents
<1>5. PlanDone'
  BY DEF PlanDone, ShimThere
<1>6. UserHooksKept'
  BY DEF UserHooksKept, NamesFree, NothingOverwritten, UserHooks
<1>7. SuccessMeansInstalled'
  BY DEF SuccessMeansInstalled, PlanDone, ShimThere
<1> QED
  BY <1>1, <1>2, <1>3, <1>4, <1>5, <1>6, <1>7

\* Reading one does not, either.
LEMMA ReadHookKeeps == ASSUME InstallInv, ReadHook PROVE InstallInv'
<1> USE HooksAre, InstallerAssumption
    DEF InstallInv, InstallTypeOK, RunInv, IsWorking, InstallSteps, AtStep, hook, plan, ReadHook, Continues
<1>1. InstallTypeOK'
  BY DEF Contents, UserHooks
<1>2. RunInv'
  OBVIOUS
<1>3. NamesFree'
  BY DEF NamesFree
<1>4. NothingOverwritten'
  BY DEF NothingOverwritten, UserHooks, Contents
<1>5. PlanDone'
  BY DEF PlanDone, ShimThere
<1>6. UserHooksKept'
  BY DEF UserHooksKept, NamesFree, NothingOverwritten, UserHooks
<1>7. SuccessMeansInstalled'
  BY DEF SuccessMeansInstalled, PlanDone, ShimThere
<1> QED
  BY <1>1, <1>2, <1>3, <1>4, <1>5, <1>6, <1>7

\* A rename moves a hook to a name that nobody has used.
LEMMA RenameHookKeeps == ASSUME InstallInv, RenameHook PROVE InstallInv'
<1> USE HooksAre, InstallerAssumption
    DEF InstallInv, InstallTypeOK, RunInv, IsWorking, InstallSteps, AtStep, hook, plan, RenameHook, Continues
<1>1. InstallTypeOK'
  BY DEF Contents, UserHooks
<1>2. RunInv'
  OBVIOUS
<1>3. NamesFree'
  BY DEF NamesFree
<1>4. NothingOverwritten'
  BY DEF NothingOverwritten, UserHooks, Contents
<1>5. PlanDone'
  BY DEF PlanDone, ShimThere
<1>6. UserHooksKept'
  BY DEF UserHooksKept, NamesFree, NothingOverwritten, UserHooks
<1>7. SuccessMeansInstalled'
  <2> SUFFICES ASSUME exitStatus' = "0", NEW g \in Hooks
               PROVE  hookFile'[g] \in {<<"shim">>} \cup UserHooks' /\ (windows' \/ g \in executable')
    BY DEF SuccessMeansInstalled
  <2>1. hookFile'[g] \in {<<"shim">>} \cup UserHooks
    BY DEF SuccessMeansInstalled, PlanDone, ShimThere, UserHooks
  <2>2. windows' \/ g \in executable'
    BY DEF SuccessMeansInstalled, PlanDone, ShimThere
  <2> QED
    BY <2>1, <2>2 DEF UserHooks
<1> QED
  BY <1>1, <1>2, <1>3, <1>4, <1>5, <1>6, <1>7

\* What is truncated is no hook of the user.
LEMMA OpenHookKeeps == ASSUME InstallInv, OpenHook PROVE InstallInv'
<1> USE HooksAre, InstallerAssumption
    DEF InstallInv, InstallTypeOK, RunInv, IsWorking, InstallSteps, AtStep, hook, plan, OpenHook, Continues
<1>1. InstallTypeOK'
  BY DEF Contents, UserHooks
<1>2. RunInv'
  OBVIOUS
<1>3. NamesFree'
  BY DEF NamesFree
<1>4. NothingOverwritten'
  BY DEF NothingOverwritten, UserHooks, Contents
<1>5. PlanDone'
  BY DEF PlanDone, ShimThere
<1>6. UserHooksKept'
  BY DEF UserHooksKept, NamesFree, NothingOverwritten, UserHooks
<1>7. SuccessMeansInstalled'
  BY DEF SuccessMeansInstalled, PlanDone, ShimThere
<1> QED
  BY <1>1, <1>2, <1>3, <1>4, <1>5, <1>6, <1>7

\* Nor what is written.
LEMMA WriteHookKeeps == ASSUME InstallInv, WriteHook PROVE InstallInv'
<1> USE HooksAre, InstallerAssumption
    DEF InstallInv, InstallTypeOK, RunInv, IsWorking, InstallSteps, AtStep, hook, plan, WriteHook, Continues, HookDone, Exits
<1>1. InstallTypeOK'
  BY DEF Contents, UserHooks
<1>2. RunInv'
  OBVIOUS
<1>3. NamesFree'
  BY DEF NamesFree
<1>4. NothingOverwritten'
  BY DEF NothingOverwritten, UserHooks, Contents
<1>5. PlanDone'
  BY DEF PlanDone, ShimThere
<1>6. UserHooksKept'
  BY DEF UserHooksKept, NamesFree, NothingOverwritten, UserHooks
<1>7. SuccessMeansInstalled'
  <2> SUFFICES ASSUME exitStatus' = "0", NEW g \in Hooks
               PROVE  hookFile'[g] \in {<<"shim">>} \cup UserHooks' /\ (windows' \/ g \in executable')
    BY DEF SuccessMeansInstalled
  <2>0. installer.hook = 2
    BY DEF PlanDone
  <2>1. hookFile'[g] \in {<<"shim">>} \cup UserHooks
    <3>1. CASE g = hook
      BY <2>0, <3>1 DEF PlanDone
    <3>2. CASE g # hook
      <4>1. g = plan[1] /\ ShimThere(plan[1])
        BY <2>0, <3>2 DEF PlanDone
      <4> QED
        BY <3>2, <4>1 DEF ShimThere
    <3> QED
      BY <3>1, <3>2
  <2>2. windows' \/ g \in executable'
    BY DEF SuccessMeansInstalled, PlanDone, ShimThere
  <2> QED
    BY <2>1, <2>2 DEF UserHooks
<1> QED
  BY <1>1, <1>2, <1>3, <1>4, <1>5, <1>6, <1>7

\* The last step of a hook makes it whole.
LEMMA ChmodHookKeeps == ASSUME InstallInv, ChmodHook PROVE InstallInv'
<1> USE HooksAre, InstallerAssumption
    DEF InstallInv, InstallTypeOK, RunInv, IsWorking, InstallSteps, AtStep, hook, plan, ChmodHook, HookDone, Exits
<1>1. InstallTypeOK'
  <2>1. windows' \in BOOLEAN /\ mistaken' \in BOOLEAN
    OBVIOUS
  <2>2. /\ hookFile' \in [Hooks -> Contents] /\ executable' \subseteq Hooks
        /\ backups' \in [Hooks \X (1 .. MaxRuns) -> Contents]
    <3>1. UNCHANGED <<hookFile, backups>>
      OBVIOUS
    <3>2. hook \in Hooks
      OBVIOUS
    <3> QED
      BY <3>1, <3>2
  <2>3. /\ installer'.at \in InstallSteps /\ installer'.hook \in DOMAIN plan
        /\ exitStatus' \in {"none", "0", "1"}
    OBVIOUS
  <2>4. runs' \in 0 .. MaxRuns /\ failures' \in 0 .. MaxFailures /\ authored' \in 0 .. MaxUserHooks
    OBVIOUS
  <2> QED
    BY <2>1, <2>2, <2>3, <2>4
<1>2. RunInv'
  OBVIOUS
<1>3. NamesFree'
  BY DEF NamesFree
<1>4. NothingOverwritten'
  BY DEF NothingOverwritten, UserHooks, Contents
<1>5. PlanDone'
  BY DEF PlanDone, ShimThere
<1>6. UserHooksKept'
  BY DEF UserHooksKept, NamesFree, NothingOverwritten, UserHooks
<1>7. SuccessMeansInstalled'
  <2> SUFFICES ASSUME exitStatus' = "0", NEW g \in Hooks
               PROVE  hookFile'[g] \in {<<"shim">>} \cup UserHooks' /\ (windows' \/ g \in executable')
    BY DEF SuccessMeansInstalled
  <2>0. installer.hook = 2
    BY DEF PlanDone
  <2>1. hookFile'[g] \in {<<"shim">>} \cup UserHooks
    <3>1. CASE g = hook
      BY <2>0, <3>1 DEF PlanDone
    <3>2. CASE g # hook
      <4>1. g = plan[1] /\ ShimThere(plan[1])
        BY <2>0, <3>2 DEF PlanDone
      <4> QED
        BY <3>2, <4>1 DEF ShimThere
    <3> QED
      BY <3>1, <3>2
  <2>2. windows' \/ g \in executable'
    BY DEF SuccessMeansInstalled, PlanDone, ShimThere
  <2> QED
    BY <2>1, <2>2 DEF UserHooks
<1> QED
  BY <1>1, <1>2, <1>3, <1>4, <1>5, <1>6, <1>7

\* A run that fails reports no success.
LEMMA InstallFailsKeeps == ASSUME InstallInv, InstallFails PROVE InstallInv'
<1> USE HooksAre, InstallerAssumption
    DEF InstallInv, InstallTypeOK, RunInv, IsWorking, InstallSteps, AtStep, hook, plan, InstallFails, Exits
<1>1. InstallTypeOK'
  BY DEF Contents, UserHooks
<1>2. RunInv'
  OBVIOUS
<1>3. NamesFree'
  BY DEF NamesFree
<1>4. NothingOverwritten'
  BY DEF NothingOverwritten, UserHooks, Contents
<1>5. PlanDone'
  BY DEF PlanDone, ShimThere
<1>6. UserHooksKept'
  BY DEF UserHooksKept, NamesFree, NothingOverwritten, UserHooks
<1>7. SuccessMeansInstalled'
  BY DEF SuccessMeansInstalled, PlanDone, ShimThere
<1> QED
  BY <1>1, <1>2, <1>3, <1>4, <1>5, <1>6, <1>7

\* Nor does one that is killed.
LEMMA InstallerKilledKeeps == ASSUME InstallInv, InstallerKilled PROVE InstallInv'
<1> USE HooksAre, InstallerAssumption
    DEF InstallInv, InstallTypeOK, RunInv, IsWorking, InstallSteps, AtStep, hook, plan, InstallerKilled, Exits
<1>1. InstallTypeOK'
  BY DEF Contents, UserHooks
<1>2. RunInv'
  OBVIOUS
<1>3. NamesFree'
  BY DEF NamesFree
<1>4. NothingOverwritten'
  BY DEF NothingOverwritten, UserHooks, Contents
<1>5. PlanDone'
  BY DEF PlanDone, ShimThere
<1>6. UserHooksKept'
  BY DEF UserHooksKept, NamesFree, NothingOverwritten, UserHooks
<1>7. SuccessMeansInstalled'
  BY DEF SuccessMeansInstalled, PlanDone, ShimThere
<1> QED
  BY <1>1, <1>2, <1>3, <1>4, <1>5, <1>6, <1>7

\* The user overwrites no hook of his own.
LEMMA UserWritesKeeps == ASSUME NEW h \in Hooks, InstallInv, UserWrites(h) PROVE InstallInv'
<1> USE HooksAre, InstallerAssumption
    DEF InstallInv, InstallTypeOK, RunInv, IsWorking, InstallSteps, AtStep, hook, plan, UserWrites
<1>1. InstallTypeOK'
  BY DEF Contents, UserHooks
<1>2. RunInv'
  OBVIOUS
<1>3. NamesFree'
  BY DEF NamesFree
<1>4. NothingOverwritten'
  BY DEF NothingOverwritten, UserHooks, Contents
<1>5. PlanDone'
  BY DEF PlanDone, ShimThere
<1>6. UserHooksKept'
  BY DEF UserHooksKept, NamesFree, NothingOverwritten, UserHooks
<1>7. SuccessMeansInstalled'
  <2> SUFFICES ASSUME exitStatus' = "0", NEW g \in Hooks
               PROVE  hookFile'[g] \in {<<"shim">>} \cup UserHooks' /\ (windows' \/ g \in executable')
    BY DEF SuccessMeansInstalled
  <2>1. hookFile'[g] \in {<<"shim">>} \cup UserHooks
    BY DEF SuccessMeansInstalled, PlanDone, ShimThere, UserHooks
  <2>2. windows' \/ g \in executable'
    BY DEF SuccessMeansInstalled, PlanDone, ShimThere
  <2> QED
    BY <2>1, <2>2 DEF UserHooks
<1> QED
  BY <1>1, <1>2, <1>3, <1>4, <1>5, <1>6, <1>7

\* What the installer starts from: no hooks, no backups and no run.
LEMMA InitInstalls == InstallInit => InstallInv
<1> SUFFICES ASSUME InstallInit PROVE InstallInv
  OBVIOUS
<1> USE HooksAre, InstallerAssumption DEF InstallInit, IsWorking
<1>1. InstallTypeOK
  <2>1. windows \in BOOLEAN /\ mistaken \in BOOLEAN
    OBVIOUS
  <2>2. /\ hookFile \in [Hooks -> Contents] /\ executable \subseteq Hooks
        /\ backups \in [Hooks \X (1 .. MaxRuns) -> Contents]
    BY DEF Contents
  <2>3. /\ installer.at \in InstallSteps /\ installer.hook \in DOMAIN plan
        /\ exitStatus \in {"none", "0", "1"}
    BY DEF InstallSteps
  <2>4. runs \in 0 .. MaxRuns /\ failures \in 0 .. MaxFailures /\ authored \in 0 .. MaxUserHooks
    OBVIOUS
  <2> QED
    BY <2>1, <2>2, <2>3, <2>4 DEF InstallTypeOK, InstallSteps
<1>2. RunInv
  BY DEF RunInv, InstallSteps
<1>3. NamesFree /\ NothingOverwritten /\ PlanDone
  BY DEF NamesFree, NothingOverwritten, PlanDone
<1>4. UserHooksKept /\ SuccessMeansInstalled
  BY DEF UserHooksKept, SuccessMeansInstalled
<1> QED
  BY <1>1, <1>2, <1>3, <1>4 DEF InstallInv

LEMMA InstallStepKeeps == InstallInv /\ [InstallNext]_installVars => InstallInv'
<1> SUFFICES ASSUME InstallInv, [InstallNext]_installVars PROVE InstallInv'
  OBVIOUS
<1>1. CASE InstallNext
  BY <1>1, RunKeeps, StatHookKeeps, ReadHookKeeps, RenameHookKeeps, OpenHookKeeps, WriteHookKeeps,
     ChmodHookKeeps, InstallFailsKeeps, InstallerKilledKeeps, UserWritesKeeps
  DEF InstallNext
<1>2. CASE UNCHANGED installVars
  BY <1>2
  DEF installVars, InstallInv, InstallTypeOK, RunInv, IsWorking, NamesFree, NothingOverwritten, PlanDone,
      ShimThere, hook, UserHooksKept, SuccessMeansInstalled
<1> QED
  BY <1>1, <1>2

InstallSpec == InstallInit /\ [][InstallNext]_installVars

\* Whatever step of the installer fails or is the last before it is killed, and however often it is
\* run again, a hook that the user wrote is in its place or in a backup of its own (installHooks(),
\* installSingleHook()).
THEOREM NoHookIsLost == InstallSpec => []UserHooksKept
<1>1. InstallInv => UserHooksKept
  BY DEF InstallInv
<1> QED
  BY <1>1, InitInstalls, InstallStepKeeps, PTL DEF InstallSpec

\* Exit code 0 means that both hooks are whole and executable, also when earlier runs were cut
\* short and when the user has written hooks since (runInstallHooks()).
THEOREM SuccessIsTold == InstallSpec => []SuccessMeansInstalled
<1>1. InstallInv => SuccessMeansInstalled
  BY DEF InstallInv
<1> QED
  BY <1>1, InitInstalls, InstallStepKeeps, PTL DEF InstallSpec

-----------------------------------------------------------------------------
(* modules.check_compatibility: the git process that                       *)
(* resolveCoreVersionFromGit() starts is the only one, and nobody waits    *)
(* without one.                                                            *)

\* A call is a record (of any id and version: they do not matter here).
CallShape(f) ==
  /\ f = [c \in Checks |-> f[c]]
  /\ \A c \in Checks : f[c] = [at |-> f[c].at, id |-> f[c].id, min |-> f[c].min]

\* The promise in the cache stands for exactly one process, and there is no other.
GitInv ==
  /\ CallShape(checks)
  /\ cache \in {NoEntry, Promised} \/ cache.state = "kept"
  /\ gits \subseteq Checks
  /\ \A c, d \in gits : c = d
  /\ Waiting # {} => gits # {}
  /\ cache = Promised <=> gits # {}

\* The three states of the cache differ.
LEMMA CacheStates ==
  /\ NoEntry.state = "empty" /\ Promised.state = "pending" /\ NoEntry # Promised
  /\ \A v : Kept(v).state = "kept"
BY DEF NoEntry, Promised, Kept

\* A call moves on.
LEMMA CheckMoves ==
  ASSUME CallShape(checks), NEW c \in Checks, NEW d, d = [at |-> d.at, id |-> d.id, min |-> d.min],
         checks' = [checks EXCEPT ![c] = d]
  PROVE  CallShape(checks') /\ Waiting' \subseteq Waiting \cup {c} /\ (d.at # "wait" => Waiting' \subseteq Waiting)
<1>1. \A e \in Checks : checks'[e] = IF e = c THEN d ELSE checks[e]
  BY DEF CallShape
<1>2. CallShape(checks')
  BY <1>1 DEF CallShape
<1> QED
  BY <1>1, <1>2 DEF Waiting

\* Before the version is asked for, and when it is kept, nothing changes for those who wait.
LEMMA NotWaitingKeeps ==
  ASSUME GitInv, NEW c \in Checks, NEW d, d = [at |-> d.at, id |-> d.id, min |-> d.min], d.at # "wait",
         checks' = [checks EXCEPT ![c] = d], UNCHANGED <<cache, gits>>
  PROVE  GitInv'
<1>1. CallShape(checks') /\ Waiting' \subseteq Waiting
  BY CheckMoves DEF GitInv
<1> QED
  BY <1>1 DEF GitInv

LEMMA StartKeeps ==
  ASSUME GitInv, NEW c \in Checks, NEW id \in ModuleIds, StartCheck(c, id) PROVE GitInv'
<1> DEFINE b == [checks[c] EXCEPT !.at = "scan"]
           d == [b EXCEPT !.id = id]
<1>0. checks[c] = [at |-> checks[c].at, id |-> checks[c].id, min |-> checks[c].min]
  BY DEF GitInv, CallShape
<1>1. b = [at |-> "scan", id |-> checks[c].id, min |-> checks[c].min]
  BY <1>0
<1>2. checks' = [checks EXCEPT ![c] = d] /\ UNCHANGED <<cache, gits>>
  BY DEF StartCheck
<1> HIDE DEF b
<1>3. d = [at |-> "scan", id |-> id, min |-> checks[c].min]
  BY <1>1
<1> HIDE DEF d
<1> QED
  BY <1>2, <1>3, NotWaitingKeeps

\* A call that ends.
LEMMA EndKeeps ==
  ASSUME GitInv, NEW c \in Checks, NEW v, CheckEnds(c, v), UNCHANGED <<cache, gits>> PROVE GitInv'
<1> DEFINE d == [checks[c] EXCEPT !.at = "done"]
<1>1. d = [at |-> "done", id |-> checks[c].id, min |-> checks[c].min]
  BY DEF GitInv, CallShape
<1>2. checks' = [checks EXCEPT ![c] = d]
  BY DEF CheckEnds
<1> HIDE DEF d
<1> QED
  BY <1>1, <1>2, NotWaitingKeeps

LEMMA ScannedKeeps == ASSUME GitInv, NEW c \in Checks, Scanned(c) PROVE GitInv'
<1>1. UNCHANGED <<cache, gits>>
  BY DEF Scanned
<1>2. CASE CheckEnds(c, [kind |-> "error"])
  BY <1>1, <1>2, EndKeeps
<1>3. ASSUME NEW m, checks' = [checks EXCEPT ![c].at = "resolve", ![c].min = m] PROVE GitInv'
  <2> DEFINE b == [checks[c] EXCEPT !.at = "resolve"]
             d == [b EXCEPT !.min = m]
  <2>0. checks[c] = [at |-> checks[c].at, id |-> checks[c].id, min |-> checks[c].min]
    BY DEF GitInv, CallShape
  <2>2. b = [at |-> "resolve", id |-> checks[c].id, min |-> checks[c].min]
    BY <2>0
  <2>3. checks' = [checks EXCEPT ![c] = d]
    BY <1>3 DEF GitInv, CallShape
  <2> HIDE DEF b
  <2>4. d = [at |-> "resolve", id |-> checks[c].id, min |-> m]
    BY <2>2
  <2> HIDE DEF d
  <2> QED
    BY <1>1, <2>3, <2>4, NotWaitingKeeps
<1> QED
  BY <1>2, <1>3 DEF Scanned

\* A process is started only when the cache is empty, and then there is none.
LEMMA ResolveKeeps == ASSUME GitInv, NEW c \in Checks, Resolve(c) PROVE GitInv'
<1>1. CASE cache.state = "kept"
  BY <1>1, EndKeeps DEF Resolve
<1>2. CASE cache.state # "kept"
  <2> DEFINE d == [checks[c] EXCEPT !.at = "wait"]
  <2>1. d = [at |-> "wait", id |-> checks[c].id, min |-> checks[c].min]
    BY DEF GitInv, CallShape
  <2>2. /\ checks' = [checks EXCEPT ![c] = d]
        /\ gits' = IF cache = NoEntry THEN gits \cup {c} ELSE gits
        /\ cache' = Promised
    BY <1>2 DEF Resolve
  <2>3. CallShape(checks')
    <3> HIDE DEF d
    <3> QED
      BY <2>1, <2>2, CheckMoves DEF GitInv
  <2>4. cache = NoEntry => gits = {}
    BY CacheStates DEF GitInv
  <2>5. cache # NoEntry => gits # {}
    BY <1>2 DEF GitInv
  <2>6. gits' \subseteq Checks /\ gits' # {} /\ \A a, b \in gits' : a = b
    BY <2>2, <2>4, <2>5 DEF GitInv
  <2> QED
    BY <2>2, <2>3, <2>6 DEF GitInv
<1> QED
  BY <1>1, <1>2

\* Whoever waited is told when the process ends, and the promise goes with it.
LEMMA SettlesAll ==
  ASSUME GitInv, NEW c \in gits, NEW ends, gits' = gits \ {c}, SettleAll(ends), cache' # Promised,
         cache' = NoEntry \/ cache'.state = "kept"
  PROVE  GitInv'
<1>1. gits' = {}
  BY DEF GitInv
<1>2. \A e \in Checks : checks'[e] = IF e \in Waiting THEN [checks[e] EXCEPT !.at = "done"] ELSE checks[e]
  BY DEF SettleAll
<1>3. ASSUME NEW e \in Checks
      PROVE  checks'[e].at # "wait" /\ checks'[e] = [at |-> checks'[e].at, id |-> checks'[e].id, min |-> checks'[e].min]
  <2>1. checks[e] = [at |-> checks[e].at, id |-> checks[e].id, min |-> checks[e].min]
    BY DEF GitInv, CallShape
  <2>2. CASE e \in Waiting
    <3>1. checks'[e] = [at |-> "done", id |-> checks[e].id, min |-> checks[e].min]
      BY <1>2, <2>1, <2>2
    <3> QED
      BY <3>1
  <2>3. CASE e \notin Waiting
    BY <1>2, <2>1, <2>3 DEF Waiting
  <2> QED
    BY <2>2, <2>3
<1>4. checks' = [e \in Checks |-> checks'[e]]
  BY DEF SettleAll
<1>5. Waiting' = {}
  BY <1>3 DEF Waiting
<1>6. CallShape(checks')
  BY <1>3, <1>4 DEF CallShape
<1> QED
  BY <1>1, <1>5, <1>6 DEF GitInv

LEMMA GitEndsKeeps ==
  ASSUME GitInv, NEW c \in Checks, GitDescribes(c) \/ GitFails(c) PROVE GitInv'
<1>1. CASE GitDescribes(c)
  <2>1. cache'.state = "kept" /\ cache' # Promised
    BY <1>1, CacheStates DEF GitDescribes
  <2> QED
    BY <1>1, <2>1, SettlesAll DEF GitDescribes
<1>2. CASE GitFails(c)
  BY <1>2, CacheStates, SettlesAll DEF GitFails
<1> QED
  BY <1>1, <1>2

ModuleToolsSpec == ModuleToolsInit /\ [][ModuleToolsNext]_moduleVars

\* One process means: at most one.
LEMMA GitInvImplies == GitInv => OneGit
<1> SUFFICES ASSUME GitInv PROVE Cardinality(gits) <= 1
  BY DEF GitInv, OneGit
<1>1. CASE gits = {}
  BY <1>1, FS_EmptySet
<1>2. ASSUME NEW c \in gits PROVE Cardinality(gits) <= 1
  <2>1. gits = {c}
    BY <1>2 DEF GitInv
  <2> QED
    BY <2>1, FS_Singleton
<1> QED
  BY <1>1, <1>2

\* Any number of concurrent calls share one git process, and no call waits for one that has
\* ended: the promise kept by resolveCoreVersionFromGit() and the deletion of its entry when git
\* fails never get out of step.
THEOREM OneProcess == ModuleToolsSpec => []OneGit
<1>1. ModuleToolsInit => GitInv
  <2> SUFFICES ASSUME ModuleToolsInit PROVE GitInv
    OBVIOUS
  <2>1. CallShape(checks) /\ Waiting = {}
    BY DEF ModuleToolsInit, CallShape, Waiting
  <2> QED
    BY <2>1, CacheStates DEF ModuleToolsInit, GitInv
<1>2. GitInv /\ [ModuleToolsNext]_moduleVars => GitInv'
  <2> SUFFICES ASSUME GitInv, [ModuleToolsNext]_moduleVars PROVE GitInv'
    OBVIOUS
  <2>1. ASSUME UNCHANGED <<checks, cache, gits>> PROVE GitInv'
    BY <2>1 DEF GitInv, Waiting
  <2>2. ASSUME NEW d \in ToSet(Dirs), NEW m \in Manifest \cup {Absent}, InstallModule(d, m) PROVE GitInv'
    BY <2>1, <2>2 DEF InstallModule
  <2>3. ASSUME NEW v \in Versions, Release(v) PROVE GitInv'
    BY <2>1, <2>3 DEF Release
  <2>4. CASE UNCHANGED moduleVars
    BY <2>1, <2>4 DEF moduleVars
  <2> QED
    BY <2>2, <2>3, <2>4, StartKeeps, ScannedKeeps, ResolveKeeps, GitEndsKeeps DEF ModuleToolsNext
<1> QED
  BY <1>1, <1>2, GitInvImplies, PTL DEF ModuleToolsSpec

\* What a verdict is made of: versions that git has described and modules have asked for.
VerdictInv ==
  /\ tag \in tags /\ tags \subseteq Versions
  /\ manifests \in [ToSet(Dirs) -> Manifest \cup {Absent}]
  /\ CallShape(checks) /\ \A c \in Checks : checks[c].min \in Versions
  /\ cache.state = "kept" => cache.version \in tags
  /\ verdict = [c \in Checks |-> verdict[c]]
  /\ VerdictTrue

\* Comparing from left to right is comparing by the first number that differs.
LEMMA ComparesRightly ==
  ASSUME NEW core \in Versions, NEW min \in Versions
  PROVE  compatible(core, min) <=> (Len(min.nums) = 3 /\ Len(core.nums) = 3 /\ ~Earlier(core.nums, min.nums))
<1> DEFINE a == core.nums
           b == min.nums
<1>1. a \in Seq(Nat) /\ b \in Seq(Nat)
  BY ModuleToolsAssumption
<1>2. (parseSemver(core) # <<>> <=> Len(a) = 3) /\ (parseSemver(min) # <<>> <=> Len(b) = 3)
  <2>1. ASSUME NEW q \in Seq(Nat), Len(q) = 3 PROVE q # <<>>
    <3>1. 1 \in DOMAIN q
      BY <2>1
    <3>2. DOMAIN <<>> = {}
      OBVIOUS
    <3>3. q = <<>> => DOMAIN q = DOMAIN <<>>
      OBVIOUS
    <3> QED BY <3>1, <3>2, <3>3, Zenon
  <2> QED BY <1>1, <2>1 DEF parseSemver
<1>3. ASSUME Len(a) = 3, Len(b) = 3 PROVE compareSemver(a, b) >= 0 <=> ~Earlier(a, b)
  <2>1. \A i \in 1 .. 3 : a[i] \in Nat /\ b[i] \in Nat
    BY <1>1, <1>3
  <2> HIDE DEF a, b
  <2> DEFINE differs == {i \in 1 .. 3 : a[i] # b[i]}
             first == CHOOSE i \in differs : \A j \in differs : i <= j
  <2>2. compareSemver(a, b) = IF differs = {} THEN 0 ELSE IF a[first] < b[first] THEN -1 ELSE 1
    BY DEF compareSemver
  <2>3. CASE differs = {}
    <3>1. a[1] = b[1] /\ a[2] = b[2] /\ a[3] = b[3]
      BY <2>3
    <3> QED BY <2>1, <2>2, <2>3, <3>1 DEF Earlier
  <2>4. CASE differs # {}
    <3>1. \E i \in differs : \A j \in differs : i <= j
      <4>1. CASE 1 \in differs
        BY <4>1
      <4>2. CASE 1 \notin differs /\ 2 \in differs
        BY <4>2
      <4>3. CASE 1 \notin differs /\ 2 \notin differs
        BY <2>4, <4>3
      <4> QED BY <4>1, <4>2, <4>3
    <3>2. first \in differs /\ \A j \in differs : first <= j
      BY <3>1
    <3> HIDE DEF first
    <3>3. first \in 1 .. 3 /\ a[first] # b[first] /\ \A j \in 1 .. 3 : j < first => a[j] = b[j]
      BY <3>2
    <3>4. Earlier(a, b) <=> a[first] < b[first]
      <4>1. CASE first = 1
        BY <2>1, <3>3, <4>1 DEF Earlier
      <4>2. CASE first = 2
        BY <2>1, <3>3, <4>2 DEF Earlier
      <4>3. CASE first = 3
        BY <2>1, <3>3, <4>3 DEF Earlier
      <4> QED BY <3>3, <4>1, <4>2, <4>3
    <3> QED BY <2>2, <2>4, <3>4
  <2> QED BY <2>3, <2>4
<1> QED BY <1>2, <1>3 DEF compatible, parseSemver

\* A version that git has described makes a true verdict.
LEMMA VerdictIsTrue ==
  ASSUME VerdictInv, NEW c \in Checks, NEW core \in tags
  PROVE  LET r == Verdict(c, core) IN
           /\ r.core \in tags
           /\ r.compatible <=> (Len(r.min.nums) = 3 /\ Len(r.core.nums) = 3 /\ ~Earlier(r.core.nums, r.min.nums))
BY ComparesRightly DEF VerdictInv, Verdict

\* One call ends, or moves on.
LEMMA OneCallTold ==
  ASSUME VerdictInv, NEW c \in Checks, NEW d, NEW v, UNCHANGED <<tag, tags, manifests>>,
         checks' = [checks EXCEPT ![c] = d], d = [at |-> d.at, id |-> d.id, min |-> d.min], d.min \in Versions,
         verdict' = [verdict EXCEPT ![c] = v], cache'.state = "kept" => cache'.version \in tags,
         \/ v = verdict[c]
         \/ v = [kind |-> "error"]
         \/ \E core \in tags : v = Verdict(c, core)
  PROVE  VerdictInv'
<1>1. CallShape(checks') /\ \A e \in Checks : checks'[e].min \in Versions
  BY DEF VerdictInv, CallShape
<1>2. verdict' = [e \in Checks |-> verdict'[e]] /\ verdict'[c] = v /\ \A e \in Checks \ {c} : verdict'[e] = verdict[e]
  BY DEF VerdictInv
<1>3. VerdictTrue'
  BY <1>2, VerdictIsTrue DEF VerdictTrue, VerdictInv
<1> QED BY <1>1, <1>2, <1>3 DEF VerdictInv

LEMMA VerdictStepKeeps == VerdictInv /\ [ModuleToolsNext]_moduleVars => VerdictInv'
<1> SUFFICES ASSUME VerdictInv, [ModuleToolsNext]_moduleVars PROVE VerdictInv'
  OBVIOUS
<1>1. \A c \in Checks : checks[c] = [at |-> checks[c].at, id |-> checks[c].id, min |-> checks[c].min]
  BY DEF VerdictInv, CallShape
<1>2. ASSUME NEW d \in ToSet(Dirs), NEW m \in Manifest \cup {Absent}, InstallModule(d, m) PROVE VerdictInv'
  BY <1>2 DEF VerdictInv, InstallModule, VerdictTrue
<1>3. ASSUME NEW v \in Versions, Release(v) PROVE VerdictInv'
  BY <1>3 DEF VerdictInv, Release, VerdictTrue
<1>4. ASSUME NEW c \in Checks, NEW id \in ModuleIds, StartCheck(c, id) PROVE VerdictInv'
  <2> DEFINE b == [checks[c] EXCEPT !.at = "scan"]
             d == [b EXCEPT !.id = id]
  <2>0. checks[c] = [at |-> checks[c].at, id |-> checks[c].id, min |-> checks[c].min]
    BY <1>1
  <2>1. b = [at |-> "scan", id |-> checks[c].id, min |-> checks[c].min]
    BY <2>0
  <2>2. checks' = [checks EXCEPT ![c] = d] /\ UNCHANGED <<cache, tag, tags, manifests, verdict>>
    BY <1>4 DEF StartCheck
  <2> HIDE DEF b
  <2>3. d = [at |-> "scan", id |-> id, min |-> checks[c].min]
    BY <2>1
  <2> HIDE DEF d
  <2>4. d = [at |-> d.at, id |-> d.id, min |-> d.min] /\ d.min \in Versions
    BY <2>3 DEF VerdictInv
  <2>5. verdict' = [verdict EXCEPT ![c] = verdict[c]]
    BY <2>2 DEF VerdictInv
  <2> QED BY <2>2, <2>4, <2>5, OneCallTold DEF VerdictInv
<1>5. ASSUME NEW c \in Checks, NEW v, CheckEnds(c, v), UNCHANGED <<cache, tag, tags, manifests>>,
             v = [kind |-> "error"] \/ \E core \in tags : v = Verdict(c, core)
      PROVE  VerdictInv'
  <2> DEFINE d == [checks[c] EXCEPT !.at = "done"]
  <2>0. checks[c] = [at |-> checks[c].at, id |-> checks[c].id, min |-> checks[c].min]
    BY <1>1
  <2>1. d = [at |-> "done", id |-> checks[c].id, min |-> checks[c].min]
    BY <2>0
  <2>2. checks' = [checks EXCEPT ![c] = d] /\ verdict' = [verdict EXCEPT ![c] = v]
    BY <1>5 DEF CheckEnds
  <2> HIDE DEF d
  <2>3. d = [at |-> d.at, id |-> d.id, min |-> d.min] /\ d.min \in Versions
    BY <2>1 DEF VerdictInv
  <2> QED BY <1>5, <2>2, <2>3, OneCallTold DEF VerdictInv
<1>6. ASSUME NEW c \in Checks, Scanned(c) PROVE VerdictInv'
  <2>1. CASE CheckEnds(c, [kind |-> "error"])
    BY <1>5, <1>6, <2>1 DEF Scanned
  <2>2. ASSUME NEW k \in find(checks[c].id),
               checks' = [checks EXCEPT ![c].at = "resolve", ![c].min = manifests[Dirs[k]].min],
               UNCHANGED verdict
        PROVE  VerdictInv'
    <3> DEFINE m == manifests[Dirs[k]].min
               b == [checks[c] EXCEPT !.at = "resolve"]
               d == [b EXCEPT !.min = m]
    <3>1. m \in Versions
      <4>1. Dirs[k] \in ToSet(Dirs) /\ manifests[Dirs[k]] # Absent
        BY DEF find, scanModules, ToSet
      <4>2. manifests[Dirs[k]] \in Manifest
        BY <4>1 DEF VerdictInv
      <4> QED BY <4>2 DEF Manifest
    <3> HIDE DEF m
    <3>0. checks[c] = [at |-> checks[c].at, id |-> checks[c].id, min |-> checks[c].min]
      BY <1>1
    <3>2. b = [at |-> "resolve", id |-> checks[c].id, min |-> checks[c].min]
      BY <3>0
    <3>3. checks' = [checks EXCEPT ![c] = d]
      BY <2>2 DEF m, VerdictInv, CallShape
    <3> HIDE DEF b
    <3>4. d = [at |-> "resolve", id |-> checks[c].id, min |-> m]
      BY <3>2
    <3> HIDE DEF d
    <3>5. d = [at |-> d.at, id |-> d.id, min |-> d.min] /\ d.min \in Versions
      BY <3>1, <3>4
    <3>6. verdict' = [verdict EXCEPT ![c] = verdict[c]] /\ UNCHANGED <<cache, tag, tags, manifests>>
      BY <1>6, <2>2 DEF VerdictInv, Scanned
    <3> QED BY <3>3, <3>5, <3>6, OneCallTold DEF VerdictInv
  <2> QED BY <1>6, <2>1, <2>2 DEF Scanned
<1>7. ASSUME NEW c \in Checks, Resolve(c) PROVE VerdictInv'
  <2>1. CASE cache.state = "kept"
    BY <1>5, <1>7, <2>1 DEF Resolve, VerdictInv
  <2>2. CASE cache.state # "kept"
    <3> DEFINE d == [checks[c] EXCEPT !.at = "wait"]
    <3>0. checks[c] = [at |-> checks[c].at, id |-> checks[c].id, min |-> checks[c].min]
      BY <1>1
    <3>1. d = [at |-> "wait", id |-> checks[c].id, min |-> checks[c].min]
      BY <3>0
    <3>2. checks' = [checks EXCEPT ![c] = d] /\ cache' = Promised /\ UNCHANGED <<tag, tags, manifests, verdict>>
      BY <1>7, <2>2 DEF Resolve
    <3> HIDE DEF d
    <3>3. d = [at |-> d.at, id |-> d.id, min |-> d.min] /\ d.min \in Versions
      BY <3>1 DEF VerdictInv
    <3>4. verdict' = [verdict EXCEPT ![c] = verdict[c]] /\ cache'.state # "kept"
      BY <3>2, CacheStates DEF VerdictInv
    <3> QED BY <3>2, <3>3, <3>4, OneCallTold
  <2> QED BY <2>1, <2>2
<1>8. ASSUME NEW ends, SettleAll(ends), UNCHANGED <<tag, tags, manifests>>,
             cache' = NoEntry \/ cache' = Kept(tag),
             \A w \in Waiting : ends[w] = [kind |-> "error"] \/ ends[w] = Verdict(w, tag)
      PROVE  VerdictInv'
  <2>1. \A c \in Checks : checks'[c] = [at |-> checks'[c].at, id |-> checks'[c].id, min |-> checks'[c].min]
                          /\ checks'[c].min = checks[c].min
    <3> SUFFICES ASSUME NEW c \in Checks
                 PROVE  /\ checks'[c] = [at |-> checks'[c].at, id |-> checks'[c].id, min |-> checks'[c].min]
                        /\ checks'[c].min = checks[c].min
      OBVIOUS
    <3>1. checks'[c] = IF c \in Waiting THEN [checks[c] EXCEPT !.at = "done"] ELSE checks[c]
      BY <1>8 DEF SettleAll
    <3> QED BY <1>1, <3>1
  <2>2. checks' = [c \in Checks |-> checks'[c]] /\ verdict' = [c \in Checks |-> verdict'[c]]
    BY <1>8 DEF SettleAll
  <2>3. cache'.state = "kept" => cache'.version \in tags
    BY <1>8, CacheStates DEF VerdictInv, Kept
  <2>4. \A c \in Checks : verdict'[c] \in {verdict[c], [kind |-> "error"], Verdict(c, tag)}
    BY <1>8 DEF SettleAll
  <2>5. VerdictTrue'
    <3> SUFFICES ASSUME NEW c \in Checks, verdict'[c].kind = "result"
                 PROVE  LET r == verdict'[c] IN
                          /\ r.core \in tags
                          /\ r.compatible <=> (Len(r.min.nums) = 3 /\ Len(r.core.nums) = 3 /\ ~Earlier(r.core.nums, r.min.nums))
      BY <1>8 DEF VerdictTrue
    <3>1. CASE verdict'[c] = verdict[c]
      BY <3>1 DEF VerdictInv, VerdictTrue
    <3>2. CASE verdict'[c] = Verdict(c, tag)
      BY <3>2, VerdictIsTrue DEF VerdictInv
    <3> QED BY <2>4, <3>1, <3>2
  <2> QED BY <1>8, <2>1, <2>2, <2>3, <2>5 DEF VerdictInv, CallShape
<1>9. ASSUME NEW c \in Checks, GitDescribes(c) PROVE VerdictInv'
  <2> DEFINE ends == [w \in Waiting |-> Verdict(w, tag)]
  <2>1. \A w \in Waiting : ends[w] = Verdict(w, tag)
    OBVIOUS
  <2>2. SettleAll(ends) /\ cache' = Kept(tag) /\ UNCHANGED <<tag, tags, manifests>>
    BY <1>9 DEF GitDescribes
  <2> HIDE DEF ends
  <2> QED BY <1>8, <2>1, <2>2
<1>10. ASSUME NEW c \in Checks, GitFails(c) PROVE VerdictInv'
  <2> DEFINE ends == [w \in Waiting |-> [kind |-> "error"]]
  <2>1. \A w \in Waiting : ends[w] = [kind |-> "error"]
    OBVIOUS
  <2>2. SettleAll(ends) /\ cache' = NoEntry /\ UNCHANGED <<tag, tags, manifests>>
    BY <1>10 DEF GitFails
  <2> HIDE DEF ends
  <2> QED BY <1>8, <2>1, <2>2
<1>11. CASE UNCHANGED moduleVars
  BY <1>11 DEF moduleVars, VerdictInv, VerdictTrue
<1> QED BY <1>2, <1>3, <1>4, <1>6, <1>7, <1>9, <1>10, <1>11 DEF ModuleToolsNext

LEMMA VerdictBegins == ModuleToolsInit => VerdictInv
<1> SUFFICES ASSUME ModuleToolsInit PROVE VerdictInv
  OBVIOUS
<1>1. CallShape(checks) /\ \A c \in Checks : checks[c].min \in Versions
  BY ModuleToolsAssumption DEF ModuleToolsInit, CallShape
<1>2. verdict = [c \in Checks |-> verdict[c]] /\ VerdictTrue
  BY DEF ModuleToolsInit, VerdictTrue, NoVerdict
<1> QED BY <1>1, <1>2, CacheStates DEF ModuleToolsInit, VerdictInv

\* Concurrent checks share one git process, and what each is told is right: the core version is one
\* that git described, and it is compatible just when both versions have three numbers and the
\* core's is not the earlier one (checkCompatibility(), compareSemver()).
THEOREM VerdictsAreTrue == ModuleToolsSpec => []CompatibilityTold
<1>1. ModuleToolsSpec => []VerdictInv
  BY VerdictBegins, VerdictStepKeeps, PTL DEF ModuleToolsSpec
<1>2. VerdictInv /\ OneGit => CompatibilityTold
  BY DEF VerdictInv, CompatibilityTold
<1> QED BY <1>1, <1>2, OneProcess, PTL

-----------------------------------------------------------------------------
(* The writers of project files: what makes the writers safe is that every *)
(* call writes to an inode of its own until it renames it into place.      *)

\* Every call makes an inode of its own at most once, no two paths name the same one, and the
\* file itself is always there.  The editor has no temporary file.
PathsInv ==
  /\ paths[Target] # NoFile
  /\ \A p, q \in Paths : (paths[p] = paths[q] /\ paths[p] # NoFile) => p = q
  /\ \A w \in Writers : step[w] \in {"idle", "read"} =>
       (\A p \in Paths : paths[p] # w) /\ (\A v \in Writers : open[v] # w)
  /\ \A w \in Writers : Holds(w) => open[w] # NoFile
  /\ \A w \in Writers : role[w] = "editor" => step[w] \notin {"written", "unlink"}

\* What a call has open is its own, as long as no temporary file was shared: no other call
\* writes to it and no other path names it, although the path may have been removed.
OwnInv(w) ==
  /\ \A p \in Paths : paths[p] = open[w] => p = temp(w)
  /\ role[w] # "editor" => paths[temp(w)] \in {open[w], NoFile}
  /\ inodes[open[w]] = IF step[w] = "opened" THEN EmptyFile ELSE WholeFile(seen[w])
  /\ \A v \in Writers \ {w} : Holds(v) => temp(v) # temp(w) /\ open[v] # open[w]
HoldsInv == ~shared => \A w \in Writers : Holds(w) => OwnInv(w)

\* The change of a call is in the file, or in what another call has read of it, only if the
\* call succeeded.
KeysInv ==
  ~shared => \A w \in Writers : step[w] # "done" =>
    w \notin target.keys /\ \A v \in Writers \ {w} : w \notin seen[v]

\* Calls in turn: one at a time, whose temporary file stays where it is.
TurnInv ==
  ~overlap =>
    /\ ~shared
    /\ \A v, w \in Writers : Running(v) /\ Running(w) => v = w
    /\ \A w \in Writers : Holds(w) => paths[temp(w)] = open[w]

\* In turn and without failures, what a call is about to write has everything in it.
Undisturbed == ~overlap /\ ioErrors = 0 /\ ~(InPlace /\ \E w \in Writers : step[w] = "dead")
Succeeded == {Original} \cup {w \in Writers : step[w] = "done"}
NothingLostInv ==
  Undisturbed =>
    /\ \A w \in Writers : step[w] \in {"read", "opened", "written"} => Succeeded \cup {w} \subseteq seen[w]
    /\ (\A w \in Writers : ~(role[w] = "editor" /\ step[w] = "opened")) => Succeeded \subseteq target.keys

\* A temporary file is somebody's who will remove it or has died, or there were failures.
Excused == ioErrors > 0 /\ (ioErrors > 1 \/ \E w \in Writers : role[w] \in {"setEnabled", "updateSettings"})
OrphansInv ==
  \A p \in Paths \ {Target} : paths[p] # NoFile =>
    \/ \E w \in Writers : step[w] \in {"opened", "written", "dead"} /\ temp(w) = p
    \/ ioErrors > 0 /\ \E w \in Writers : step[w] = "unlink" /\ temp(w) = p
    \/ Excused

FilesInv == /\ FilesTypeOK /\ PathsInv /\ HoldsInv /\ KeysInv /\ TurnInv /\ NothingLostInv /\ OrphansInv
            /\ ReadersSeeWhole

LEMMA TempIs ==
  ASSUME FilesTypeOK, NEW w \in Writers
  PROVE  temp(w) \in Paths /\ (temp(w) = Target <=> role[w] = "editor")
BY ProjectFilesAssumption DEF temp, Paths, FilesTypeOK, Role, Target

LEMMA TempStays ==
  ASSUME UNCHANGED <<role, process>>
  PROVE  \A w \in Writers : temp(w)' = temp(w)
BY DEF temp

LEMMA InodesAre ==
  /\ NoFile \notin Inodes /\ Target \in Paths
  /\ \A w \in Writers : w \in Inodes /\ w # NoFile
  /\ EmptyFile.keys = {} /\ \A k : WholeFile(k).keys = k /\ WholeFile(k).status = "whole"
BY ProjectFilesAssumption DEF NoFile, Inodes, Original, Paths, EmptyFile, WholeFile

LEMMA TargetTyped ==
  ASSUME FilesTypeOK
  PROVE  target \in [status : {"empty", "mixed", "whole"}, keys : SUBSET FileKeys]
<1>1. CASE paths[Target] = NoFile
  BY <1>1 DEF target, WholeFile
<1>2. CASE paths[Target] # NoFile
  BY <1>2, InodesAre DEF target, FilesTypeOK
<1> QED BY <1>1, <1>2

LEMMA ReadTargetKeeps == ASSUME FilesInv, NEW w \in Writers, ReadTarget(w) PROVE FilesInv'
<1> USE TempStays, InodesAre DEF ReadTarget, FileStep, IoFails
<1>1. FilesTypeOK /\ PathsInv /\ HoldsInv /\ KeysInv /\ TurnInv /\ NothingLostInv /\ OrphansInv /\ ReadersSeeWhole
  BY DEF FilesInv
<1>2. /\ UNCHANGED <<role, process, paths, inodes, open, shared>> /\ target' = target
     /\ step[w] = "idle" /\ step' = [step EXCEPT ![w] = step'[w]] /\ step'[w] \in {"read", "done", "failed"}
     /\ \A v \in Writers : Holds(v)' <=> Holds(v)
  BY <1>1 DEF FilesTypeOK, Holds, target
<1>3. FilesTypeOK'
  <2>1. target.keys \cup {w} \in SUBSET FileKeys /\ {w} \in SUBSET FileKeys
    BY <1>1, TargetTyped DEF FileKeys
  <2>2. seen' \in [Writers -> SUBSET FileKeys]
    BY <1>1, <2>1 DEF FilesTypeOK
  <2>3. ioErrors' \in 0 .. MaxIoErrors
    BY <1>1, ProjectFilesAssumption DEF FilesTypeOK
  <2>4. overlap' \in BOOLEAN
    BY <1>1 DEF FilesTypeOK
  <2>5. step' \in [Writers -> {"idle", "read", "opened", "written", "unlink", "done", "failed", "dead"}]
    BY <1>1, <1>2 DEF FilesTypeOK
  <2> QED BY <1>1, <1>2, <2>2, <2>3, <2>4, <2>5, SMTT(20) DEF FilesTypeOK
<1>4. PathsInv'
  BY <1>1, <1>2 DEF PathsInv, FilesTypeOK
<1>5. HoldsInv'
  BY <1>1, <1>2 DEF HoldsInv, OwnInv, Holds, FilesTypeOK
<1>6. KeysInv'
  BY <1>1, <1>2 DEF KeysInv, FilesTypeOK
<1>7. ~overlap' => ~overlap /\ \A v \in Writers \ {w} : ~Running(v) /\ step'[v] = step[v] /\ ~Running(v)'
  BY <1>1, <1>2 DEF FilesTypeOK, Running
<1>8. TurnInv'
  <2>1. SUFFICES ASSUME ~overlap' PROVE TurnInv!2'
    BY DEF TurnInv
  <2>2. \A u, v \in Writers : Running(u)' /\ Running(v)' => u = v
    BY <2>1, <1>7
  <2> QED BY <1>1, <1>2, <1>7, <2>1, <2>2 DEF TurnInv
<1>9. NothingLostInv'
  <2>1. SUFFICES ASSUME Undisturbed' PROVE NothingLostInv!2'
    BY DEF NothingLostInv
  <2>2. Undisturbed /\ ioErrors' = 0
    BY <1>1, <1>2, <1>7, <2>1 DEF Undisturbed, InPlace, FilesTypeOK
  <2>3. Succeeded \subseteq target.keys
    BY <1>1, <1>2, <1>7, <2>1, <2>2 DEF NothingLostInv, Undisturbed, Running
  <2>4. step'[w] = "read" => seen'[w] = target.keys \cup {w} /\ Succeeded' = Succeeded
    BY <1>1, <1>2, <2>2 DEF Succeeded, FilesTypeOK
  <2>5. step'[w] # "read" => Succeeded' \subseteq target.keys
    BY <1>1, <1>2, <2>2, <2>3 DEF Succeeded, FilesTypeOK, Unchanged
  <2> QED BY <1>2, <1>7, <2>1, <2>3, <2>4, <2>5 DEF Undisturbed, Running
<1>10. OrphansInv'
  BY <1>1, <1>2 DEF OrphansInv, Excused, FilesTypeOK
<1>11. ReadersSeeWhole'
  BY <1>1, <1>2 DEF ReadersSeeWhole, Truncated, FilesTypeOK
<1> QED BY <1>3, <1>4, <1>5, <1>6, <1>8, <1>9, <1>10, <1>11 DEF FilesInv

LEMMA OpenTempKeeps == ASSUME FilesInv, NEW w \in Writers, OpenTemp(w) PROVE FilesInv'
<1> USE TempStays, InodesAre DEF OpenTemp, FileStep, IoFails
<1>1. FilesTypeOK /\ PathsInv /\ HoldsInv /\ KeysInv /\ TurnInv /\ NothingLostInv /\ OrphansInv /\ ReadersSeeWhole
  BY DEF FilesInv
<1> DEFINE p == temp(w)
           i == IF paths[p] = NoFile THEN w ELSE paths[p]
<1>2. /\ p \in Paths /\ (p = Target <=> role[w] = "editor") /\ i \in Inodes
      /\ \A v \in Writers : temp(v) \in Paths
  BY <1>1, TempIs DEF FilesTypeOK
<1>3. /\ step[w] = "read" /\ step' = [step EXCEPT ![w] = "opened"] /\ paths' = [paths EXCEPT ![p] = i]
      /\ inodes' = [inodes EXCEPT ![i] = EmptyFile] /\ open' = [open EXCEPT ![w] = i]
      /\ UNCHANGED <<role, process, seen, ioErrors, overlap>>
      /\ ~shared' => ~shared /\ \A v \in Writers \ {w} : Holds(v) => temp(v) # p
  BY DEF Holds
<1>4. \A q \in Paths : paths[q] = i => q = p
  BY <1>1, <1>2 DEF PathsInv, FilesTypeOK
<1>5. \A v \in Writers \ {w} : (Holds(v)' <=> Holds(v)) /\ open'[v] = open[v] /\ step'[v] = step[v]
  BY <1>1, <1>3 DEF FilesTypeOK, Holds
<1>6. /\ Holds(w)' /\ open'[w] = i /\ step'[w] = "opened" /\ paths'[p] = i /\ inodes'[i] = EmptyFile
      /\ \A q \in Paths \ {p} : paths'[q] = paths[q]
      /\ \A k \in Inodes \ {i} : inodes'[k] = inodes[k]
  BY <1>1, <1>2, <1>3 DEF FilesTypeOK, Holds
<1>7. p # Target => target' = target
  BY <1>1, <1>2, <1>4, <1>6 DEF target, FilesTypeOK
<1>8. p = Target => target' = EmptyFile
  BY <1>2, <1>6 DEF target
<1>9. FilesTypeOK'
  <2>1. shared' \in BOOLEAN
    BY <1>1 DEF FilesTypeOK
  <2>2. inodes' \in [Inodes -> [status : {"empty", "mixed", "whole"}, keys : SUBSET FileKeys]]
    BY <1>1, <1>2, <1>3 DEF FilesTypeOK, EmptyFile
  <2> QED BY <1>1, <1>2, <1>3, <2>1, <2>2 DEF FilesTypeOK
<1> HIDE DEF p, i, OpenTemp
<1>10. PathsInv'
  <2>1. paths'[Target] # NoFile
    BY <1>1, <1>2, <1>6 DEF PathsInv
  <2>2. \A q, r \in Paths : (paths'[q] = paths'[r] /\ paths'[q] # NoFile) => q = r
    BY <1>1, <1>2, <1>4, <1>6 DEF PathsInv
  <2>3. \A v \in Writers : step'[v] \in {"idle", "read"} =>
           (\A q \in Paths : paths'[q] # v) /\ (\A u \in Writers : open'[u] # v)
    <3>1. SUFFICES ASSUME NEW v \in Writers \ {w}, step[v] \in {"idle", "read"}
                   PROVE  (\A q \in Paths : paths'[q] # v) /\ (\A u \in Writers : open'[u] # v)
      BY <1>5, <1>6
    <3>2. i # v
      BY <1>1, <1>2, <3>1 DEF PathsInv, i
    <3> QED BY <1>1, <1>5, <1>6, <3>1, <3>2 DEF PathsInv
  <2>4. \A v \in Writers : Holds(v)' => open'[v] # NoFile
    BY <1>1, <1>2, <1>5, <1>6 DEF PathsInv
  <2>5. \A v \in Writers : role'[v] = "editor" => step'[v] \notin {"written", "unlink"}
    BY <1>1, <1>3, <1>5, <1>6 DEF PathsInv
  <2> QED BY <2>1, <2>2, <2>3, <2>4, <2>5 DEF PathsInv
<1>11. HoldsInv'
  <2> SUFFICES ASSUME ~shared', NEW v \in Writers, Holds(v)' PROVE OwnInv(v)'
    BY DEF HoldsInv
  <2>1. ~shared /\ \A u \in Writers \ {w} : Holds(u) => temp(u) # p /\ OwnInv(u)
    BY <1>1, <1>3 DEF HoldsInv
  <2>2. \A u \in Writers \ {w} : Holds(u) => open[u] # i
    <3> SUFFICES ASSUME NEW u \in Writers \ {w}, Holds(u), open[u] = i PROVE FALSE
      OBVIOUS
    <3>1. CASE paths[p] = NoFile
      BY <1>1, <1>3, <3>1 DEF PathsInv, i
    <3>2. CASE paths[p] # NoFile
      BY <1>2, <2>1, <3>2 DEF OwnInv, i
    <3> QED BY <3>1, <3>2
  <2>3. CASE v = w
    <3>1. \A q \in Paths : paths'[q] = i => q = p
      BY <1>4, <1>6
    <3>2. \A u \in Writers \ {w} : Holds(u)' => temp(u)' # temp(w)' /\ open'[u] # open'[w]
      BY <1>3, <1>5, <1>6, <2>1, <2>2 DEF p
    <3> QED BY <1>3, <1>6, <2>3, <3>1, <3>2 DEF OwnInv, p
  <2>4. CASE v # w
    <3>1. Holds(v) /\ OwnInv(v) /\ temp(v) # p /\ open[v] # i /\ open'[v] = open[v] /\ open[v] \in Inodes
      BY <1>1, <1>5, <2>1, <2>2, <2>4 DEF FilesTypeOK, PathsInv
    <3>2. temp(v)' = temp(v) /\ temp(v) \in Paths
      BY <1>2, <1>3
    <3>3. \A q \in Paths : paths'[q] = open'[v] => q = temp(v)'
      BY <1>6, <3>1, <3>2 DEF OwnInv
    <3>4. role'[v] # "editor" => paths'[temp(v)'] \in {open'[v], NoFile}
      BY <1>3, <1>6, <3>1, <3>2 DEF OwnInv
    <3>5. inodes'[open'[v]] = IF step'[v] = "opened" THEN EmptyFile ELSE WholeFile(seen'[v])
      BY <1>3, <1>5, <1>6, <2>4, <3>1 DEF OwnInv
    <3>6. \A u \in Writers \ {v} : Holds(u)' => temp(u)' # temp(v)' /\ open'[u] # open'[v]
      BY <1>3, <1>5, <1>6, <2>1, <2>4, <3>1, <3>2 DEF OwnInv, p
    <3> QED BY <3>3, <3>4, <3>5, <3>6 DEF OwnInv
  <2> QED BY <2>3, <2>4
<1>12. KeysInv'
  BY <1>1, <1>3, <1>5, <1>6, <1>7, <1>8 DEF KeysInv
<1>13. TurnInv'
  <2> SUFFICES ASSUME ~overlap' PROVE TurnInv!2'
    BY DEF TurnInv
  <2>1. ~overlap /\ ~shared /\ \A v \in Writers \ {w} : ~Running(v)
    BY <1>1, <1>3 DEF TurnInv, Running
  <2>2. \A v \in Writers \ {w} : ~Running(v)' /\ ~Holds(v)'
    BY <1>5, <2>1 DEF Running, Holds
  <2>3. ~shared'
    BY <2>1 DEF OpenTemp, Running, Holds
  <2> QED BY <1>3, <1>6, <2>2, <2>3 DEF p
<1>14. NothingLostInv'
  <2> SUFFICES ASSUME Undisturbed' PROVE NothingLostInv!2'
    BY DEF NothingLostInv
  <2>1. Undisturbed /\ Succeeded' = Succeeded
    BY <1>3, <1>5, <1>6 DEF Undisturbed, InPlace, Succeeded
  <2>2. \A v \in Writers : step'[v] \in {"read", "opened", "written"} => Succeeded' \cup {v} \subseteq seen'[v]
    BY <1>1, <1>3, <1>5, <2>1 DEF NothingLostInv
  <2>3. ASSUME \A v \in Writers : ~(role'[v] = "editor" /\ step'[v] = "opened") PROVE Succeeded' \subseteq target'.keys
    BY <1>1, <1>2, <1>3, <1>5, <1>6, <1>7, <2>1, <2>3 DEF NothingLostInv
  <2> QED BY <2>2, <2>3
<1>15. OrphansInv'
  BY <1>1, <1>3, <1>5, <1>6 DEF OrphansInv, Excused, p
<1>16. ReadersSeeWhole'
  <2>1. CASE p = Target
    <3>1. Truncated'
      BY <1>2, <1>3, <1>6, <2>1 DEF Truncated
    <3> QED BY <3>1 DEF ReadersSeeWhole
  <2>2. CASE p # Target
    <3>1. paths'[Target] = paths[Target] /\ target' = target
      BY <1>6, <1>7, <2>2
    <3>2. Truncated => Truncated'
      BY <1>3, <1>5, <3>1 DEF Truncated
    <3> QED BY <1>1, <1>3, <3>1, <3>2 DEF ReadersSeeWhole
  <2> QED BY <2>1, <2>2
<1> QED BY <1>9, <1>10, <1>11, <1>12, <1>13, <1>14, <1>15, <1>16 DEF FilesInv

LEMMA OpenFailsKeeps == ASSUME FilesInv, NEW w \in Writers, OpenFails(w) PROVE FilesInv'
<1> USE TempStays, InodesAre DEF OpenFails, FileStep, IoFails
<1>1. FilesTypeOK /\ PathsInv /\ HoldsInv /\ KeysInv /\ TurnInv /\ NothingLostInv /\ OrphansInv /\ ReadersSeeWhole
  BY DEF FilesInv
<1>2. /\ UNCHANGED <<role, process, paths, inodes, seen, open, shared, overlap>> /\ target' = target
      /\ step[w] = "read" /\ step' = [step EXCEPT ![w] = "failed"] /\ ioErrors' > ioErrors
      /\ \A v \in Writers : Holds(v)' <=> Holds(v)
  BY <1>1 DEF FilesTypeOK, Holds, target
<1>3. FilesTypeOK'
  BY <1>1, ProjectFilesAssumption DEF FilesTypeOK
<1>4. PathsInv'
  BY <1>1, <1>2 DEF PathsInv, FilesTypeOK
<1>5. HoldsInv'
  BY <1>1, <1>2 DEF HoldsInv, OwnInv, Holds, FilesTypeOK
<1>6. KeysInv'
  BY <1>1, <1>2 DEF KeysInv, FilesTypeOK
<1>7. TurnInv'
  BY <1>1, <1>2 DEF TurnInv, FilesTypeOK, Running
<1>8. NothingLostInv'
  BY <1>1, <1>2 DEF NothingLostInv, Undisturbed, FilesTypeOK
<1>9. OrphansInv'
  BY <1>1, <1>2 DEF OrphansInv, Excused, FilesTypeOK
<1>10. ReadersSeeWhole'
  BY <1>1, <1>2 DEF ReadersSeeWhole, Truncated, FilesTypeOK
<1> QED BY <1>3, <1>4, <1>5, <1>6, <1>7, <1>8, <1>9, <1>10 DEF FilesInv

LEMMA WriteTempKeeps == ASSUME FilesInv, NEW w \in Writers, WriteTemp(w) PROVE FilesInv'
<1> USE TempStays, InodesAre DEF WriteTemp, FileStep, IoFails
<1>1. FilesTypeOK /\ PathsInv /\ HoldsInv /\ KeysInv /\ TurnInv /\ NothingLostInv /\ OrphansInv /\ ReadersSeeWhole
  BY DEF FilesInv
<1>2. PICK c \in {WholeFile(seen[w]), MixedFile} :
        /\ inodes' = [inodes EXCEPT ![open[w]] = c]
        /\ inodes[open[w]] = EmptyFile => c = WholeFile(seen[w])
  OBVIOUS
<1>3. /\ step[w] = "opened" /\ step' = [step EXCEPT ![w] = IF role[w] = "editor" THEN "done" ELSE "written"]
      /\ UNCHANGED <<role, process, paths, seen, open, ioErrors, shared, overlap>>
      /\ Holds(w) /\ Running(w)
  BY DEF Holds, Running
<1>4. /\ step'[w] = IF role[w] = "editor" THEN "done" ELSE "written"
      /\ \A v \in Writers \ {w} : step'[v] = step[v] /\ (Holds(v)' <=> Holds(v)) /\ (Running(v)' <=> Running(v))
      /\ Holds(w)' <=> role[w] # "editor"
  BY <1>1, <1>3 DEF FilesTypeOK, Holds, Running
<1>5. open[w] \in Inodes /\ (temp(w) = Target <=> role[w] = "editor") /\ temp(w) \in Paths
  BY <1>1, <1>3, TempIs DEF FilesTypeOK, PathsInv
<1>6. inodes'[open[w]] = c /\ \A k \in Inodes \ {open[w]} : inodes'[k] = inodes[k]
  BY <1>1, <1>2, <1>5 DEF FilesTypeOK
<1>7. paths[Target] # open[w] => target' = target
  BY <1>1, <1>3, <1>6 DEF target, FilesTypeOK
<1>8. ASSUME ~shared
      PROVE  /\ OwnInv(w) /\ c = WholeFile(seen[w])
             /\ role[w] # "editor" => target' = target
             /\ paths[Target] = open[w] => target' = WholeFile(seen[w])
  <2>1. OwnInv(w) /\ c = WholeFile(seen[w])
    BY <1>1, <1>2, <1>3, <1>8 DEF HoldsInv, OwnInv
  <2> QED BY <1>1, <1>3, <1>5, <1>6, <1>7, <2>1 DEF OwnInv, target
<1> HIDE DEF WriteTemp
<1>9. FilesTypeOK'
  <2>1. c \in [status : {"empty", "mixed", "whole"}, keys : SUBSET FileKeys]
    BY <1>1 DEF FilesTypeOK, WholeFile, MixedFile
  <2> QED BY <1>1, <1>2, <1>3, <2>1 DEF FilesTypeOK
<1>10. PathsInv'
  BY <1>1, <1>3, <1>4 DEF PathsInv
<1>11. HoldsInv'
  <2> SUFFICES ASSUME ~shared', NEW v \in Writers, Holds(v)' PROVE OwnInv(v)'
    BY DEF HoldsInv
  <2>1. Holds(v) /\ OwnInv(v) /\ \A u \in Writers : Holds(u)' => Holds(u)
    BY <1>1, <1>3, <1>4 DEF HoldsInv
  <2>2. inodes'[open'[v]] = IF step'[v] = "opened" THEN EmptyFile ELSE WholeFile(seen'[v])
    <3>1. CASE v = w
      BY <1>3, <1>4, <1>6, <1>8, <3>1
    <3>2. CASE v # w
      <4>1. open[v] \in Inodes \ {open[w]}
        BY <1>1, <1>3, <2>1, <3>2 DEF OwnInv, FilesTypeOK, PathsInv
      <4> QED BY <1>3, <1>4, <1>6, <2>1, <3>2, <4>1 DEF OwnInv
    <3> QED BY <3>1, <3>2
  <2> QED BY <1>3, <2>1, <2>2 DEF OwnInv
<1>12. KeysInv'
  <2> SUFFICES ASSUME ~shared', NEW v \in Writers, step'[v] # "done"
               PROVE  v \notin target'.keys /\ \A u \in Writers \ {v} : v \notin seen'[u]
    BY DEF KeysInv
  <2>1. v \notin target.keys /\ \A u \in Writers \ {v} : v \notin seen[u]
    BY <1>1, <1>3, <1>4 DEF KeysInv
  <2>2. role[w] = "editor" => v # w
    BY <1>4
  <2> QED BY <1>3, <1>7, <1>8, <2>1, <2>2
<1>13. TurnInv'
  BY <1>1, <1>3, <1>4 DEF TurnInv, Running, Holds
<1>14. NothingLostInv'
  <2> SUFFICES ASSUME Undisturbed' PROVE NothingLostInv!2'
    BY DEF NothingLostInv
  <2>1. Undisturbed /\ ~overlap /\ ~shared
    BY <1>1, <1>3, <1>4 DEF Undisturbed, InPlace, TurnInv
  <2>2. Succeeded \cup {w} \subseteq seen[w] /\ open[w] = paths[temp(w)] /\ \A v \in Writers \ {w} : ~Running(v)
    BY <1>1, <1>3, <2>1 DEF NothingLostInv, TurnInv
  <2>3. Succeeded' = IF role[w] = "editor" THEN Succeeded \cup {w} ELSE Succeeded
    BY <1>3, <1>4 DEF Succeeded
  <2>4. \A v \in Writers : step'[v] \in {"read", "opened", "written"} => Succeeded' \cup {v} \subseteq seen'[v]
    BY <1>3, <1>4, <2>2, <2>3 DEF Running
  <2>5. CASE role[w] = "editor"
    BY <1>5, <1>8, <2>1, <2>2, <2>3, <2>4, <2>5
  <2>6. CASE role[w] # "editor"
    <3>1. Succeeded \subseteq target.keys
      BY <1>1, <2>1, <2>2, <2>6 DEF NothingLostInv, Running
    <3> QED BY <1>8, <2>1, <2>3, <2>4, <2>6, <3>1
  <2> QED BY <2>5, <2>6
<1>15. OrphansInv'
  <2>1. \A v \in Writers : step[v] \in {"opened", "written", "dead"} =>
          step'[v] \in {"opened", "written", "dead"} \/ temp(v) = Target
    BY <1>4, <1>5
  <2>2. \A v \in Writers : step[v] = "unlink" => step'[v] = "unlink"
    BY <1>3, <1>4
  <2> QED BY <1>1, <1>3, <2>1, <2>2 DEF OrphansInv, Excused
<1>16. ReadersSeeWhole'
  <2>1. CASE paths[Target] = open[w]
    <3>1. ~shared => target'.status = "whole"
      BY <1>8, <2>1
    <3> QED BY <1>3, <3>1 DEF ReadersSeeWhole
  <2>2. CASE paths[Target] # open[w]
    <3>1. Truncated => Truncated'
      BY <1>3, <1>4, <2>2 DEF Truncated
    <3> QED BY <1>1, <1>3, <1>7, <2>2, <3>1 DEF ReadersSeeWhole
  <2> QED BY <2>1, <2>2
<1> QED BY <1>9, <1>10, <1>11, <1>12, <1>13, <1>14, <1>15, <1>16 DEF FilesInv

LEMMA WriteFailsKeeps == ASSUME FilesInv, NEW w \in Writers, WriteFails(w) PROVE FilesInv'
<1> USE TempStays, InodesAre DEF WriteFails, FileStep, IoFails
<1>1. FilesTypeOK /\ PathsInv /\ HoldsInv /\ KeysInv /\ TurnInv /\ NothingLostInv /\ OrphansInv /\ ReadersSeeWhole
  BY DEF FilesInv
<1>2. /\ UNCHANGED <<role, process, paths, inodes, seen, open, shared, overlap>> /\ target' = target
      /\ step[w] = "opened" /\ role[w] # "editor" /\ ioErrors' = ioErrors + 1
      /\ step' = [step EXCEPT ![w] = IF role[w] \in {"writeActivePort", "runtime"} THEN "unlink" ELSE "failed"]
  BY <1>1 DEF FilesTypeOK, target
<1>3. /\ step'[w] = IF role[w] \in {"writeActivePort", "runtime"} THEN "unlink" ELSE "failed"
      /\ \A v \in Writers \ {w} : step'[v] = step[v]
      /\ \A v \in Writers : (Holds(v)' => Holds(v) /\ v # w) /\ (Running(v)' => Running(v))
  BY <1>1, <1>2 DEF FilesTypeOK, Holds, Running
<1>4. FilesTypeOK'
  BY <1>1, ProjectFilesAssumption DEF FilesTypeOK
<1> HIDE DEF WriteFails
<1>5. PathsInv'
  BY <1>1, <1>2, <1>3 DEF PathsInv
<1>6. HoldsInv'
  BY <1>1, <1>2, <1>3 DEF HoldsInv, OwnInv
<1>7. KeysInv'
  BY <1>1, <1>2, <1>3 DEF KeysInv
<1>8. TurnInv'
  BY <1>1, <1>2, <1>3 DEF TurnInv
<1>9. NothingLostInv'
  BY <1>1, <1>2 DEF NothingLostInv, Undisturbed, FilesTypeOK
<1>10. OrphansInv'
  <2>1. ioErrors \in Nat /\ role[w] \in Role
    BY <1>1, ProjectFilesAssumption DEF FilesTypeOK
  <2>2. step'[w] = "unlink" \/ role'[w] \in {"setEnabled", "updateSettings"}
    BY <1>2, <1>3, <2>1 DEF Role
  <2> QED BY <1>1, <1>2, <1>3, <2>1, <2>2 DEF OrphansInv, Excused
<1>11. ReadersSeeWhole'
  BY <1>1, <1>2, <1>3 DEF ReadersSeeWhole, Truncated
<1> QED BY <1>4, <1>5, <1>6, <1>7, <1>8, <1>9, <1>10, <1>11 DEF FilesInv

LEMMA RenameTempKeeps == ASSUME FilesInv, NEW w \in Writers, RenameTemp(w) PROVE FilesInv'
<1> USE TempStays, InodesAre DEF RenameTemp, FileStep, IoFails
<1>1. FilesTypeOK /\ PathsInv /\ HoldsInv /\ KeysInv /\ TurnInv /\ NothingLostInv /\ OrphansInv /\ ReadersSeeWhole
  BY DEF FilesInv
<1> DEFINE t == temp(w)
<1>2. /\ step[w] = "written" /\ paths[t] # NoFile /\ step' = [step EXCEPT ![w] = "done"]
      /\ paths' = [paths EXCEPT ![Target] = paths[t], ![t] = NoFile]
      /\ UNCHANGED <<role, process, inodes, seen, open, ioErrors, shared, overlap>>
      /\ Holds(w) /\ Running(w) /\ role[w] # "editor"
  BY <1>1 DEF Holds, Running, PathsInv
<1>3. t \in Paths /\ t # Target /\ \A v \in Writers : temp(v) \in Paths /\ (temp(v) = Target <=> role[v] = "editor")
  BY <1>1, <1>2, TempIs
<1>4. step'[w] = "done" /\ \A v \in Writers \ {w} : step'[v] = step[v] /\ (Holds(v)' <=> Holds(v)) /\ (Running(v)' <=> Running(v))
  BY <1>1, <1>2 DEF FilesTypeOK, Holds, Running
<1>5. ~Holds(w)' /\ ~Running(w)'
  BY <1>4 DEF Holds, Running
<1>6. paths'[Target] = paths[t] /\ paths'[t] = NoFile /\ \A q \in Paths \ {Target, t} : paths'[q] = paths[q]
  BY <1>1, <1>2, <1>3 DEF FilesTypeOK
<1>7. target' = inodes[paths[t]]
  BY <1>2, <1>6 DEF target
<1>8. ASSUME ~shared PROVE OwnInv(w) /\ target' = WholeFile(seen[w])
  BY <1>1, <1>2, <1>7, <1>8 DEF HoldsInv, OwnInv
<1>9. FilesTypeOK'
  BY <1>1, <1>2, <1>3 DEF FilesTypeOK
<1> HIDE DEF t, RenameTemp
<1>10. PathsInv'
  <2>1. paths'[Target] # NoFile
    BY <1>2, <1>6
  <2>2. ASSUME NEW q \in Paths, NEW r \in Paths, paths'[q] = paths'[r], paths'[q] # NoFile PROVE q = r
    <3>1. q # t /\ r # t
      BY <1>6, <2>2
    <3>2. \A x, y \in Paths : paths[x] = paths[y] /\ paths[x] # NoFile => x = y
      BY <1>1 DEF PathsInv
    <3>3. \A x \in Paths \ {Target, t} : paths'[x] = paths[x] /\ (paths[x] = paths[t] => x = t)
      BY <1>2, <1>3, <1>6, <3>2
    <3>4. \A x \in Paths \ {Target, t} : paths'[x] # paths'[Target]
      BY <1>6, <3>3
    <3> QED BY <1>6, <2>2, <3>1, <3>2, <3>4
  <2>3. \A v \in Writers : step'[v] \in {"idle", "read"} => v # w /\ step[v] \in {"idle", "read"}
    BY <1>4
  <2>4. \A q \in Paths : \E x \in Paths : paths'[q] \in {paths[x], NoFile}
    BY <1>3, <1>6
  <2>5. \A v \in Writers : step'[v] \in {"idle", "read"} =>
           (\A q \in Paths : paths'[q] # v) /\ (\A u \in Writers : open'[u] # v)
    <3>1. SUFFICES ASSUME NEW v \in Writers, step'[v] \in {"idle", "read"}
                   PROVE  (\A q \in Paths : paths'[q] # v) /\ (\A u \in Writers : open'[u] # v)
      OBVIOUS
    <3>2. v # NoFile /\ (\A q \in Paths : paths[q] # v) /\ (\A u \in Writers : open[u] # v)
      BY <1>1, <2>3, <3>1 DEF PathsInv
    <3>3. \A q \in Paths : paths'[q] # v
      BY <2>4, <3>2
    <3>4. \A u \in Writers : open'[u] # v
      BY <1>2, <3>2
    <3> QED BY <3>3, <3>4
  <2>6. \A v \in Writers : Holds(v)' => open'[v] # NoFile
    BY <1>1, <1>2, <1>4, <1>5 DEF PathsInv
  <2>7. \A v \in Writers : role'[v] = "editor" => step'[v] \notin {"written", "unlink"}
    BY <1>1, <1>2, <1>4 DEF PathsInv
  <2> QED BY <2>1, <2>2, <2>5, <2>6, <2>7 DEF PathsInv
<1>11. HoldsInv'
  <2> SUFFICES ASSUME ~shared', NEW v \in Writers, Holds(v)' PROVE OwnInv(v)'
    BY DEF HoldsInv
  <2>1. ~shared /\ v # w /\ Holds(v) /\ OwnInv(v) /\ OwnInv(w) /\ open[v] # NoFile
    BY <1>1, <1>2, <1>4, <1>5, <1>8 DEF HoldsInv, PathsInv
  <2>2. temp(v) # t
    BY <2>1 DEF OwnInv, t
  <2>3. \A q \in Paths : paths'[q] = open[v] => q = temp(v)
    BY <1>3, <1>6, <2>1, <2>2 DEF OwnInv
  <2>4. role[v] # "editor" => paths'[temp(v)] \in {open[v], NoFile}
    BY <1>3, <1>6, <2>1, <2>2 DEF OwnInv
  <2>5. \A u \in Writers \ {v} : Holds(u)' => temp(u) # temp(v) /\ open[u] # open[v]
    BY <1>4, <1>5, <2>1 DEF OwnInv
  <2>6. inodes[open[v]] = IF step'[v] = "opened" THEN EmptyFile ELSE WholeFile(seen[v])
    BY <1>4, <2>1 DEF OwnInv
  <2>7. \A u \in Writers : temp(u)' = temp(u)
    BY <1>2
  <2>8. UNCHANGED <<role, inodes, seen, open>>
    BY <1>2
  <2> QED BY <2>3, <2>4, <2>5, <2>6, <2>7, <2>8 DEF OwnInv
<1>12. KeysInv'
  BY <1>1, <1>2, <1>4, <1>8 DEF KeysInv
<1>13. TurnInv'
  BY <1>1, <1>2, <1>4, <1>5 DEF TurnInv, Running, Holds
<1>14. NothingLostInv'
  <2> SUFFICES ASSUME Undisturbed' PROVE NothingLostInv!2'
    BY DEF NothingLostInv
  <2>1. Undisturbed /\ ~overlap /\ ~shared
    BY <1>1, <1>2, <1>4 DEF Undisturbed, InPlace, TurnInv
  <2>2. Succeeded \cup {w} \subseteq seen[w] /\ \A v \in Writers \ {w} : ~Running(v)
    BY <1>1, <1>2, <2>1 DEF NothingLostInv, TurnInv
  <2>3. Succeeded' = Succeeded \cup {w}
    BY <1>2, <1>4 DEF Succeeded
  <2>4. \A v \in Writers : step'[v] \notin {"read", "opened", "written"}
    BY <1>4, <2>2 DEF Running
  <2> QED BY <1>8, <2>1, <2>2, <2>3, <2>4
<1>15. OrphansInv'
  <2> SUFFICES ASSUME NEW p \in Paths \ {Target}, paths'[p] # NoFile, ~Excused'
               PROVE  \/ \E v \in Writers : step'[v] \in {"opened", "written", "dead"} /\ temp(v)' = p
                      \/ ioErrors' > 0 /\ \E v \in Writers : step'[v] = "unlink" /\ temp(v)' = p
    BY DEF OrphansInv
  <2>1. p # t /\ paths[p] # NoFile /\ ~Excused
    BY <1>2, <1>6 DEF Excused
  <2> QED BY <1>1, <1>2, <1>4, <2>1 DEF OrphansInv, t
<1>16. ReadersSeeWhole'
  BY <1>2, <1>8 DEF ReadersSeeWhole
<1> QED BY <1>9, <1>10, <1>11, <1>12, <1>13, <1>14, <1>15, <1>16 DEF FilesInv

LEMMA RenameFailsKeeps == ASSUME FilesInv, NEW w \in Writers, RenameFails(w) PROVE FilesInv'
<1> USE TempStays, InodesAre DEF RenameFails, FileStep, IoFails
<1>1. FilesTypeOK /\ PathsInv /\ HoldsInv /\ KeysInv /\ TurnInv /\ NothingLostInv /\ OrphansInv /\ ReadersSeeWhole
  BY DEF FilesInv
<1>2. /\ UNCHANGED <<role, process, paths, inodes, seen, open, shared, overlap>> /\ target' = target
      /\ step[w] = "written" /\ role[w] # "editor" /\ ioErrors' \in {ioErrors, ioErrors + 1}
      /\ paths[temp(w)] # NoFile => ioErrors' = ioErrors + 1
      /\ step' = [step EXCEPT ![w] = IF role[w] = "setEnabled" THEN "failed" ELSE "unlink"]
  BY <1>1 DEF FilesTypeOK, target, PathsInv
<1>3. /\ step'[w] = IF role[w] = "setEnabled" THEN "failed" ELSE "unlink"
      /\ \A v \in Writers \ {w} : step'[v] = step[v]
      /\ \A v \in Writers : (Holds(v)' => Holds(v) /\ v # w) /\ (Running(v)' => Running(v))
  BY <1>1, <1>2 DEF FilesTypeOK, Holds, Running
<1>4. FilesTypeOK'
  BY <1>1, ProjectFilesAssumption DEF FilesTypeOK
<1>5. ioErrors \in Nat
  BY <1>1, ProjectFilesAssumption DEF FilesTypeOK
<1> HIDE DEF RenameFails
<1>6. PathsInv'
  BY <1>1, <1>2, <1>3 DEF PathsInv
<1>7. HoldsInv'
  BY <1>1, <1>2, <1>3 DEF HoldsInv, OwnInv
<1>8. KeysInv'
  BY <1>1, <1>2, <1>3 DEF KeysInv
<1>9. TurnInv'
  BY <1>1, <1>2, <1>3 DEF TurnInv
<1>10. NothingLostInv'
  <2>1. Undisturbed' => ~overlap /\ ioErrors' = 0
    BY <1>2 DEF Undisturbed
  <2>2. ~overlap => paths[temp(w)] # NoFile
    BY <1>1, <1>2 DEF TurnInv, PathsInv, Holds
  <2> QED BY <1>2, <1>5, <2>1, <2>2 DEF NothingLostInv
<1>11. OrphansInv'
  BY <1>1, <1>2, <1>3, <1>5 DEF OrphansInv, Excused
<1>12. ReadersSeeWhole'
  BY <1>1, <1>2, <1>3 DEF ReadersSeeWhole, Truncated
<1> QED BY <1>4, <1>6, <1>7, <1>8, <1>9, <1>10, <1>11, <1>12 DEF FilesInv

LEMMA UnlinkTempKeeps == ASSUME FilesInv, NEW w \in Writers, UnlinkTemp(w) PROVE FilesInv'
<1> USE TempStays, InodesAre DEF UnlinkTemp, FileStep, IoFails
<1>1. FilesTypeOK /\ PathsInv /\ HoldsInv /\ KeysInv /\ TurnInv /\ NothingLostInv /\ OrphansInv /\ ReadersSeeWhole
  BY DEF FilesInv
<1> DEFINE t == temp(w)
<1>2. /\ step[w] = "unlink" /\ role[w] # "editor" /\ step' = [step EXCEPT ![w] = "failed"]
      /\ \/ paths' = [paths EXCEPT ![t] = NoFile] /\ ioErrors' = ioErrors
         \/ paths' = paths /\ ioErrors' = ioErrors + 1
      /\ UNCHANGED <<role, process, inodes, seen, open, shared, overlap>>
  BY <1>1 DEF PathsInv
<1>3. t \in Paths /\ t # Target /\ \A v \in Writers : temp(v) \in Paths
  BY <1>1, <1>2, TempIs
<1>4. /\ step'[w] = "failed" /\ \A v \in Writers \ {w} : step'[v] = step[v]
      /\ \A v \in Writers : (Holds(v)' <=> Holds(v)) /\ (Running(v)' => Running(v) /\ v # w)
  BY <1>1, <1>2 DEF FilesTypeOK, Holds, Running
<1>5. paths'[t] \in {paths[t], NoFile} /\ \A q \in Paths \ {t} : paths'[q] = paths[q]
  BY <1>1, <1>2, <1>3 DEF FilesTypeOK
<1>6. paths'[Target] = paths[Target] /\ target' = target
  BY <1>2, <1>3, <1>5 DEF target
<1>7. FilesTypeOK'
  <2>1. ioErrors' \in 0 .. MaxIoErrors
    BY <1>1, ProjectFilesAssumption DEF FilesTypeOK
  <2> QED BY <1>1, <1>2, <1>3, <2>1 DEF FilesTypeOK
<1>8. ioErrors \in Nat
  BY <1>1, ProjectFilesAssumption DEF FilesTypeOK
<1> HIDE DEF t, UnlinkTemp
<1>9. PathsInv'
  BY <1>1, <1>2, <1>4, <1>5, <1>6 DEF PathsInv
<1>10. HoldsInv'
  <2> SUFFICES ASSUME ~shared', NEW v \in Writers, Holds(v)' PROVE OwnInv(v)'
    BY DEF HoldsInv
  <2>1. Holds(v) /\ OwnInv(v) /\ open[v] # NoFile /\ v # w
    BY <1>1, <1>2, <1>4 DEF HoldsInv, PathsInv, Holds
  <2>2. \A q \in Paths : paths'[q] = open[v] => q = temp(v)
    BY <1>5, <2>1 DEF OwnInv
  <2>3. role[v] # "editor" => paths'[temp(v)] \in {open[v], NoFile}
    BY <1>3, <1>5, <2>1 DEF OwnInv
  <2> QED BY <1>2, <1>4, <2>1, <2>2, <2>3 DEF OwnInv
<1>11. KeysInv'
  BY <1>1, <1>2, <1>4, <1>6 DEF KeysInv
<1>12. TurnInv'
  <2>1. ~overlap => \A v \in Writers : ~Holds(v)
    BY <1>1, <1>2 DEF TurnInv, Running, Holds
  <2> QED BY <1>1, <1>2, <1>4, <2>1 DEF TurnInv
<1>13. NothingLostInv'
  <2> SUFFICES ASSUME Undisturbed' PROVE NothingLostInv!2'
    BY DEF NothingLostInv
  <2>1. Undisturbed /\ Succeeded' = Succeeded
    BY <1>2, <1>4, <1>8 DEF Undisturbed, InPlace, Succeeded
  <2> QED BY <1>1, <1>2, <1>4, <1>6, <2>1 DEF NothingLostInv
<1>14. OrphansInv'
  <2> SUFFICES ASSUME NEW p \in Paths \ {Target}, paths'[p] # NoFile, ~Excused'
               PROVE  \/ \E v \in Writers : step'[v] \in {"opened", "written", "dead"} /\ temp(v)' = p
                      \/ ioErrors' > 0 /\ \E v \in Writers : step'[v] = "unlink" /\ temp(v)' = p
    BY DEF OrphansInv
  <2>1. ~Excused /\ paths[p] # NoFile
    BY <1>2, <1>3, <1>5, <1>8 DEF Excused
  <2>2. CASE \E v \in Writers : step[v] \in {"opened", "written", "dead"} /\ temp(v) = p
    BY <1>2, <1>4, <2>2
  <2>3. CASE ioErrors > 0 /\ \E v \in Writers : step[v] = "unlink" /\ temp(v) = p
    <3>1. ioErrors' = ioErrors
      BY <1>2, <1>8, <2>3 DEF Excused
    <3>2. paths'[t] = NoFile
      BY <1>1, <1>2, <1>3, <1>8, <3>1 DEF FilesTypeOK
    <3>3. p # t
      BY <3>2
    <3> QED BY <1>2, <1>4, <2>3, <3>1, <3>3 DEF t
  <2> QED BY <1>1, <2>1, <2>2, <2>3 DEF OrphansInv
<1>15. ReadersSeeWhole'
  BY <1>1, <1>2, <1>4, <1>6 DEF ReadersSeeWhole, Truncated
<1> QED BY <1>7, <1>9, <1>10, <1>11, <1>12, <1>13, <1>14, <1>15 DEF FilesInv

LEMMA ProcessDiesKeeps == ASSUME FilesInv, NEW x \in Processes, ProcessDies(x) PROVE FilesInv'
<1> USE TempStays, InodesAre DEF ProcessDies
<1>1. FilesTypeOK /\ PathsInv /\ HoldsInv /\ KeysInv /\ TurnInv /\ NothingLostInv /\ OrphansInv /\ ReadersSeeWhole
  BY DEF FilesInv
<1>2. /\ UNCHANGED <<role, process, paths, inodes, seen, open, ioErrors, shared, overlap>> /\ target' = target
      /\ \E v \in Writers : step'[v] = "dead"
      /\ \A v \in Writers : step'[v] = step[v] \/ (step'[v] = "dead" /\ step[v] \notin {"done", "failed"})
  BY <1>1 DEF target, Running
<1>3. /\ \A v \in Writers : (Holds(v)' => Holds(v) /\ step'[v] = step[v]) /\ (Running(v)' => Running(v))
      /\ \A v \in Writers : step[v] # "idle" => step'[v] # "idle"
  BY <1>2 DEF Holds, Running
<1>4. FilesTypeOK'
  BY <1>1, <1>2 DEF FilesTypeOK
<1> HIDE DEF ProcessDies
<1>5. PathsInv'
  <2>1. \A v \in Writers : step'[v] \in {"idle", "read", "written", "unlink"} => step'[v] = step[v]
    BY <1>2
  <2> QED BY <1>1, <1>2, <1>3, <2>1 DEF PathsInv
<1>6. HoldsInv'
  BY <1>1, <1>2, <1>3 DEF HoldsInv, OwnInv
<1>7. KeysInv'
  <2>1. \A v \in Writers : step'[v] # "done" => step[v] # "done"
    BY <1>2
  <2> QED BY <1>1, <1>2, <2>1 DEF KeysInv
<1>8. TurnInv'
  BY <1>1, <1>2, <1>3 DEF TurnInv
<1>9. NothingLostInv'
  <2> SUFFICES ASSUME Undisturbed' PROVE NothingLostInv!2'
    BY DEF NothingLostInv
  <2>1. \A v \in Writers : role[v] = "editor" => step[v] = "idle"
    BY <1>2, <1>3 DEF Undisturbed, InPlace
  <2>2. Undisturbed /\ Succeeded' = Succeeded
    BY <1>2, <2>1 DEF Undisturbed, InPlace, Succeeded
  <2>3. \A v \in Writers : step'[v] \in {"read", "opened", "written"} => step'[v] = step[v]
    BY <1>2
  <2> QED BY <1>1, <1>2, <2>1, <2>2, <2>3 DEF NothingLostInv
<1>10. OrphansInv'
  <2>1. \A v \in Writers : step[v] \in {"opened", "written", "dead"} => step'[v] \in {"opened", "written", "dead"}
    BY <1>2
  <2>2. \A v \in Writers : step[v] = "unlink" => step'[v] \in {"unlink", "dead"}
    BY <1>2
  <2> QED BY <1>1, <1>2, <2>1, <2>2 DEF OrphansInv, Excused
<1>11. ReadersSeeWhole'
  BY <1>1, <1>2, <1>3 DEF ReadersSeeWhole, Truncated
<1> QED BY <1>4, <1>5, <1>6, <1>7, <1>8, <1>9, <1>10, <1>11 DEF FilesInv

LEMMA FilesBegin == FilesInit => FilesInv
<1> SUFFICES ASSUME FilesInit PROVE FilesInv
  OBVIOUS
<1> USE ProjectFilesAssumption, InodesAre DEF FilesInit
<1>1. target = WholeFile({Original}) /\ Original # NoFile /\ Original \notin Writers
  BY DEF target, NoFile, Original, Inodes
<1>2. \A w \in Writers : step[w] = "idle" /\ ~Holds(w) /\ ~Running(w)
  BY DEF Holds, Running
<1>3. FilesTypeOK
  <2>1. \A f \in Files : f \subseteq Role
    BY DEF Files, Role
  <2>4. role \in [Writers -> Role] /\ process \in [Writers -> Processes]
    BY <2>1
  <2>2. inodes \in [Inodes -> [status : {"empty", "mixed", "whole"}, keys : SUBSET FileKeys]]
    BY DEF EmptyFile, WholeFile, FileKeys
  <2>3. paths \in [Paths -> Inodes \cup {NoFile}] /\ open \in [Writers -> Inodes \cup {NoFile}]
    BY DEF Inodes
  <2>5. seen \in [Writers -> SUBSET FileKeys] /\ ioErrors \in 0 .. MaxIoErrors
    OBVIOUS
  <2>6. step \in [Writers -> {"idle", "read", "opened", "written", "unlink", "done", "failed", "dead"}]
    OBVIOUS
  <2>7. shared \in BOOLEAN /\ overlap \in BOOLEAN
    OBVIOUS
  <2> QED BY <2>2, <2>3, <2>4, <2>5, <2>6, <2>7 DEF FilesTypeOK
<1>4. PathsInv
  BY <1>1, <1>2 DEF PathsInv
<1>5. HoldsInv /\ TurnInv
  BY <1>2 DEF HoldsInv, TurnInv
<1>6. KeysInv /\ NothingLostInv
  BY <1>1, <1>2 DEF KeysInv, NothingLostInv, Succeeded
<1>7. OrphansInv /\ ReadersSeeWhole
  BY <1>1 DEF OrphansInv, ReadersSeeWhole
<1> QED BY <1>3, <1>4, <1>5, <1>6, <1>7 DEF FilesInv

LEMMA FilesStepKeeps == FilesInv /\ [FilesNext]_fileVars => FilesInv'
<1> SUFFICES ASSUME FilesInv, [FilesNext]_fileVars PROVE FilesInv'
  OBVIOUS
<1>1. ASSUME NEW w \in Writers, ReadTarget(w) PROVE FilesInv'
  BY <1>1, ReadTargetKeeps
<1>2. ASSUME NEW w \in Writers, OpenTemp(w) PROVE FilesInv'
  BY <1>2, OpenTempKeeps
<1>3. ASSUME NEW w \in Writers, OpenFails(w) PROVE FilesInv'
  BY <1>3, OpenFailsKeeps
<1>4. ASSUME NEW w \in Writers, WriteTemp(w) PROVE FilesInv'
  BY <1>4, WriteTempKeeps
<1>5. ASSUME NEW w \in Writers, WriteFails(w) PROVE FilesInv'
  BY <1>5, WriteFailsKeeps
<1>6. ASSUME NEW w \in Writers, RenameTemp(w) PROVE FilesInv'
  BY <1>6, RenameTempKeeps
<1>7. ASSUME NEW w \in Writers, RenameFails(w) PROVE FilesInv'
  BY <1>7, RenameFailsKeeps
<1>8. ASSUME NEW w \in Writers, UnlinkTemp(w) PROVE FilesInv'
  BY <1>8, UnlinkTempKeeps
<1>9. ASSUME NEW x \in Processes, ProcessDies(x) PROVE FilesInv'
  BY <1>9, ProcessDiesKeeps
<1>10. CASE UNCHANGED fileVars
  <2>1. /\ target' = target /\ UNCHANGED <<role, process, paths, inodes, step, seen, open, ioErrors, shared, overlap>>
        /\ \A w \in Writers : temp(w)' = temp(w)
    BY <1>10, TempStays DEF fileVars, target
  <2> QED BY <2>1 DEF FilesInv, FilesTypeOK, PathsInv, HoldsInv, OwnInv, KeysInv, TurnInv, NothingLostInv,
          OrphansInv, ReadersSeeWhole, Truncated, Undisturbed, Succeeded, Excused, InPlace, Holds, Running
<1> QED BY <1>1, <1>2, <1>3, <1>4, <1>5, <1>6, <1>7, <1>8, <1>9, <1>10 DEF FilesNext

LEMMA FilesInvImplies == FilesInv => FilesKept
<1> SUFFICES ASSUME FilesInv PROVE FilesKept
  OBVIOUS
<1>1. ReadersSeeWhole
  BY DEF FilesInv
<1>2. ErrorChangesNothing
  BY DEF FilesInv, KeysInv, ErrorChangesNothing
<1>3. NoOrphans
  BY DEF FilesInv, OrphansInv, Excused, NoOrphans
<1>4. NothingLostInTurn
  BY DEF FilesInv, NothingLostInv, Undisturbed, Succeeded, NothingLostInTurn
<1> QED BY <1>1, <1>2, <1>3, <1>4 DEF FilesKept

\* Any number of calls of atomicWriteFile(), setEnabled(), writeActivePorts() and the Godot writers,
\* in whatever order, with I/O errors and processes that die in between: a temporary file that is
\* nobody else's keeps readers from seeing a part of a file and makes a call that throws one that
\* changed nothing; what is left lying about is left by setEnabled(), by updateSettings() or by a
\* second error; and calls in turn without errors lose nothing.
THEOREM FilesSurvive == FilesSpec => []FilesKept
<1>1. FilesSpec => []FilesInv
  BY FilesBegin, FilesStepKeeps, PTL DEF FilesSpec
<1> QED BY <1>1, FilesInvImplies, PTL

-----------------------------------------------------------------------------
(* The start of servers: a port in use is in use by the process that tries *)
(* or serves it, and by no other.                                          *)

\* Who has a port has it alone: while it tries it, and from listening to the shutdown.
Trying  == {"probe", "write", "up"}
HoldersInv ==
  /\ \A s \in Servers : at[s] \in Trying => port[s] \in HEALTH_RANGE /\ os[port[s]] = s
  /\ \A s \in Servers : at[s] = "listen" => port[s] \in HEALTH_RANGE
  /\ \A p \in HEALTH_RANGE : os[p] # Nobody => at[os[p]] \in Trying /\ port[os[p]] = p

\* Only headless processes come near a port, and who has not ended has no exit code.
HeadlessInv ==
  /\ \A s \in Servers : at[s] \in Trying \cup {"scan", "listen"} => s \in Headless
  /\ \A s \in Servers : at[s] = "discover" => options(s).ok
  /\ \A s \in Servers : at[s] \in {"profiles", "connect"} => s \notin Headless
  /\ \A s \in Servers : at[s] # "over" => exitCode[s] = "none"
  /\ \A s \in Servers : at[s] = "scan" => port[s] \in Nat \ {0}

\* The file names the port of a process that is up.
PortFileInv == (portFile # 0 /\ ~ended) => \E t \in Servers : at[t] = "up" /\ port[t] = portFile

\* Who was turned away from a port, or failed, left somebody there.
Disappointed(s) == s \in Headless /\ (exitCode[s] = "1" \/ (at[s] = "scan" /\ port[s] > 1))
SomebodyInv ==
  (~ended /\ shutdown = {} /\ \E s \in Servers : Disappointed(s)) =>
     \E t \in Servers : at[t] \in Trying \cup {"listen"}

\* A process has no more requests in progress than it has accepted.
AcceptedInv == \A s \in Servers : requests[s] <= served[s]

BootInv == BootTypeOK /\ AcceptedInv /\ HoldersInv /\ HeadlessInv /\ PortFileInv /\ SomebodyInv


LEMMA OptionsStay ==
  ASSUME UNCHANGED argv
  PROVE  Headless' = Headless /\ \A s \in Servers : options(s)' = options(s)
BY DEF Headless, options

LEMMA EndsKeeps ==
  ASSUME BootInv, NEW s \in Servers, NEW code \in {"0", "1", "killed"}, Ends(s, code),
         UNCHANGED <<argv, served, portFile>>, port' \in {port, [port EXCEPT ![s] = 1]},
         shutdown' \in {shutdown, shutdown \cup {s}},
         \/ shutdown' # {} \/ ended
         \/ code # "1" /\ at[s] \notin Trying \cup {"listen"}
         \/ s \notin Headless
         \/ os[port[s]] = s /\ port[s] \in HEALTH_RANGE
         \/ \E t \in Servers \ {s} : at[t] \in Trying \cup {"listen"}
  PROVE  BootInv'
<1> USE BootAssumption DEF Ends, Moves
<1>1. BootTypeOK /\ AcceptedInv /\ HoldersInv /\ HeadlessInv /\ PortFileInv /\ SomebodyInv
  BY DEF BootInv
<1>2. /\ at' = [at EXCEPT ![s] = "over"] /\ exitCode' = [exitCode EXCEPT ![s] = code]
      /\ at'[s] = "over" /\ exitCode'[s] = code
      /\ \A t \in Servers \ {s} : at'[t] = at[t] /\ exitCode'[t] = exitCode[t] /\ port'[t] = port[t]
      /\ \A p \in HEALTH_RANGE : os'[p] = IF os[p] = s THEN Nobody ELSE os[p]
      /\ ended' = (ended \/ \E p \in HEALTH_RANGE : os[p] = s)
  BY <1>1 DEF BootTypeOK
<1>3. Headless' = Headless /\ \A t \in Servers : options(t)' = options(t)
  BY OptionsStay
<1>4. BootTypeOK'
  <2>1. os' \in [HEALTH_RANGE -> Servers \cup {Nobody}]
    BY <1>1 DEF BootTypeOK
  <2>2. requests' \in [Servers -> 0 .. MaxRequests] /\ ended' \in BOOLEAN
    BY <1>1 DEF BootTypeOK
  <2>3. port' \in [Servers -> 0 .. RangeEnd + 1]
    BY <1>1 DEF BootTypeOK
  <2> QED BY <1>1, <2>1, <2>2, <2>3 DEF BootTypeOK
<1>5. HoldersInv'
  <2>1. \A t \in Servers : at'[t] \in Trying \cup {"listen"} => t # s /\ at'[t] = at[t] /\ port'[t] = port[t]
    BY <1>2 DEF Trying
  <2>2. \A p \in HEALTH_RANGE : os[p] \in Servers \cup {Nobody}
    BY <1>1 DEF BootTypeOK
  <2>3. \A p \in HEALTH_RANGE : os'[p] # Nobody =>
           os'[p] \in Servers \ {s} /\ at'[os'[p]] \in Trying /\ port'[os'[p]] = p
    BY <1>1, <1>2, <2>2 DEF HoldersInv
  <2> QED BY <1>1, <1>2, <2>1, <2>3 DEF HoldersInv
<1>6. HeadlessInv'
  BY <1>1, <1>2, <1>3 DEF HeadlessInv, Trying
<1>7. PortFileInv'
  <2> SUFFICES ASSUME portFile # 0, ~ended' PROVE \E t \in Servers : at'[t] = "up" /\ port'[t] = portFile
    BY DEF PortFileInv
  <2>1. PICK t \in Servers : at[t] = "up" /\ port[t] = portFile
    BY <1>1, <1>2 DEF PortFileInv
  <2>2. os[port[t]] = t /\ port[t] \in HEALTH_RANGE
    BY <1>1, <2>1 DEF HoldersInv, Trying
  <2>3. t # s
    BY <1>2, <2>2
  <2> QED BY <1>2, <2>1, <2>3
<1>8. SomebodyInv'
  <2> SUFFICES ASSUME ~ended', shutdown' = {}, NEW u \in Servers, Disappointed(u)'
               PROVE  \E t \in Servers : at'[t] \in Trying \cup {"listen"}
    BY DEF SomebodyInv
  <2>1. ~ended /\ shutdown = {}
    BY <1>2
  <2>2. CASE u # s
    <3>1. Disappointed(u)
      BY <1>2, <1>3, <2>2 DEF Disappointed
    <3>2. PICK t \in Servers : at[t] \in Trying \cup {"listen"}
      BY <1>1, <2>1, <3>1 DEF SomebodyInv
    <3>3. t # s \/ \E v \in Servers \ {s} : at[v] \in Trying \cup {"listen"}
      BY <1>1, <1>2, <3>2 DEF HeadlessInv
    <3> QED BY <1>2, <3>2, <3>3
  <2>3. CASE u = s
    BY <1>2, <1>3, <2>3 DEF Disappointed
  <2> QED BY <2>2, <2>3
<1>9. AcceptedInv'
  BY <1>1, <1>2 DEF AcceptedInv, BootTypeOK
<1> QED BY <1>4, <1>5, <1>6, <1>7, <1>8, <1>9 DEF BootInv

LEMMA BootStepKeeps ==
  ASSUME BootInv, NEW s \in Servers,
         BootStep(s) \/ Signal(s) \/ Get(s) \/ StartChild(s) \/ ChildEnds(s) \/ NothingLeft(s)
  PROVE  BootInv'
<1> USE BootAssumption
<1>1. BootTypeOK /\ AcceptedInv /\ HoldersInv /\ HeadlessInv /\ PortFileInv /\ SomebodyInv
  BY DEF BootInv
\* A process moves on, and takes no port.
<1>2. ASSUME NEW to, Moves(s, to), UNCHANGED <<argv, exitCode, shutdown, os, portFile, requests, served, ended>>,
             port' \in {port, [port EXCEPT ![s] = 1]}, at[s] \in {"main", "discover", "profiles", "connect", "wait"},
             \/ to = "discover" /\ options(s).ok
             \/ to \in {"profiles", "connect"} /\ s \notin Headless
             \/ to \in {"wait", "stop"}
             \/ to = "scan" /\ s \in Headless /\ port'[s] = 1
      PROVE  BootInv'
  <2>1. /\ at' = [at EXCEPT ![s] = to] /\ at'[s] = to
        /\ \A t \in Servers \ {s} : at'[t] = at[t] /\ port'[t] = port[t]
    BY <1>1, <1>2 DEF BootTypeOK, Moves
  <2>2. Headless' = Headless /\ \A t \in Servers : options(t)' = options(t)
    BY <1>2, OptionsStay
  <2>3. BootTypeOK'
    <3>1. port' \in [Servers -> 0 .. RangeEnd + 1]
      BY <1>1, <1>2 DEF BootTypeOK
    <3> QED BY <1>1, <1>2, <2>1, <3>1 DEF BootTypeOK
  <2>4. HoldersInv'
    <3>1. \A p \in HEALTH_RANGE : os[p] # Nobody => os[p] \in Servers \ {s}
      BY <1>1, <1>2 DEF HoldersInv, Trying, BootTypeOK
    <3>2. \A p \in HEALTH_RANGE : os[p] # Nobody => at'[os[p]] \in Trying /\ port'[os[p]] = p
      BY <1>1, <2>1, <3>1 DEF HoldersInv
    <3> QED BY <1>1, <1>2, <2>1, <3>2 DEF HoldersInv, Trying
  <2>5. HeadlessInv'
    BY <1>1, <1>2, <2>1, <2>2 DEF HeadlessInv, Trying
  <2>6. PortFileInv'
    BY <1>1, <1>2, <2>1 DEF PortFileInv
  <2>7. SomebodyInv'
    BY <1>1, <1>2, <2>1, <2>2 DEF SomebodyInv, Disappointed, Trying
  <2> QED BY <1>1, <1>2, <2>3, <2>4, <2>5, <2>6, <2>7 DEF BootInv, AcceptedInv
<1>3. ASSUME Main(s) PROVE BootInv'
  <2>1. CASE options(s).ok
    BY <1>2, <1>3, <2>1 DEF Main
  <2>2. CASE ~options(s).ok
    BY <1>3, <2>2, EndsKeeps DEF Main, Headless
  <2> QED BY <2>1, <2>2
<1>4. ASSUME Bootstrap(s) PROVE BootInv'
  <2>1. CASE Ends(s, "0")
    BY <1>4, <2>1, EndsKeeps DEF Bootstrap, Trying
  <2>2. CASE ~options(s).smoke /\ options(s).stdio /\ Moves(s, "profiles")
    BY <1>4, <1>2, <2>2 DEF Bootstrap, Headless
  <2>3. CASE ~options(s).smoke /\ ~options(s).stdio /\ (Moves(s, "scan") \/ Moves(s, "wait"))
    <3>1. s \in Headless /\ port'[s] = 1
      BY <1>1, <1>4, <2>3 DEF Bootstrap, Headless, HeadlessInv, BootTypeOK
    <3>2. CASE Moves(s, "scan")
      BY <1>4, <1>2, <2>3, <3>1, <3>2 DEF Bootstrap
    <3>3. CASE Moves(s, "wait")
      BY <1>4, <1>2, <2>3, <3>3 DEF Bootstrap
    <3> QED BY <2>3, <3>2, <3>3
  <2> QED BY <1>4, <2>1, <2>2, <2>3 DEF Bootstrap
<1>5. ASSUME LoadDefaultProfiles(s) PROVE BootInv'
  <2>1. s \notin Headless
    BY <1>1, <1>5 DEF LoadDefaultProfiles, HeadlessInv
  <2> QED BY <1>2, <1>5, <2>1, EndsKeeps DEF LoadDefaultProfiles
<1>6. ASSUME Connect(s) PROVE BootInv'
  BY <1>2, <1>6 DEF Connect
<1>7. ASSUME Signal(s) PROVE BootInv'
  <2>1. CASE Ends(s, "killed")
    BY <1>7, <2>1, EndsKeeps DEF Signal
  <2>2. CASE UNCHANGED <<at, exitCode, os, ended, requests>>
    <3>1. UNCHANGED <<argv, at, exitCode, port, os, portFile, requests, served, ended>> /\ shutdown' = shutdown \cup {s}
      BY <1>7, <2>2 DEF Signal
    <3>2. SomebodyInv'
      BY <3>1 DEF SomebodyInv
    <3>3. BootTypeOK' /\ AcceptedInv'
      BY <1>1, <3>1 DEF BootTypeOK, AcceptedInv
    <3>4. HoldersInv' /\ HeadlessInv' /\ PortFileInv'
      BY <1>1, <3>1, OptionsStay DEF HoldersInv, HeadlessInv, PortFileInv
    <3> QED BY <3>2, <3>3, <3>4 DEF BootInv
  <2> QED BY <1>7, <2>1, <2>2 DEF Signal
<1>8. ASSUME UNCHANGED <<argv, at, exitCode, shutdown, port, os, portFile, ended>>,
             AcceptedInv', requests' \in [Servers -> 0 .. MaxRequests], served' \in [Servers -> 0 .. MaxRequests]
      PROVE  BootInv'
  BY <1>1, <1>8, OptionsStay DEF BootInv, BootTypeOK, HoldersInv, HeadlessInv, PortFileInv, SomebodyInv, Disappointed
<1>9. ASSUME Get(s) \/ StartChild(s) \/ OneLess(s) PROVE BootInv'
  <2>1. CASE Get(s) \/ StartChild(s)
    <3>1. requests[s] \in Nat /\ served[s] \in Nat /\ requests[s] <= served[s] /\ MaxRequests \in Nat
      BY <1>1 DEF AcceptedInv, BootTypeOK
    <3>2. requests[s] + 1 \in 0 .. MaxRequests /\ served[s] + 1 \in 0 .. MaxRequests
      BY <2>1, <3>1 DEF Get, StartChild
    <3>3. requests' \in [Servers -> 0 .. MaxRequests] /\ served' \in [Servers -> 0 .. MaxRequests]
      BY <1>1, <2>1, <3>2 DEF Get, StartChild, BootTypeOK
    <3>4. AcceptedInv'
      BY <1>1, <2>1, <3>1 DEF Get, StartChild, BootTypeOK, AcceptedInv
    <3> QED BY <1>8, <2>1, <3>3, <3>4 DEF Get, StartChild
  <2>2. CASE OneLess(s)
    <3>1. requests[s] - 1 \in 0 .. MaxRequests /\ requests[s] - 1 <= served[s]
      BY <1>1, <2>2 DEF OneLess, BootTypeOK, AcceptedInv
    <3>2. requests' \in [Servers -> 0 .. MaxRequests] /\ AcceptedInv'
      BY <1>1, <2>2, <3>1 DEF OneLess, BootTypeOK, AcceptedInv
    <3> QED BY <1>1, <1>8, <2>2, <3>2 DEF OneLess, BootTypeOK
  <2> QED BY <1>9, <2>1, <2>2
<1>10. ASSUME NothingLeft(s) PROVE BootInv'
  BY <1>10, EndsKeeps DEF NothingLeft, Trying
\* A process takes its port, gives it back, or says so in the file.
<1>11. ASSUME NEW to \in {"probe", "write"}, at[s] \in {"scan", "listen"}, Moves(s, to), port[s] \in HEALTH_RANGE,
              os[port[s]] = Nobody, os' = [os EXCEPT ![port[s]] = s],
              UNCHANGED <<argv, exitCode, shutdown, port, portFile, requests, served, ended>>
       PROVE  BootInv'
  <2>1. /\ at' = [at EXCEPT ![s] = to] /\ at'[s] = to /\ s \in Headless
        /\ \A t \in Servers \ {s} : at'[t] = at[t]
        /\ os'[port[s]] = s /\ \A p \in HEALTH_RANGE \ {port[s]} : os'[p] = os[p]
    BY <1>1, <1>11 DEF BootTypeOK, HeadlessInv, Moves
  <2>2. Headless' = Headless /\ \A t \in Servers : options(t)' = options(t)
    BY <1>11, OptionsStay
  <2>3. BootTypeOK'
    BY <1>1, <1>11, <2>1 DEF BootTypeOK
  <2>4. HoldersInv'
    <3>1. \A p \in HEALTH_RANGE : os[p] # Nobody => os[p] \in Servers \ {s}
      BY <1>1, <1>11 DEF HoldersInv, Trying, BootTypeOK
    <3>2. \A t \in Servers \ {s} : at[t] \in Trying => port[t] # port[s]
      BY <1>1, <1>11 DEF HoldersInv
    <3>3. \A t \in Servers : at'[t] \in Trying => port[t] \in HEALTH_RANGE /\ os'[port[t]] = t
      BY <1>1, <1>11, <2>1, <3>2 DEF HoldersInv
    <3>4. \A p \in HEALTH_RANGE : os'[p] # Nobody => at'[os'[p]] \in Trying /\ port[os'[p]] = p
      BY <1>1, <1>11, <2>1, <3>1 DEF HoldersInv, Trying
    <3> QED BY <1>1, <1>11, <2>1, <3>3, <3>4 DEF HoldersInv
  <2>5. HeadlessInv'
    BY <1>1, <1>11, <2>1, <2>2 DEF HeadlessInv, Trying
  <2>6. PortFileInv'
    BY <1>1, <1>11, <2>1 DEF PortFileInv
  <2>7. SomebodyInv'
    BY <2>1 DEF SomebodyInv, Trying
  <2> QED BY <1>1, <1>11, <2>3, <2>4, <2>5, <2>6, <2>7 DEF BootInv, AcceptedInv
<1>12. ASSUME Probe(s) PROVE BootInv'
  <2>1. CASE port[s] > RangeEnd /\ Ends(s, "1") /\ UNCHANGED port
    <3>1. s \in Headless /\ port[s] > 1 /\ at[s] = "scan"
      BY <1>1, <1>12, <2>1 DEF Probe, HeadlessInv, BootTypeOK
    <3>2. \/ ended \/ shutdown # {}
          \/ \E t \in Servers \ {s} : at[t] \in Trying \cup {"listen"}
      BY <1>1, <3>1 DEF SomebodyInv, Disappointed, Trying
    <3> QED BY <1>12, <2>1, <3>2, EndsKeeps DEF Probe
  <2>2. CASE /\ port[s] \in HEALTH_RANGE /\ os[port[s]] # Nobody
             /\ port' = [port EXCEPT ![s] = @ + 1]
             /\ UNCHANGED <<at, exitCode, os, ended, requests>>
    <3>1. /\ at[s] = "scan" /\ UNCHANGED <<argv, at, exitCode, shutdown, os, portFile, requests, served, ended>>
          /\ port[s] \in 1 .. RangeEnd /\ port[s] + 1 \in 2 .. RangeEnd + 1
      BY <1>12, <2>2 DEF Probe, HEALTH_RANGE
    <3>2. port'[s] = port[s] + 1 /\ \A t \in Servers \ {s} : port'[t] = port[t]
      BY <1>1, <2>2 DEF BootTypeOK
    <3>3. Headless' = Headless /\ \A t \in Servers : options(t)' = options(t)
      BY <3>1, OptionsStay
    <3>4. BootTypeOK'
      BY <1>1, <2>2, <3>1 DEF BootTypeOK
    <3>5. \A p \in HEALTH_RANGE : os[p] # Nobody => os[p] \in Servers \ {s}
      BY <1>1, <3>1 DEF HoldersInv, Trying, BootTypeOK
    <3>6. HoldersInv'
      BY <1>1, <3>1, <3>2, <3>5 DEF HoldersInv, Trying
    <3>7. HeadlessInv'
      BY <1>1, <3>1, <3>2, <3>3 DEF HeadlessInv
    <3>8. PortFileInv'
      BY <1>1, <3>1, <3>2 DEF PortFileInv
    <3>9. SomebodyInv'
      BY <1>1, <2>2, <3>1, <3>5 DEF SomebodyInv, HoldersInv
    <3> QED BY <1>1, <3>1, <3>4, <3>6, <3>7, <3>8, <3>9 DEF BootInv, AcceptedInv
  <2>3. CASE /\ port[s] \in HEALTH_RANGE /\ os[port[s]] = Nobody
             /\ os' = [os EXCEPT ![port[s]] = s]
             /\ Moves(s, "probe")
             /\ UNCHANGED <<exitCode, port, ended, requests>>
    BY <1>11, <1>12, <2>3 DEF Probe
  <2> QED BY <1>12, <2>1, <2>2, <2>3 DEF Probe
<1>13. ASSUME Listen(s) PROVE BootInv'
  <2>1. port[s] \in HEALTH_RANGE /\ at[s] = "listen"
    BY <1>1, <1>13 DEF Listen, HoldersInv
  <2>2. CASE os[port[s]] = Nobody
    BY <1>11, <1>13, <2>1, <2>2 DEF Listen
  <2>3. CASE os[port[s]] # Nobody
    <3>1. os[port[s]] \in Servers \ {s} /\ at[os[port[s]]] \in Trying
      BY <1>1, <2>1, <2>3 DEF HoldersInv, BootTypeOK, Trying
    <3> QED BY <1>13, <2>3, <3>1, EndsKeeps DEF Listen
  <2> QED BY <2>2, <2>3
<1>14. ASSUME ProbeClosed(s) PROVE BootInv'
  <2>1. /\ port[s] \in HEALTH_RANGE /\ os[port[s]] = s /\ s \in Headless /\ at[s] = "probe"
        /\ UNCHANGED <<argv, exitCode, shutdown, port, portFile, requests, served, ended>>
    BY <1>1, <1>14 DEF ProbeClosed, HoldersInv, HeadlessInv, Trying
  <2>2. /\ at' = [at EXCEPT ![s] = "listen"] /\ at'[s] = "listen"
        /\ \A t \in Servers \ {s} : at'[t] = at[t]
        /\ os'[port[s]] = Nobody /\ \A p \in HEALTH_RANGE \ {port[s]} : os'[p] = os[p]
    BY <1>1, <1>14, <2>1 DEF ProbeClosed, BootTypeOK, Moves
  <2>3. Headless' = Headless /\ \A t \in Servers : options(t)' = options(t)
    BY <2>1, OptionsStay
  <2>4. BootTypeOK'
    BY <1>1, <1>14, <2>1, <2>2 DEF BootTypeOK, ProbeClosed
  <2>5. HoldersInv'
    <3>1. \A t \in Servers \ {s} : at[t] \in Trying => port[t] # port[s]
      BY <1>1, <2>1 DEF HoldersInv
    <3>2. \A p \in HEALTH_RANGE \ {port[s]} : os[p] # s
      BY <1>1, <2>1 DEF HoldersInv
    <3>3. \A p \in HEALTH_RANGE : os[p] \in Servers \cup {Nobody}
      BY <1>1 DEF BootTypeOK
    <3>4. \A t \in Servers : at'[t] \in Trying => port[t] \in HEALTH_RANGE /\ os'[port[t]] = t
      BY <1>1, <2>2, <3>1 DEF HoldersInv, Trying
    <3>5. \A p \in HEALTH_RANGE : os'[p] # Nobody => at'[os'[p]] \in Trying /\ port[os'[p]] = p
      BY <1>1, <2>2, <3>2, <3>3 DEF HoldersInv
    <3> QED BY <1>1, <2>1, <2>2, <3>4, <3>5 DEF HoldersInv
  <2>6. HeadlessInv'
    BY <1>1, <2>1, <2>2, <2>3 DEF HeadlessInv, Trying
  <2>7. PortFileInv'
    BY <1>1, <2>1, <2>2 DEF PortFileInv
  <2>8. SomebodyInv'
    BY <2>2 DEF SomebodyInv
  <2> QED BY <1>1, <2>1, <2>4, <2>5, <2>6, <2>7, <2>8 DEF BootInv, AcceptedInv
<1>15. ASSUME WriteActivePort(s) PROVE BootInv'
  <2>1. port[s] \in HEALTH_RANGE /\ os[port[s]] = s /\ at[s] = "write" /\ s \in Headless
    BY <1>1, <1>15 DEF WriteActivePort, HoldersInv, HeadlessInv, Trying
  <2>2. CASE Ends(s, "1") /\ UNCHANGED portFile
    BY <1>15, <2>1, <2>2, EndsKeeps DEF WriteActivePort
  <2>3. CASE portFile' = port[s] /\ Moves(s, "up") /\ UNCHANGED <<exitCode, os, ended, requests>>
    <3>1. /\ at' = [at EXCEPT ![s] = "up"] /\ at'[s] = "up" /\ \A t \in Servers \ {s} : at'[t] = at[t]
          /\ UNCHANGED <<argv, exitCode, shutdown, port, os, requests, served, ended>> /\ portFile' = port[s]
      BY <1>1, <1>15, <2>3 DEF WriteActivePort, BootTypeOK, Moves
    <3>2. Headless' = Headless /\ \A t \in Servers : options(t)' = options(t)
      BY <3>1, OptionsStay
    <3>3. BootTypeOK'
      BY <1>1, <2>1, <3>1 DEF BootTypeOK, HEALTH_RANGE
    <3>4. \A t \in Servers : at'[t] \in Trying <=> at[t] \in Trying
      BY <2>1, <3>1 DEF Trying
    <3>5. HoldersInv'
      <4>1. \A p \in HEALTH_RANGE : os[p] # Nobody => os[p] \in Servers
        BY <1>1 DEF BootTypeOK
      <4> QED BY <1>1, <3>1, <3>4, <4>1 DEF HoldersInv
    <3>6. HeadlessInv'
      BY <1>1, <2>1, <3>1, <3>2 DEF HeadlessInv
    <3>7. PortFileInv'
      BY <3>1 DEF PortFileInv
    <3>8. SomebodyInv'
      BY <3>1 DEF SomebodyInv, Trying
    <3> QED BY <1>1, <3>1, <3>3, <3>5, <3>6, <3>7, <3>8 DEF BootInv, AcceptedInv
  <2> QED BY <1>15, <2>2, <2>3 DEF WriteActivePort
<1>16. ASSUME Shutdown(s) PROVE BootInv'
  <2>1. CASE Ends(s, "0")
    BY <1>16, <2>1, EndsKeeps DEF Shutdown
  <2>2. CASE /\ at[s] = "up"
             /\ os' = [os EXCEPT ![port[s]] = Nobody] /\ ended' = TRUE
             /\ Moves(s, "stop") /\ UNCHANGED <<exitCode, requests>>
    <3>1. port[s] \in HEALTH_RANGE /\ os[port[s]] = s /\ s \in Headless
      BY <1>1, <2>2 DEF HoldersInv, HeadlessInv, Trying
    <3>2. /\ at' = [at EXCEPT ![s] = "stop"] /\ at'[s] = "stop" /\ \A t \in Servers \ {s} : at'[t] = at[t]
          /\ os'[port[s]] = Nobody /\ \A p \in HEALTH_RANGE \ {port[s]} : os'[p] = os[p]
          /\ UNCHANGED <<argv, exitCode, shutdown, port, portFile, requests, served>>
      BY <1>1, <1>16, <2>2, <3>1 DEF Shutdown, BootTypeOK, Moves
    <3>3. Headless' = Headless /\ \A t \in Servers : options(t)' = options(t)
      BY <3>2, OptionsStay
    <3>4. BootTypeOK'
      BY <1>1, <2>2, <3>1, <3>2 DEF BootTypeOK
    <3>5. HoldersInv'
      <4>1. \A t \in Servers \ {s} : at[t] \in Trying => port[t] # port[s]
        BY <1>1, <3>1 DEF HoldersInv
      <4>2. \A p \in HEALTH_RANGE \ {port[s]} : os[p] # s
        BY <1>1, <3>1 DEF HoldersInv
      <4>3. \A p \in HEALTH_RANGE : os[p] \in Servers \cup {Nobody}
        BY <1>1 DEF BootTypeOK
      <4>4. \A t \in Servers : at'[t] \in Trying => port[t] \in HEALTH_RANGE /\ os'[port[t]] = t
        BY <1>1, <3>2, <4>1 DEF HoldersInv, Trying
      <4>5. \A p \in HEALTH_RANGE : os'[p] # Nobody => at'[os'[p]] \in Trying /\ port[os'[p]] = p
        BY <1>1, <3>2, <4>2, <4>3 DEF HoldersInv
      <4> QED BY <1>1, <3>2, <4>4, <4>5 DEF HoldersInv
    <3>6. HeadlessInv'
      BY <1>1, <2>2, <3>1, <3>2, <3>3 DEF HeadlessInv, Trying
    <3>7. PortFileInv' /\ SomebodyInv'
      BY <2>2 DEF PortFileInv, SomebodyInv
    <3> QED BY <1>1, <3>2, <3>4, <3>5, <3>6, <3>7 DEF BootInv, AcceptedInv
  <2>3. CASE at[s] = "wait" /\ Moves(s, "stop") /\ UNCHANGED <<exitCode, os, ended, requests>>
    BY <1>2, <1>16, <2>3 DEF Shutdown
  <2> QED BY <1>16, <2>1, <2>2, <2>3 DEF Shutdown
<1> QED
  BY <1>3, <1>4, <1>5, <1>6, <1>7, <1>9, <1>10, <1>12, <1>13, <1>14, <1>15, <1>16 DEF BootStep, Answer, ChildEnds

LEMMA BootBegins == BootInit => BootInv
<1> SUFFICES ASSUME BootInit PROVE BootInv
  OBVIOUS
<1> USE BootAssumption DEF BootInit
<1>1. BootTypeOK /\ AcceptedInv
  <2>1. /\ \A n \in 0 .. MaxRequests : [s \in Servers |-> n] \in [Servers -> 0 .. MaxRequests]
        /\ 0 \in 0 .. MaxRequests /\ 0 \in 0 .. RangeEnd + 1 /\ 0 \in 0 .. RangeEnd
    OBVIOUS
  <2>2. os \in [HEALTH_RANGE -> Servers \cup {Nobody}] /\ port \in [Servers -> 0 .. RangeEnd + 1]
    BY <2>1
  <2>3. AcceptedInv /\ requests \in [Servers -> 0 .. MaxRequests] /\ served \in [Servers -> 0 .. MaxRequests]
    BY <2>1 DEF AcceptedInv
  <2>4. argv \in [Servers -> CommandLines] /\ shutdown \subseteq Servers /\ portFile \in 0 .. RangeEnd /\ ended \in BOOLEAN
    BY <2>1
  <2>5. at \in [Servers -> {"main"}] /\ exitCode \in [Servers -> {"none"}]
    OBVIOUS
  <2> QED BY <2>2, <2>3, <2>4, <2>5 DEF BootTypeOK
<1>2. HoldersInv /\ HeadlessInv
  BY DEF HoldersInv, HeadlessInv, Trying
<1>3. PortFileInv /\ SomebodyInv
  BY DEF PortFileInv, SomebodyInv, Disappointed
<1> QED BY <1>1, <1>2, <1>3 DEF BootInv

LEMMA BootNextKeeps == BootInv /\ [BootNext]_bootVars => BootInv'
<1> SUFFICES ASSUME BootInv, [BootNext]_bootVars PROVE BootInv'
  OBVIOUS
<1>1. CASE BootNext
  BY <1>1, BootStepKeeps DEF BootNext
<1>2. CASE UNCHANGED bootVars
  BY <1>2, OptionsStay DEF bootVars, BootInv, BootTypeOK, AcceptedInv, HoldersInv, HeadlessInv, PortFileInv, SomebodyInv, Disappointed
<1> QED BY <1>1, <1>2

LEMMA BootInvImplies == BootInv => PortsServed
<1> SUFFICES ASSUME BootInv PROVE PortsServed
  OBVIOUS
<1>1. FileNamesListener
  BY BootAssumption DEF BootInv, HoldersInv, PortFileInv, FileNamesListener, Trying
<1>2. SomebodyGetsAPort
  <2> SUFFICES ASSUME NEW s \in Headless, ~ended, shutdown = {}, \A t \in Headless : exitCode[t] = "1" PROVE FALSE
    BY DEF SomebodyGetsAPort
  <2>1. s \in Servers /\ Disappointed(s)
    BY DEF Disappointed, Headless
  <2>2. PICK t \in Servers : at[t] \in Trying \cup {"listen"}
    BY <2>1 DEF BootInv, SomebodyInv
  <2> QED BY <2>2 DEF BootInv, HeadlessInv, Trying
<1> QED BY <1>1, <1>2 DEF PortsServed

BootSpec == BootInit /\ [][BootNext]_bootVars

\* However many processes start at once: until one that listened is gone, the active-port file names
\* a port that somebody listens on, and until somebody is told to stop the processes that want a
\* port do not all fail for want of one (main(), scanFreePort(), writeActivePorts()).
THEOREM PortsAreServed == BootSpec => []PortsServed
<1>1. BootSpec => []BootInv
  BY BootBegins, BootNextKeeps, PTL DEF BootSpec
<1> QED BY <1>1, BootInvImplies, PTL

-----------------------------------------------------------------------------
(* A command line means what it says, however long it is.                  *)

Vocabulary == Valued \cup {"--stdio", "--smoke", "a=b", "none", "Full", "info"}
           \cup {w.flag : w \in Words} \cup {w.inline : w \in Words}
WordSet == [flag : Vocabulary, inline : Vocabulary]
OptionSet == [ok : BOOLEAN, stdio : BOOLEAN, smoke : BOOLEAN, awaits : Valued \cup {"none"},
              value : [Valued -> Vocabulary]]
Ready(o) == o \in OptionSet /\ o.ok /\ o.awaits = "none"

ParseFold == INSTANCE FoldLemmas WITH op <- parseWord
GlueFold  == INSTANCE FoldLemmas WITH op <- addWords

LEMMA ParseIsFold == \A o, words : FoldLeft(parseWord, o, words) = ParseFold!Fold(o, words)
BY DEF ParseFold!Fold, FoldLeft, MapThenFoldSet, ParseFold!Largest, Max

LEMMA SpelledIsFold == \A row : Spelled(row) = GlueFold!Fold(<<>>, row)
BY DEF Spelled, GlueFold!Fold, FoldLeft, MapThenFoldSet, GlueFold!Largest, Max

LEMMA DefaultIsReady == Ready(DEFAULT_OPTIONS)
BY DEF Ready, DEFAULT_OPTIONS, OptionSet, Valued, Vocabulary

\* What one word does.
LEMMA WordTaken ==
  ASSUME NEW o \in OptionSet, NEW w \in WordSet
  PROVE  /\ ~o.ok => parseWord(o, w) = o
         /\ (o.ok /\ o.awaits # "none") => parseWord(o, w) = Take(o, o.awaits, asValue(w))
         /\ Ready(o) =>
              /\ w = Word("--stdio") => parseWord(o, w) = [o EXCEPT !.stdio = TRUE]
              /\ w = Word("--smoke") => parseWord(o, w) = [o EXCEPT !.smoke = TRUE]
              /\ (w.flag \in Valued /\ w.inline = "none") => parseWord(o, w) = [o EXCEPT !.awaits = w.flag]
              /\ (w.flag \in Valued /\ w.inline # "none") => parseWord(o, w) = Take(o, w.flag, w.inline)
              /\ (w.flag \notin Valued /\ w # Word("--stdio") /\ w # Word("--smoke"))
                    => parseWord(o, w) = [o EXCEPT !.ok = FALSE]
<1>1. Word("--stdio") # Word("--smoke")
  BY DEF Word
<1>2. w.flag \in Valued => w # Word("--stdio") /\ w # Word("--smoke")
  BY DEF Word, Valued
<1>3. ~o.ok => parseWord(o, w) = o
  BY DEF parseWord
<1>4. (o.ok /\ o.awaits # "none") => parseWord(o, w) = Take(o, o.awaits, asValue(w))
  BY DEF parseWord
<1>5. (Ready(o) /\ w = Word("--stdio")) => parseWord(o, w) = [o EXCEPT !.stdio = TRUE]
  BY <1>1, <1>2 DEF parseWord, Ready
<1>6. (Ready(o) /\ w = Word("--smoke")) => parseWord(o, w) = [o EXCEPT !.smoke = TRUE]
  BY <1>1, <1>2 DEF parseWord, Ready
<1>7. (Ready(o) /\ w.flag \in Valued /\ w.inline = "none") => parseWord(o, w) = [o EXCEPT !.awaits = w.flag]
  BY <1>2 DEF parseWord, Ready
<1>8. (Ready(o) /\ w.flag \in Valued /\ w.inline # "none") => parseWord(o, w) = Take(o, w.flag, w.inline)
  BY <1>2 DEF parseWord, Ready
<1>9. (Ready(o) /\ w.flag \notin Valued /\ w # Word("--stdio") /\ w # Word("--smoke"))
         => parseWord(o, w) = [o EXCEPT !.ok = FALSE]
  BY DEF parseWord, Ready
<1> QED BY <1>3, <1>4, <1>5, <1>6, <1>7, <1>8, <1>9

With(o, f, v) == [o EXCEPT !.value[f] = v, !.awaits = "none"]

LEMMA TakeKeepsOptions ==
  \A o \in OptionSet : \A f \in Valued : \A v \in Vocabulary : Take(o, f, v) \in OptionSet
<1> SUFFICES ASSUME NEW o \in OptionSet, NEW f \in Valued, NEW v \in Vocabulary PROVE Take(o, f, v) \in OptionSet
  OBVIOUS
<1>1. [o EXCEPT !.value[f] = v, !.awaits = "none"] \in OptionSet
  BY DEF OptionSet
<1>2. [o EXCEPT !.ok = FALSE] \in OptionSet
  BY DEF OptionSet
<1> QED BY <1>1, <1>2 DEF Take

LEMMA TakeAccepts ==
  \A o, f, v : Accepts(f, v) => Take(o, f, v) = With(o, f, v)
BY DEF Take, With

LEMMA TakeRefuses ==
  \A o \in OptionSet : \A f, v : ~Accepts(f, v) => ~Take(o, f, v).ok
BY DEF Take, OptionSet

LEMMA WithIsReady ==
  \A o \in OptionSet : \A f \in Valued : \A v \in Vocabulary : o.ok => Ready(With(o, f, v))
BY DEF With, Ready, OptionSet

LEMMA OptionsStayOptions ==
  ASSUME NEW o \in OptionSet, NEW w \in WordSet
  PROVE  parseWord(o, w) \in OptionSet
<1>1. o.awaits # "none" => o.awaits \in Valued
  BY DEF OptionSet
<1>2. asValue(w) \in Vocabulary /\ w.flag \in Vocabulary /\ w.inline \in Vocabulary
  BY DEF asValue, WordSet, Vocabulary
<1>3. (o.ok /\ o.awaits # "none") => parseWord(o, w) \in OptionSet
  BY <1>1, <1>2, WordTaken, TakeKeepsOptions
<1>4. [o EXCEPT !.stdio = TRUE] \in OptionSet /\ [o EXCEPT !.smoke = TRUE] \in OptionSet
      /\ [o EXCEPT !.ok = FALSE] \in OptionSet
  BY DEF OptionSet
<1>5. w.flag \in Valued => [o EXCEPT !.awaits = w.flag] \in OptionSet
  BY DEF OptionSet
<1>6. w.flag \in Valued => Take(o, w.flag, w.inline) \in OptionSet
  BY <1>2, TakeKeepsOptions
<1>7. Ready(o) => parseWord(o, w) \in OptionSet
  BY <1>4, <1>5, <1>6, WordTaken
<1> QED BY <1>3, <1>7, WordTaken DEF Ready

-----------------------------------------------------------------------------
\* What an item is.
LEMMA ItemIs ==
  ASSUME NEW it \in Items
  PROVE  \/ \E f \in {"--stdio", "--smoke"} : it = Item(f, "none", <<Word(f)>>)
         \/ \E w \in Words : it = Item(w.flag, w.inline, <<w>>) /\ w.inline # "none" /\ w.flag \in Valued
                             /\ Accepts(w.flag, w.inline)
         \/ \E f \in Valued, w \in Words : it = Item(f, asValue(w), <<Word(f), w>>) /\ Accepts(f, asValue(w))
BY DEF Items, Item

LEMMA ItemMade ==
  /\ \A f \in {"--stdio", "--smoke"} : Item(f, "none", <<Word(f)>>) \in Items
  /\ \A w \in Words : (w.inline # "none" /\ w.flag \in Valued /\ Accepts(w.flag, w.inline))
                        => Item(w.flag, w.inline, <<w>>) \in Items
  /\ \A f \in Valued, w \in Words : Accepts(f, asValue(w)) => Item(f, asValue(w), <<Word(f), w>>) \in Items
<1>1. \A f \in {"--stdio", "--smoke"} : Item(f, "none", <<Word(f)>>) \in Items
  BY DEF Items
<1>2. \A w \in Words : (w.inline # "none" /\ w.flag \in Valued /\ Accepts(w.flag, w.inline))
                        => Item(w.flag, w.inline, <<w>>) \in Items
  BY DEF Items, Item
<1>3. \A f \in Valued, w \in Words : Accepts(f, asValue(w)) => Item(f, asValue(w), <<Word(f), w>>) \in Items
  <2> SUFFICES ASSUME NEW f \in Valued, NEW w \in Words, Accepts(f, asValue(w))
               PROVE  Item(f, asValue(w), <<Word(f), w>>) \in Items
    OBVIOUS
  <2> DEFINE it == Item(f, asValue(w), <<Word(f), w>>)
  <2>1. \E g \in Valued : \E v \in Words : it = Item(g, asValue(v), <<Word(g), v>>)
    OBVIOUS
  <2>2. it.flag \in Valued /\ Accepts(it.flag, it.value)
    BY DEF Item
  <2> HIDE DEF it
  <2>3. it \in Items
    BY <2>1, <2>2 DEF Items
  <2> QED BY <2>3 DEF it
<1> QED BY <1>1, <1>2, <1>3

LEMMA WordsAreWords == Words \subseteq WordSet
<1> SUFFICES ASSUME NEW w \in Words PROVE w \in WordSet
  OBVIOUS
<1>1. w = [flag |-> w.flag, inline |-> w.inline]
  BY CommandLineAssumption DEF Words
<1>2. w.flag \in Vocabulary /\ w.inline \in Vocabulary
  BY DEF Vocabulary
<1> QED BY <1>1, <1>2 DEF WordSet

Applied(o, it) ==
  IF it.flag \in Valued THEN [o EXCEPT !.value[it.flag] = it.value]
  ELSE IF it.flag = "--stdio" THEN [o EXCEPT !.stdio = TRUE] ELSE [o EXCEPT !.smoke = TRUE]

LEMMA ItemFields ==
  ASSUME NEW it \in Items
  PROVE  /\ it.words \in Seq(WordSet) /\ Len(it.words) >= 1
         /\ it.flag \in Valued => it.value \in Vocabulary
         /\ it.flag \in Valued \cup {"--stdio", "--smoke"}
<1>1. CASE \E f \in {"--stdio", "--smoke"} : it = Item(f, "none", <<Word(f)>>)
  BY <1>1 DEF Item, Word, WordSet, Valued, Vocabulary
<1>2. CASE \E w \in Words : it = Item(w.flag, w.inline, <<w>>) /\ w.inline # "none" /\ w.flag \in Valued
  BY <1>2, WordsAreWords DEF Item, WordSet
<1>3. CASE \E f \in Valued, w \in Words : it = Item(f, asValue(w), <<Word(f), w>>)
  <2>1. PICK f \in Valued, w \in Words : it = Item(f, asValue(w), <<Word(f), w>>)
    BY <1>3
  <2>2. w \in WordSet /\ asValue(w) \in Vocabulary
    BY WordsAreWords DEF asValue, WordSet, Vocabulary
  <2>3. Word(f) \in WordSet
    BY DEF Valued, Word, WordSet, Vocabulary
  <2> QED BY <2>1, <2>2, <2>3 DEF Item
<1> QED BY <1>1, <1>2, <1>3, ItemIs

\* The fold over a word, or over two.
LEMMA FoldOne ==
  ASSUME NEW o, NEW w
  PROVE  ParseFold!Fold(o, <<w>>) = parseWord(o, w)
<1> DEFINE n == 0
           none == <<>>
           one == <<w>>
<1>1. DOMAIN none = {} /\ DOMAIN none = 1 .. n /\ n \in Nat
  OBVIOUS
<1>2. DOMAIN one = 1 .. n + 1 /\ one[n + 1] = w /\ \A k \in 1 .. n : one[k] = none[k]
  OBVIOUS
<1> HIDE DEF n, none, one
<1>3. ParseFold!Fold(o, none) = o
  BY <1>1, ParseFold!FoldEmpty
<1>4. ParseFold!Fold(o, one) = parseWord(ParseFold!Fold(o, none), one[n + 1])
  BY <1>1, <1>2, ParseFold!FoldLast
<1> QED BY <1>2, <1>3, <1>4 DEF one

LEMMA FoldTwo ==
  ASSUME NEW o, NEW w, NEW v
  PROVE  ParseFold!Fold(o, <<w, v>>) = parseWord(parseWord(o, w), v)
<1> DEFINE n == 1
           one == <<w>>
           two == <<w, v>>
<1>1. DOMAIN one = 1 .. n /\ n \in Nat
  OBVIOUS
<1>2. DOMAIN two = 1 .. n + 1 /\ two[n + 1] = v /\ \A k \in 1 .. n : two[k] = one[k]
  OBVIOUS
<1>3. ParseFold!Fold(o, one) = parseWord(o, w)
  BY FoldOne
<1> HIDE DEF n, one, two
<1>4. ParseFold!Fold(o, two) = parseWord(ParseFold!Fold(o, one), two[n + 1])
  BY <1>1, <1>2, ParseFold!FoldLast
<1> QED BY <1>2, <1>3, <1>4 DEF two

\* The words of an item are taken together.
LEMMA ItemTaken ==
  ASSUME NEW o, Ready(o), NEW it \in Items
  PROVE  ParseFold!Fold(o, it.words) = Applied(o, it)
<1>0. o \in OptionSet /\ o.ok /\ o.awaits = "none"
  BY DEF Ready
<1>1. ASSUME NEW f \in {"--stdio", "--smoke"}, it = Item(f, "none", <<Word(f)>>)
      PROVE  ParseFold!Fold(o, it.words) = Applied(o, it)
  <2>1. it.words = <<Word(f)>> /\ it.flag = f
    BY <1>1 DEF Item
  <2>2. Word(f) \in WordSet /\ f \notin Valued
    BY DEF Word, WordSet, Valued, Vocabulary
  <2>3. ParseFold!Fold(o, it.words) = parseWord(o, Word(f))
    BY <2>1, FoldOne
  <2> QED BY <1>0, <2>1, <2>2, <2>3, WordTaken DEF Applied
<1>2. ASSUME NEW w \in Words, it = Item(w.flag, w.inline, <<w>>), w.inline # "none", w.flag \in Valued,
             Accepts(w.flag, w.inline)
      PROVE  ParseFold!Fold(o, it.words) = Applied(o, it)
  <2>1. it.words = <<w>> /\ it.flag = w.flag /\ it.value = w.inline
    BY <1>2 DEF Item
  <2>2. w \in WordSet /\ w.inline \in Vocabulary
    BY WordsAreWords DEF WordSet
  <2>3. ParseFold!Fold(o, it.words) = parseWord(o, w)
    BY <2>1, FoldOne
  <2>4. parseWord(o, w) = Take(o, w.flag, w.inline)
    BY <1>0, <1>2, <2>2, WordTaken
  <2>5. Take(o, w.flag, w.inline) = With(o, w.flag, w.inline)
    BY <1>2, TakeAccepts
  <2>6. With(o, w.flag, w.inline) = [o EXCEPT !.value[w.flag] = w.inline]
    BY <1>0 DEF OptionSet, With
  <2> QED BY <1>2, <2>1, <2>3, <2>4, <2>5, <2>6 DEF Applied
<1>3. ASSUME NEW f \in Valued, NEW w \in Words, it = Item(f, asValue(w), <<Word(f), w>>), Accepts(f, asValue(w))
      PROVE  ParseFold!Fold(o, it.words) = Applied(o, it)
  <2> DEFINE p == [o EXCEPT !.awaits = f]
  <2>1. it.words = <<Word(f), w>> /\ it.flag = f /\ it.value = asValue(w)
    BY <1>3 DEF Item
  <2>2. w \in WordSet /\ asValue(w) \in Vocabulary
    BY WordsAreWords DEF WordSet, asValue, Vocabulary
  <2>3. Word(f) \in WordSet /\ Word(f).flag = f /\ Word(f).inline = "none" /\ f # "none"
    BY DEF Valued, Word, WordSet, Vocabulary
  <2>4. ParseFold!Fold(o, it.words) = parseWord(parseWord(o, Word(f)), w)
    BY <2>1, FoldTwo
  <2>5. parseWord(o, Word(f)) = p
    BY <1>0, <2>3, WordTaken
  <2>6. p \in OptionSet /\ p.ok /\ p.awaits = f
    BY <1>0 DEF OptionSet
  <2>9. With(p, f, asValue(w)) = [o EXCEPT !.value[f] = asValue(w)]
    BY <1>0 DEF OptionSet, With
  <2> HIDE DEF p
  <2>7. parseWord(p, w) = Take(p, f, asValue(w))
    BY <2>2, <2>3, <2>6, WordTaken
  <2>8. Take(p, f, asValue(w)) = With(p, f, asValue(w))
    BY <1>3, TakeAccepts
  <2> QED BY <2>1, <2>4, <2>5, <2>7, <2>8, <2>9 DEF Applied
<1> QED BY <1>1, <1>2, <1>3, ItemIs

\* What the options say after n items of a row.
SoFar(o, row, n) ==
  /\ Ready(o)
  /\ o.stdio <=> \E i \in 1 .. n : row[i].flag = "--stdio"
  /\ o.smoke <=> \E i \in 1 .. n : row[i].flag = "--smoke"
  /\ \A f \in Valued : (\A i \in 1 .. n : row[i].flag # f) => o.value[f] = DEFAULT_OPTIONS.value[f]
  /\ \A i \in 1 .. n : (row[i].flag \in Valued /\ \A j \in i + 1 .. n : row[j].flag # row[i].flag)
                         => o.value[row[i].flag] = row[i].value

LEMMA NothingSoFar == \A row : SoFar(DEFAULT_OPTIONS, row, 0)
<1>1. ~DEFAULT_OPTIONS.stdio /\ ~DEFAULT_OPTIONS.smoke
  BY DEF DEFAULT_OPTIONS
<1>2. 1 .. 0 = {}
  OBVIOUS
<1> QED BY <1>1, <1>2, DefaultIsReady DEF SoFar

LEMMA AppliedIs ==
  ASSUME NEW o, Ready(o), NEW it \in Items
  PROVE  LET p == Applied(o, it) IN
         /\ Ready(p)
         /\ p.stdio <=> o.stdio \/ it.flag = "--stdio"
         /\ p.smoke <=> o.smoke \/ it.flag = "--smoke"
         /\ \A f \in Valued : f # it.flag => p.value[f] = o.value[f]
         /\ it.flag \in Valued => p.value[it.flag] = it.value
<1> DEFINE p == Applied(o, it)
<1>1. it.flag \in Valued \cup {"--stdio", "--smoke"} /\ (it.flag \in Valued => it.value \in Vocabulary)
  BY ItemFields
<1>2. "--stdio" \notin Valued /\ "--smoke" \notin Valued
  BY DEF Valued
<1>3. CASE it.flag \in Valued
  <2>1. p = [o EXCEPT !.value[it.flag] = it.value]
    BY <1>3 DEF Applied
  <2> HIDE DEF p
  <2>2. Ready(p) /\ p.stdio = o.stdio /\ p.smoke = o.smoke
    BY <1>1, <1>3, <2>1 DEF Ready, OptionSet
  <2>3. p.value[it.flag] = it.value /\ \A f \in Valued : f # it.flag => p.value[f] = o.value[f]
    BY <1>1, <1>3, <2>1 DEF Ready, OptionSet
  <2> QED BY <1>2, <1>3, <2>2, <2>3 DEF p
<1>4. CASE it.flag = "--stdio"
  <2>1. p = [o EXCEPT !.stdio = TRUE]
    BY <1>2, <1>4 DEF Applied
  <2> HIDE DEF p
  <2>2. Ready(p) /\ p.stdio /\ p.smoke = o.smoke /\ p.value = o.value
    BY <2>1 DEF Ready, OptionSet
  <2> QED BY <1>2, <1>4, <2>2 DEF p
<1>5. CASE it.flag = "--smoke"
  <2>1. p = [o EXCEPT !.smoke = TRUE]
    BY <1>2, <1>5 DEF Applied
  <2> HIDE DEF p
  <2>2. Ready(p) /\ p.smoke /\ p.stdio = o.stdio /\ p.value = o.value
    BY <2>1 DEF Ready, OptionSet
  <2> QED BY <1>2, <1>5, <2>2 DEF p
<1> QED BY <1>1, <1>3, <1>4, <1>5

\* One item more.
LEMMA OneMoreSoFar ==
  ASSUME NEW o, NEW row, NEW n \in Nat, SoFar(o, row, n), row[n + 1] \in Items
  PROVE  SoFar(Applied(o, row[n + 1]), row, n + 1)
<1> DEFINE m  == n + 1
           it == row[m]
           p  == Applied(o, it)
<1>0. Ready(o) /\ it \in Items
  BY DEF SoFar
<1>1. /\ Ready(p)
      /\ p.stdio <=> o.stdio \/ it.flag = "--stdio"
      /\ p.smoke <=> o.smoke \/ it.flag = "--smoke"
      /\ \A f \in Valued : f # it.flag => p.value[f] = o.value[f]
      /\ it.flag \in Valued => p.value[it.flag] = it.value
  <2> HIDE DEF it
  <2> QED BY <1>0, AppliedIs
<1>2. 1 .. m = 1 .. n \cup {m} /\ n \in Nat /\ m \in 1 .. m
  OBVIOUS
<1>3. \A i \in 1 .. n : i + 1 .. m = (i + 1 .. n) \cup {m}
  OBVIOUS
<1> HIDE DEF p, m
<1>4. p.stdio <=> \E i \in 1 .. m : row[i].flag = "--stdio"
  BY <1>1, <1>2 DEF SoFar
<1>5. p.smoke <=> \E i \in 1 .. m : row[i].flag = "--smoke"
  BY <1>1, <1>2 DEF SoFar
<1>6. ASSUME NEW f \in Valued, \A i \in 1 .. m : row[i].flag # f
      PROVE  p.value[f] = DEFAULT_OPTIONS.value[f]
  BY <1>1, <1>2, <1>6 DEF SoFar
<1>7. ASSUME NEW i \in 1 .. m, row[i].flag \in Valued, \A j \in i + 1 .. m : row[j].flag # row[i].flag
      PROVE  p.value[row[i].flag] = row[i].value
  <2>1. CASE i = m
    BY <1>1, <1>7, <2>1
  <2>2. CASE i \in 1 .. n
    <3>1. it.flag # row[i].flag /\ \A j \in i + 1 .. n : row[j].flag # row[i].flag
      BY <1>3, <1>7, <2>2
    <3>2. o.value[row[i].flag] = row[i].value
      BY <1>7, <2>2, <3>1 DEF SoFar
    <3> QED BY <1>1, <1>7, <3>1, <3>2
  <2> QED BY <1>2, <2>1, <2>2
<1>8. SoFar(p, row, m)
  BY <1>1, <1>4, <1>5, <1>6, <1>7 DEF SoFar
<1> QED BY <1>8 DEF p, m

\* The words of a row, and the options they give.
LEMMA RowIsTaken ==
  ASSUME NEW N \in Nat, NEW row \in [1 .. N -> Items]
  PROVE  Spelled(row) \in Seq(WordSet) /\ SoFar(ParseFold!Fold(DEFAULT_OPTIONS, Spelled(row)), row, N)
<1>1. PICK g : GlueFold!Steps(<<>>, row, N, g) /\ g[N] = GlueFold!Fold(<<>>, row)
  <2>1. DOMAIN row = 1 .. N
    OBVIOUS
  <2> QED BY <2>1, GlueFold!FoldHasSteps
<1> DEFINE Taken(k) == g[k] \in Seq(WordSet) /\ SoFar(ParseFold!Fold(DEFAULT_OPTIONS, g[k]), row, k)
           T == {k \in Nat : k <= N => Taken(k)}
<1>2. 0 \in T
  <2>1. g[0] = <<>>
    BY <1>1 DEF GlueFold!Steps
  <2>2. ParseFold!Fold(DEFAULT_OPTIONS, <<>>) = DEFAULT_OPTIONS
    BY ParseFold!FoldEmpty, DOMAIN <<>> = {}
  <2>3. <<>> \in Seq(WordSet)
    OBVIOUS
  <2> QED BY <2>1, <2>2, <2>3, NothingSoFar
<1>3. ASSUME NEW k \in Nat, k \in T
      PROVE  k + 1 \in T
  <2> DEFINE j == k + 1
             w == row[j].words
             q == g[k]
             o == ParseFold!Fold(DEFAULT_OPTIONS, q)
             all == q \o w
             m == Len(q)
             n == Len(w)
  <2>1. SUFFICES ASSUME j <= N PROVE Taken(j)
    OBVIOUS
  <2>2. j \in 0 .. N /\ j # 0 /\ j - 1 = k /\ row[j] \in Items
    BY <2>1
  <2>3. q \in Seq(WordSet) /\ SoFar(o, row, k)
    BY <1>3, <2>1
  <2>4. w \in Seq(WordSet)
    BY <2>2, ItemFields
  <2>5. g[j] = all
    <3>1. g[j] = addWords(g[j - 1], row[j])
      BY <1>1, <2>2 DEF GlueFold!Steps
    <3> QED BY <2>2, <3>1 DEF addWords
  <2>6. Ready(o) /\ ParseFold!Fold(o, w) = Applied(o, row[j])
    <3>1. Ready(o)
      BY <2>3 DEF SoFar
    <3> QED BY <2>2, <3>1, ItemTaken
  <2> HIDE DEF j, q
  <2>7. all \in Seq(WordSet) /\ m \in Nat /\ n \in Nat /\ DOMAIN q = 1 .. m /\ DOMAIN w = 1 .. n
        /\ DOMAIN all = 1 .. m + n /\ (\A i \in 1 .. m : all[i] = q[i]) /\ (\A i \in 1 .. n : all[m + i] = w[i])
    BY <2>3, <2>4
  <2> HIDE DEF w, all, m, n
  <2>8. ParseFold!Fold(DEFAULT_OPTIONS, all) = ParseFold!Fold(ParseFold!Fold(DEFAULT_OPTIONS, q), w)
    <3>1. ParseFold!Joined(q, m, w, n, all)
      BY <2>7 DEF ParseFold!Joined
    <3> QED BY <2>7, <3>1, ParseFold!FoldParts
  <2>9. SoFar(Applied(o, row[j]), row, j)
    BY <2>2, <2>3, OneMoreSoFar DEF j
  <2> QED BY <2>5, <2>6, <2>7, <2>8, <2>9
<1> HIDE DEF T
<1>4. Nat \subseteq T
  BY <1>2, <1>3, GlueFold!Induction
<1>5. Taken(N)
  BY <1>4 DEF T
<1> QED BY <1>1, <1>5, SpelledIsFold

\* A row with one item more.
LEMMA ItemAdded ==
  ASSUME NEW N \in Nat, NEW row \in [1 .. N -> Items], NEW it \in Items
  PROVE  \E longer \in [1 .. N + 1 -> Items] : Spelled(longer) = Spelled(row) \o it.words
<1> DEFINE m == N + 1
           longer == [i \in 1 .. m |-> IF i = m THEN it ELSE row[i]]
<1>1. longer \in [1 .. m -> Items] /\ DOMAIN row = 1 .. N /\ DOMAIN longer = 1 .. N + 1
      /\ (\A k \in 1 .. N : longer[k] = row[k]) /\ longer[N + 1] = it
  OBVIOUS
<1> HIDE DEF longer
<1>2. GlueFold!Fold(<<>>, longer) = addWords(GlueFold!Fold(<<>>, row), longer[N + 1])
  BY <1>1, GlueFold!FoldLast
<1>3. Spelled(longer) = Spelled(row) \o it.words
  BY <1>1, <1>2, SpelledIsFold DEF addWords
<1> QED BY <1>1, <1>3

\* Some row has the first k words of c, but for a flag whose value is awaited.
CutSoFar(c, k, o) ==
  \E N \in 0 .. k : \E row \in [1 .. N -> Items] :
    \/ o.awaits = "none" /\ Spelled(row) = SubSeq(c, 1, k)
    \/ o.awaits # "none" /\ k >= 1 /\ c[k] = Word(o.awaits) /\ Spelled(row) = SubSeq(c, 1, k - 1)

LEMMA CutGoesOn ==
  ASSUME NEW c \in Seq(Words), NEW k \in Nat, k + 1 <= Len(c),
         NEW o \in OptionSet, o.ok => CutSoFar(c, k, o), parseWord(o, c[k + 1]).ok
  PROVE  CutSoFar(c, k + 1, parseWord(o, c[k + 1]))
<1> DEFINE w == c[k + 1]
           p == parseWord(o, w)
<1>1. w \in Words /\ w \in WordSet /\ w.inline \in Vocabulary /\ asValue(w) \in Vocabulary
  <2>1. w \in Words
    OBVIOUS
  <2> QED BY <2>1, WordsAreWords DEF WordSet, asValue, Vocabulary
<1>2. o.ok /\ CutSoFar(c, k, o)
  BY <1>1, WordTaken
<1>3. PICK N \in 0 .. k : \E row \in [1 .. N -> Items] :
        \/ o.awaits = "none" /\ Spelled(row) = SubSeq(c, 1, k)
        \/ o.awaits # "none" /\ k >= 1 /\ c[k] = Word(o.awaits) /\ Spelled(row) = SubSeq(c, 1, k - 1)
  BY <1>2 DEF CutSoFar
<1>4. PICK row \in [1 .. N -> Items] :
        \/ o.awaits = "none" /\ Spelled(row) = SubSeq(c, 1, k)
        \/ o.awaits # "none" /\ k >= 1 /\ c[k] = Word(o.awaits) /\ Spelled(row) = SubSeq(c, 1, k - 1)
  BY <1>3
<1>5. SubSeq(c, 1, k) \o <<w>> = SubSeq(c, 1, k + 1)
  OBVIOUS
<1>6. N \in Nat /\ N + 1 \in 0 .. k + 1 /\ N \in 0 .. k + 1
  OBVIOUS
<1> SUFFICES CutSoFar(c, k + 1, p)
  OBVIOUS
<1> HIDE DEF w, p
<1>7. ASSUME NEW it \in Items, p.awaits = "none", Spelled(row) \o it.words = SubSeq(c, 1, k + 1)
      PROVE  CutSoFar(c, k + 1, p)
  <2>1. PICK longer \in [1 .. N + 1 -> Items] : Spelled(longer) = Spelled(row) \o it.words
    BY <1>6, ItemAdded
  <2> QED BY <1>6, <1>7, <2>1 DEF CutSoFar
<1>8. CASE o.awaits # "none"
  <2> DEFINE f == o.awaits
             it == Item(f, asValue(w), <<Word(f), w>>)
  <2>1. f \in Valued
    BY <1>8 DEF OptionSet
  <2>2. p = Take(o, f, asValue(w))
    BY <1>1, <1>2, <1>8, WordTaken DEF p
  <2>3. Accepts(f, asValue(w))
    BY <2>2, TakeRefuses DEF p, w
  <2>4. p.awaits = "none"
    BY <1>1, <1>2, <2>1, <2>2, <2>3, TakeAccepts, WithIsReady DEF Ready
  <2>5. it \in Items
    BY <1>1, <2>1, <2>3, ItemMade
  <2>6. it.words = <<Word(f), w>>
    BY DEF Item
  <2>7. SubSeq(c, 1, k - 1) \o <<c[k], w>> = SubSeq(c, 1, k + 1) /\ c[k] = Word(f) /\ Spelled(row) = SubSeq(c, 1, k - 1)
    <3>1. k >= 1 /\ c[k] = Word(f) /\ Spelled(row) = SubSeq(c, 1, k - 1)
      BY <1>4, <1>8
    <3>2. SubSeq(c, 1, k - 1) \o <<c[k], w>> = SubSeq(c, 1, k + 1)
      BY <3>1 DEF w
    <3> QED BY <3>1, <3>2
  <2>8. Spelled(row) \o it.words = SubSeq(c, 1, k + 1)
    <3> HIDE DEF it, f
    <3> QED BY <2>6, <2>7
  <2> HIDE DEF it
  <2> QED BY <1>7, <2>4, <2>5, <2>8
<1>9. CASE o.awaits = "none"
  <2>1. Ready(o) /\ Spelled(row) = SubSeq(c, 1, k)
    BY <1>2, <1>4, <1>9 DEF Ready
  <2>2. ASSUME NEW f \in {"--stdio", "--smoke"}, w = Word(f)
        PROVE  CutSoFar(c, k + 1, p)
    <3>1. p.awaits = "none"
      <4>1. p = [o EXCEPT !.stdio = TRUE] \/ p = [o EXCEPT !.smoke = TRUE]
        BY <1>1, <2>1, <2>2, WordTaken DEF p
      <4> QED BY <1>9, <4>1 DEF OptionSet
    <3>2. Item(f, "none", <<Word(f)>>) \in Items /\ Item(f, "none", <<Word(f)>>).words = <<w>>
      BY <2>2, ItemMade DEF Item
    <3> QED BY <1>5, <1>7, <2>1, <3>1, <3>2
  <2>3. ASSUME w.flag \in Valued, w.inline = "none"
        PROVE  CutSoFar(c, k + 1, p)
    <3>1. p.awaits = w.flag /\ w.flag # "none"
      BY <1>1, <2>1, <2>3, WordTaken DEF p, Ready, OptionSet, Valued
    <3>2. w = Word(w.flag)
      BY <1>1, <2>3 DEF Word, WordSet
    <3>3. k + 1 >= 1 /\ (k + 1) - 1 = k
      OBVIOUS
    <3> QED BY <1>6, <2>1, <3>1, <3>2, <3>3 DEF CutSoFar, w
  <2>4. ASSUME w.flag \in Valued, w.inline # "none"
        PROVE  CutSoFar(c, k + 1, p)
    <3>1. p = Take(o, w.flag, w.inline)
      BY <1>1, <2>1, <2>4, WordTaken DEF p
    <3>2. Accepts(w.flag, w.inline)
      BY <3>1, TakeRefuses DEF p, w
    <3>3. p.awaits = "none"
      BY <1>1, <1>2, <2>4, <3>1, <3>2, TakeAccepts, WithIsReady DEF Ready
    <3>4. Item(w.flag, w.inline, <<w>>) \in Items /\ Item(w.flag, w.inline, <<w>>).words = <<w>>
      BY <1>1, <2>4, <3>2, ItemMade DEF Item
    <3> QED BY <1>5, <1>7, <2>1, <3>3, <3>4
  <2>5. ASSUME w.flag \notin Valued, w # Word("--stdio"), w # Word("--smoke")
        PROVE  FALSE
    <3>1. p = [o EXCEPT !.ok = FALSE]
      BY <1>1, <2>1, <2>5, WordTaken DEF p
    <3> QED BY <3>1 DEF p, w, OptionSet
  <2>6. CASE w = Word("--stdio")
    BY <2>2, <2>6
  <2>7. CASE w = Word("--smoke")
    BY <2>2, <2>7
  <2> QED BY <2>3, <2>4, <2>5, <2>6, <2>7
<1> QED BY <1>8, <1>9

LEMMA AcceptedIsCut ==
  ASSUME NEW c \in Seq(Words)
  PROVE  LET o == ParseFold!Fold(DEFAULT_OPTIONS, c)
         IN  o \in OptionSet /\ ((o.ok /\ o.awaits = "none") => Cuts(c) # {})
<1> DEFINE n == Len(c)
<1>0. n \in Nat /\ DOMAIN c = 1 .. n
  OBVIOUS
<1>1. PICK g : ParseFold!Steps(DEFAULT_OPTIONS, c, n, g) /\ g[n] = ParseFold!Fold(DEFAULT_OPTIONS, c)
  <2> HIDE DEF n
  <2> QED BY <1>0, ParseFold!FoldHasSteps
<1> DEFINE Good(k) == g[k] \in OptionSet /\ (g[k].ok => CutSoFar(c, k, g[k]))
           T == {k \in Nat : k <= n => Good(k)}
<1>2. 0 \in T
  <2>1. g[0] = DEFAULT_OPTIONS
    BY <1>0, <1>1 DEF ParseFold!Steps
  <2>2. g[0] \in OptionSet /\ g[0].awaits = "none"
    BY <2>1, DefaultIsReady DEF Ready
  <2>3. SubSeq(c, 1, 0) = <<>>
    OBVIOUS
  <2> DEFINE row == [i \in 1 .. 0 |-> i]
  <2>4. row \in [1 .. 0 -> Items] /\ DOMAIN row = {} /\ 0 \in 0 .. 0
    OBVIOUS
  <2> HIDE DEF row
  <2>5. Spelled(row) = <<>>
    BY <2>4, GlueFold!FoldEmpty, SpelledIsFold
  <2>6. CutSoFar(c, 0, g[0])
    BY <2>2, <2>3, <2>4, <2>5 DEF CutSoFar
  <2> QED BY <2>2, <2>6
<1>3. ASSUME NEW k \in Nat, k \in T
      PROVE  k + 1 \in T
  <2>1. SUFFICES ASSUME k + 1 <= n PROVE Good(k + 1)
    OBVIOUS
  <2>2. k + 1 \in 0 .. n /\ k + 1 # 0 /\ (k + 1) - 1 = k /\ k + 1 \in 1 .. n
    BY <1>0, <2>1
  <2>3. g[k] \in OptionSet /\ (g[k].ok => CutSoFar(c, k, g[k]))
    BY <1>3, <2>1
  <2>4. g[k + 1] = parseWord(g[k], c[k + 1])
    BY <1>1, <2>2 DEF ParseFold!Steps
  <2>5. c[k + 1] \in WordSet
    BY <2>2, WordsAreWords
  <2>6. g[k + 1] \in OptionSet
    BY <2>3, <2>4, <2>5, OptionsStayOptions
  <2>7. g[k + 1].ok => CutSoFar(c, k + 1, g[k + 1])
    BY <2>1, <2>3, <2>4, CutGoesOn
  <2> QED BY <2>6, <2>7
<1> HIDE DEF T
<1>4. Nat \subseteq T
  BY <1>2, <1>3, ParseFold!Induction
<1>5. Good(n)
  BY <1>0, <1>4 DEF T
<1>6. ASSUME g[n].ok, g[n].awaits = "none"
      PROVE  Cuts(c) # {}
  <2>1. PICK N \in 0 .. n : \E row \in [1 .. N -> Items] : Spelled(row) = SubSeq(c, 1, n)
    BY <1>5, <1>6 DEF CutSoFar
  <2>2. SubSeq(c, 1, n) = c
    OBVIOUS
  <2> QED BY <2>1, <2>2 DEF Cuts
<1> QED BY <1>1, <1>5, <1>6

\* Accepted exactly when it can be cut, and then it says what each cut says.
LEMMA ParsedAsCut ==
  ASSUME NEW c \in Seq(Words)
  PROVE  /\ parseCliArgs(c).ok <=> Cuts(c) # {}
         /\ \A row \in Cuts(c) : SoFar(parseCliArgs(c), row, Len(row))
<1> DEFINE o == ParseFold!Fold(DEFAULT_OPTIONS, c)
           r == [o EXCEPT !.ok = @ /\ o.awaits = "none"]
<1>1. parseCliArgs(c) = r
  BY ParseIsFold DEF parseCliArgs
<1>2. o \in OptionSet /\ ((o.ok /\ o.awaits = "none") => Cuts(c) # {})
  BY AcceptedIsCut
<1>3. ASSUME NEW row \in Cuts(c)
      PROVE  SoFar(o, row, Len(row))
  <2>1. PICK N \in 0 .. Len(c) : row \in [1 .. N -> Items] /\ Spelled(row) = c
    BY DEF Cuts
  <2>2. N \in Nat /\ Len(row) = N
    BY <2>1
  <2> QED BY <2>1, <2>2, RowIsTaken
<1> HIDE DEF o
<1>4. r.ok <=> o.ok /\ o.awaits = "none"
  BY <1>2 DEF OptionSet
<1>5. Ready(o) => r = o
  BY DEF Ready, OptionSet
<1> HIDE DEF r
<1>6. \A row \in Cuts(c) : SoFar(r, row, Len(row))
  BY <1>3, <1>5 DEF SoFar
<1>7. Cuts(c) # {} => r.ok
  BY <1>6 DEF SoFar, Ready
<1> QED BY <1>1, <1>2, <1>4, <1>6, <1>7

\* In every state of a process: parseCliArgs() of the words it was started with.
LEMMA CommandLinesAreCut ==
  ASSUME BootInv
  PROVE  OptionsMeanWhatTheySay
<1> SUFFICES ASSUME NEW s \in Servers
             PROVE  /\ options(s).ok <=> Cuts(argv[s]) # {}
                    /\ \A row \in Cuts(argv[s]) :
                         /\ options(s).stdio <=> "--stdio" \in Flags(row)
                         /\ options(s).smoke <=> "--smoke" \in Flags(row)
                         /\ \A f \in Valued \ Flags(row) : options(s).value[f] = DEFAULT_OPTIONS.value[f]
                         /\ \A i \in DOMAIN row :
                              (row[i].flag \in Valued /\ \A j \in i + 1 .. Len(row) : row[j].flag # row[i].flag)
                                => options(s).value[row[i].flag] = row[i].value
  BY DEF OptionsMeanWhatTheySay
<1> DEFINE c == argv[s]
<1>1. c \in CommandLines
  BY DEF BootInv, BootTypeOK
<1>2. c \in Seq(Words)
  <2>1. c \in Seq(ToSet(c)) /\ ToSet(c) \subseteq Words
    BY <1>1, CommandLineAssumption DEF Words
  <2> HIDE DEF c
  <2> QED BY <2>1
<1> HIDE DEF c
<1>3. options(s).ok <=> Cuts(c) # {}
  BY <1>2, ParsedAsCut DEF options, c
<1>4. ASSUME NEW row \in Cuts(c)
      PROVE  /\ options(s).stdio <=> "--stdio" \in Flags(row)
             /\ options(s).smoke <=> "--smoke" \in Flags(row)
             /\ \A f \in Valued \ Flags(row) : options(s).value[f] = DEFAULT_OPTIONS.value[f]
             /\ \A i \in DOMAIN row :
                  (row[i].flag \in Valued /\ \A j \in i + 1 .. Len(row) : row[j].flag # row[i].flag)
                    => options(s).value[row[i].flag] = row[i].value
  <2>1. SoFar(options(s), row, Len(row))
    BY <1>2, ParsedAsCut DEF options, c
  <2>2. DOMAIN row = 1 .. Len(row)
    BY DEF Cuts
  <2> QED BY <2>1, <2>2 DEF SoFar, Flags
<1> QED BY <1>3, <1>4 DEF c

\* A server is started with the options its command line spells, whatever its length: it refuses the
\* words that cannot be cut into flags and values, accepts all others, and of several values for one
\* flag the last counts (parseCliArgs() in main.ts).
THEOREM OptionsAreMeant == BootSpec => []OptionsMeanWhatTheySay
<1>1. BootSpec => []BootInv
  BY BootBegins, BootNextKeeps, PTL DEF BootSpec
<1> QED BY <1>1, CommandLinesAreCut, PTL

-----------------------------------------------------------------------------
(* The editor plugin.                                                      *)

DueFold  == INSTANCE FoldLemmas WITH op <- duePing
DoFold   == INSTANCE FoldLemmas WITH op <- doOne
UndoFold == INSTANCE FoldLemmas WITH op <- undoOne
EditFold == INSTANCE FoldLemmas WITH op <- edited

LEMMA DueIsFold == \A base, seq : FoldLeft(duePing, base, seq) = DueFold!Fold(base, seq)
BY DEF DueFold!Fold, FoldLeft, MapThenFoldSet, DueFold!Largest, Max
LEMMA DoIsFold == \A base, seq : FoldLeft(doOne, base, seq) = DoFold!Fold(base, seq)
BY DEF DoFold!Fold, FoldLeft, MapThenFoldSet, DoFold!Largest, Max
LEMMA UndoIsFold == \A base, seq : FoldLeft(undoOne, base, seq) = UndoFold!Fold(base, seq)
BY DEF UndoFold!Fold, FoldLeft, MapThenFoldSet, UndoFold!Largest, Max
LEMMA EditIsFold == \A base, seq : FoldLeft(edited, base, seq) = EditFold!Fold(base, seq)
BY DEF EditFold!Fold, FoldLeft, MapThenFoldSet, EditFold!Largest, Max

-----------------------------------------------------------------------------
(* Operations that are performed and undone.                               *)

Ops    == [prop : Props, new : SetTo, old : SetTo]
Worlds == [Props -> SetTo]

LEMMA PerformedIsWorld ==
  ASSUME NEW w \in Worlds, NEW ops \in Seq(Ops)
  PROVE  performed(w, ops) \in Worlds
<1> DEFINE n == Len(ops)
<1>1. n \in Nat /\ DOMAIN ops = 1 .. n /\ \A k \in 1 .. n : ops[k] \in Ops
  OBVIOUS
<1> HIDE DEF n
<1>2. \A k \in 1 .. n : \A x \in Worlds : doOne(x, ops[k]) \in Worlds
  BY <1>1 DEF doOne, Worlds, Ops
<1>3. DoFold!Fold(w, ops) \in Worlds
  BY <1>1, <1>2, DoFold!FoldKeeps
<1> QED
  BY <1>3, DoIsFold DEF performed

LEMMA UndoneIsWorld ==
  ASSUME NEW w \in Worlds, NEW ops \in Seq(Ops)
  PROVE  undone(w, ops) \in Worlds
<1> DEFINE n == Len(ops)
<1>1. n \in Nat /\ DOMAIN ops = 1 .. n /\ \A k \in 1 .. n : ops[k] \in Ops
  OBVIOUS
<1> HIDE DEF n
<1>2. \A k \in 1 .. n : \A x \in Worlds : undoOne(x, ops[k]) \in Worlds
  BY <1>1 DEF undoOne, Worlds, Ops
<1>3. UndoFold!Fold(w, ops) \in Worlds
  BY <1>1, <1>2, UndoFold!FoldKeeps
<1> QED
  BY <1>3, UndoIsFold DEF undone

\* Undoing leaves p as it is, if it has the value that each operation on it goes back to.
LEMMA UndoneLeaves ==
  ASSUME NEW w \in Worlds, NEW ops \in Seq(Ops), NEW p \in Props,
         \A k \in DOMAIN ops : ops[k].prop = p => ops[k].old = w[p]
  PROVE  undone(w, ops)[p] = w[p]
<1> DEFINE S == {x \in Worlds : x[p] = w[p]}
           n == Len(ops)
<1>1. n \in Nat /\ DOMAIN ops = 1 .. n /\ \A k \in 1 .. n : ops[k] \in Ops
  OBVIOUS
<1> HIDE DEF n
<1>2. \A k \in 1 .. n : \A x \in S : undoOne(x, ops[k]) \in S
  BY <1>1 DEF undoOne, Worlds, Ops
<1>3. w \in S
  OBVIOUS
<1> HIDE DEF S
<1>5. \A k \in 1 .. n : ops[k].prop = p => ops[k].old = w[p]
  BY <1>1
<1>4. UndoFold!Fold(w, ops) \in S
  BY <1>1, <1>2, <1>3, UndoFold!FoldKeeps
<1> QED
  BY <1>4, UndoIsFold DEF S, undone

\* Undoing gives p the value v, if some operation is on p and each goes back to v.
GoesBackTo(ops, p, v) ==
  /\ \E i \in DOMAIN ops : ops[i].prop = p
  /\ \A k \in DOMAIN ops : ops[k].prop = p => ops[k].old = v

LEMMA UndoneRestores ==
  ASSUME NEW w \in Worlds, NEW ops \in Seq(Ops), NEW p \in Props, NEW v, GoesBackTo(ops, p, v)
  PROVE  undone(w, ops)[p] = v
<1>0. PICK i \in DOMAIN ops : ops[i].prop = p
  BY DEF GoesBackTo
<1>6. \A k \in DOMAIN ops : ops[k].prop = p => ops[k].old = v
  BY DEF GoesBackTo
<1> DEFINE n == Len(ops)
           S == [k \in 0 .. n |-> {x \in Worlds : k >= i => x[p] = v}]
<1>1. n \in Nat /\ DOMAIN ops = 1 .. n /\ i \in 1 .. n /\ \A k \in 1 .. n : ops[k] \in Ops
  OBVIOUS
<1>2. ASSUME NEW k \in 1 .. n, NEW x \in S[k - 1]
      PROVE  undoOne(x, ops[k]) \in S[k]
  <2>0. k \in 0 .. n /\ S[k] = {y \in Worlds : k >= i => y[p] = v}
    BY <1>1
  <2>1. x \in Worlds /\ (k - 1 >= i => x[p] = v)
    OBVIOUS
  <2>2. undoOne(x, ops[k]) \in Worlds
    BY <1>1, <2>1 DEF undoOne, Worlds, Ops
  <2>3. CASE ops[k].prop = p
    <3>1. undoOne(x, ops[k])[p] = v
      BY <1>1, <1>6, <2>1, <2>3 DEF undoOne, Worlds
    <3> QED BY <2>0, <2>2, <3>1
  <2>4. CASE ops[k].prop # p
    <3>1. undoOne(x, ops[k])[p] = x[p]
      BY <1>1, <2>1, <2>4 DEF undoOne, Worlds
    <3>2. k >= i => k - 1 >= i
      BY <1>0, <1>1, <2>4
    <3> QED
      BY <2>0, <2>1, <2>2, <3>1, <3>2
  <2> QED
    BY <2>3, <2>4
<1>3. w \in S[0]
  BY <1>1
<1>4. S[n] = {x \in Worlds : x[p] = v}
  BY <1>1
<1> HIDE DEF S, n
<1>5. UndoFold!Fold(w, ops) \in S[n]
  BY <1>1, <1>2, <1>3, UndoFold!FoldPasses
<1> QED
  BY <1>4, <1>5, UndoIsFold DEF undone

Actions == [ops : Seq(Ops), before : Worlds, outdated : SUBSET Props]

BatchTypeOK ==
  /\ world \in Worlds /\ wired \in BOOLEAN
  /\ queued \in [TxIds -> [state : {"new", "open", "closed"}, ops : Seq(Ops)]]
  /\ history \in Seq(Actions)
  /\ outdated \in [TxIds -> SUBSET Props]

\* What nobody has touched since an operation was queued has the value that undoing gives it.
QueuedInv ==
  \A t \in TxIds : \A i \in DOMAIN queued[t].ops :
    LET op == queued[t].ops[i] IN op.prop \notin outdated[t] => op.old = world[op.prop]

\* An action in the history goes back to what it found, except where others had been meanwhile.
GoesBack(action) ==
  \A i \in DOMAIN action.ops :
    LET op == action.ops[i] IN op.prop \notin action.outdated => op.old = action.before[op.prop]
HistoryInv == \A j \in DOMAIN history : GoesBack(history[j])

BatchInv == BatchTypeOK /\ QueuedInv /\ HistoryInv

LEMMA BatchBegins == EditorInit => BatchInv
<1> SUFFICES ASSUME EditorInit PROVE BatchInv
  OBVIOUS
<1>1. world \in Worlds
  BY EditorAssumption DEF EditorInit, Worlds
<1>2. queued \in [TxIds -> [state : {"new", "open", "closed"}, ops : Seq(Ops)]]
  BY DEF EditorInit, Tx
<1>3. history = <<>> /\ outdated \in [TxIds -> SUBSET Props] /\ wired \in BOOLEAN
  BY DEF EditorInit
<1>4. QueuedInv /\ HistoryInv
  BY <1>3 DEF EditorInit, Tx, QueuedInv, HistoryInv
<1> QED
  BY <1>1, <1>2, <1>3, <1>4 DEF BatchInv, BatchTypeOK

\* The world changes by the doing of t: the operations of the others are outdated where it does.
LEMMA BecomesKeeps ==
  ASSUME BatchInv, NEW w \in Worlds, NEW t, Becomes(w, t),
         \A u \in TxIds : u # t => queued'[u].ops = queued[u].ops,
         \A u \in TxIds : u = t => queued'[u].ops = <<>>
  PROVE  world' \in Worlds /\ outdated' \in [TxIds -> SUBSET Props] /\ QueuedInv'
<1> USE DEF BatchInv, BatchTypeOK
<1>1. ASSUME NEW u \in TxIds
      PROVE  PropsOf(queued[u].ops) \subseteq Props
  <2>1. \A i \in DOMAIN queued[u].ops : queued[u].ops[i] \in Ops
    OBVIOUS
  <2> QED
    BY <2>1 DEF PropsOf, Ops
<1>2. world' = w /\ outdated' \in [TxIds -> SUBSET Props]
  BY <1>1 DEF Becomes
<1>3. ASSUME NEW u \in TxIds, NEW i \in DOMAIN queued'[u].ops, queued'[u].ops[i].prop \notin outdated'[u]
      PROVE  queued'[u].ops[i].old = world'[queued'[u].ops[i].prop]
  <2>1. u # t /\ queued'[u].ops = queued[u].ops
    <3>1. CASE u = t
      BY <1>3, <3>1
    <3>2. CASE u # t
      BY <3>2
    <3> QED
      BY <3>1, <3>2
  <2> DEFINE o == queued[u].ops[i]
  <2>2. i \in DOMAIN queued[u].ops /\ o \in Ops
    BY <2>1
  <2>3. o.prop \in PropsOf(queued[u].ops)
    BY <2>2 DEF PropsOf
  <2>4. outdated'[u] = outdated[u] \cup {p \in PropsOf(queued[u].ops) : w[p] # world[p]}
    BY <2>1 DEF Becomes
  <2>5. o.prop \notin outdated[u] /\ w[o.prop] = world[o.prop]
    BY <1>3, <2>1, <2>3, <2>4
  <2>6. o.old = world[o.prop]
    BY <2>2, <2>5 DEF QueuedInv
  <2> QED
    BY <1>2, <2>1, <2>5, <2>6
<1> QED
  BY <1>2, <1>3 DEF QueuedInv

\* A new action goes back to what it found.
LEMMA ActionKeeps ==
  ASSUME BatchInv, NEW ops \in Seq(Ops), NEW t, CommitAction(ops, t), t = NoTx \/ t \in TxIds,
         \A i \in DOMAIN ops : (t = NoTx \/ ops[i].prop \notin outdated[t]) => ops[i].old = world[ops[i].prop],
         \A u \in TxIds : u # t => queued'[u].ops = queued[u].ops,
         \A u \in TxIds : u = t => queued'[u].ops = <<>>
  PROVE  /\ world' \in Worlds /\ outdated' \in [TxIds -> SUBSET Props] /\ QueuedInv'
         /\ history' \in Seq(Actions) /\ HistoryInv' /\ Len(history') >= Len(history)
         /\ history' = history => UNCHANGED world
<1>0. history \in Seq(Actions) /\ HistoryInv /\ world \in Worlds /\ outdated \in [TxIds -> SUBSET Props]
  BY DEF BatchInv, BatchTypeOK
<1>1. CASE wired
  <2> DEFINE new == [ops |-> ops, before |-> world, outdated |-> IF t = NoTx THEN {} ELSE outdated[t]]
  <2>1. Becomes(performed(world, ops), t) /\ history' = Append(history, new)
    BY <1>1 DEF CommitAction
  <2>2. performed(world, ops) \in Worlds
    BY <1>0, PerformedIsWorld
  <2>3. world' \in Worlds /\ outdated' \in [TxIds -> SUBSET Props] /\ QueuedInv'
    BY <2>1, <2>2, BecomesKeeps
  <2>4. new \in Actions
    BY <1>0 DEF Actions
  <2>6. GoesBack(new)
    <3>1. new.ops = ops /\ new.before = world
      OBVIOUS
    <3>2. \A i \in DOMAIN ops : ops[i].prop \notin new.outdated => ops[i].old = world[ops[i].prop]
      OBVIOUS
    <3> HIDE DEF new
    <3> QED
      BY <3>1, <3>2 DEF GoesBack
  <2> HIDE DEF new
  <2>5. /\ history' \in Seq(Actions) /\ Len(history') = Len(history) + 1 /\ history'[Len(history) + 1] = new
        /\ \A j \in 1 .. Len(history) : history'[j] = history[j]
    BY <1>0, <2>1, <2>4
  <2>8. HistoryInv'
    <3>1. \A j \in DOMAIN history' : j \in 1 .. Len(history) \/ j = Len(history) + 1
      BY <1>0, <2>5
    <3> QED
      BY <1>0, <2>5, <2>6, <3>1 DEF HistoryInv
  <2>9. Len(history') >= Len(history) /\ history' # history
    BY <1>0, <2>5
  <2> QED
    BY <2>3, <2>5, <2>8, <2>9
<1>2. CASE ~wired
  <2>1. UNCHANGED <<world, outdated, history>>
    BY <1>2 DEF CommitAction
  <2>2. QueuedInv'
    <3>1. \A u \in TxIds : queued'[u].ops = queued[u].ops \/ queued'[u].ops = <<>>
      BY <1>2
    <3> QED
      BY <2>1, <3>1 DEF QueuedInv, BatchInv
  <2>3. HistoryInv'
    <3>1. HistoryInv /\ history' = history
      BY <1>0, <2>1
    <3> QED
      BY <3>1 DEF HistoryInv
  <2> QED
    BY <1>0, <2>1, <2>2, <2>3
<1> QED
  BY <1>1, <1>2

LEMMA ReverseOfOps ==
  ASSUME NEW ops \in Seq(Ops)
  PROVE  /\ Reverse(ops) \in Seq(Ops)
         /\ \A k \in DOMAIN Reverse(ops) : \E j \in DOMAIN ops : Reverse(ops)[k] = ops[j]
<1> DEFINE n == Len(ops)
<1>1. n \in Nat /\ DOMAIN ops = 1 .. n /\ \A k \in 1 .. n : ops[k] \in Ops
  OBVIOUS
<1>2. \A k \in 1 .. n : (n - k) + 1 \in 1 .. n
  BY <1>1
<1>3. Reverse(ops) = [k \in 1 .. n |-> ops[(n - k) + 1]]
  BY DEF Reverse
<1> HIDE DEF n
<1>4. [k \in 1 .. n |-> ops[(n - k) + 1]] \in Seq(Ops)
  BY <1>1, <1>2
<1>5. \A k \in 1 .. n : [j \in 1 .. n |-> ops[(n - j) + 1]][k] = ops[(n - k) + 1]
  OBVIOUS
<1> QED
  BY <1>1, <1>2, <1>3, <1>4, <1>5

LEMMA WrapKeeps ==
  ASSUME BatchInv, NEW p \in Props, NEW v \in SetTo, NEW t \in TxIds \cup {NoTx}, WrapProperty(p, v, t)
  PROVE  BatchInv' /\ TakesBackItsOwn
<1> DEFINE op == [prop |-> p, new |-> v, old |-> world[p]]
<1>1. op \in Ops /\ <<op>> \in Seq(Ops)
  BY DEF BatchInv, BatchTypeOK, Worlds, Ops
<1>2. CASE t # NoTx /\ queued[t].state = "open"
  <2>1. /\ queued' = [queued EXCEPT ![t].ops = Append(@, op)]
        /\ UNCHANGED <<world, outdated, history, wired>>
    BY <1>2 DEF WrapProperty
  <2>2. t \in TxIds
    BY <1>2
  <2> DEFINE ops == queued[t].ops
  <2>3. ops \in Seq(Ops)
    BY <2>2 DEF BatchInv, BatchTypeOK
  <2>4. /\ queued'[t].ops = Append(ops, op) /\ queued'[t].state = "open"
        /\ \A u \in TxIds \ {t} : queued'[u] = queued[u]
        /\ queued' \in [TxIds -> [state : {"new", "open", "closed"}, ops : Seq(Ops)]]
    <3>1. Append(ops, op) \in Seq(Ops)
      BY <1>1, <2>3
    <3> QED
      BY <1>2, <2>1, <2>2, <3>1 DEF BatchInv, BatchTypeOK
  <2>5. BatchTypeOK' /\ HistoryInv'
    <3>1. BatchTypeOK /\ HistoryInv
      BY DEF BatchInv
    <3>2. BatchTypeOK'
      BY <2>1, <2>4, <3>1 DEF BatchTypeOK
    <3> QED
      BY <2>1, <3>1, <3>2 DEF HistoryInv
  <2>6. QueuedInv'
    <3> SUFFICES ASSUME NEW u \in TxIds, NEW i \in DOMAIN queued'[u].ops,
                        queued'[u].ops[i].prop \notin outdated[u]
                 PROVE  queued'[u].ops[i].old = world[queued'[u].ops[i].prop]
      BY <2>1 DEF QueuedInv
    <3>1. CASE u # t
      <4>1. queued'[u] = queued[u]
        BY <2>4, <3>1
      <4>2. i \in DOMAIN queued[u].ops /\ queued[u].ops[i].prop \notin outdated[u]
        BY <4>1
      <4> QED
        BY <4>1, <4>2 DEF BatchInv, QueuedInv
    <3>2. CASE u = t /\ i = Len(ops) + 1
      BY <2>3, <2>4, <3>2
    <3>3. CASE u = t /\ i # Len(ops) + 1
      <4>1. i \in DOMAIN ops /\ queued'[t].ops[i] = ops[i]
        BY <2>3, <2>4, <3>3
      <4> QED
        BY <2>2, <3>3, <4>1 DEF BatchInv, QueuedInv
    <3> QED
      BY <3>1, <3>2, <3>3
  <2>7. TakesBackItsOwn
    BY <2>1 DEF TakesBackItsOwn, BatchInv, BatchTypeOK
  <2> QED
    BY <2>5, <2>6, <2>7 DEF BatchInv
<1>3. CASE ~(t # NoTx /\ queued[t].state = "open")
  <2>1. CommitAction(<<op>>, NoTx) /\ UNCHANGED <<queued, wired>>
    BY <1>3 DEF WrapProperty
  <2>2. /\ world' \in Worlds /\ outdated' \in [TxIds -> SUBSET Props] /\ QueuedInv'
        /\ history' \in Seq(Actions) /\ HistoryInv' /\ Len(history') >= Len(history)
    <3>1. \A i \in DOMAIN <<op>> : <<op>>[i].old = world[<<op>>[i].prop]
      OBVIOUS
    <3>2. NoTx \notin TxIds
      BY EditorAssumption
    <3> HIDE DEF op
    <3> QED
      BY <1>1, <2>1, <3>1, <3>2, ActionKeeps
  <2>3. BatchTypeOK'
    BY <2>1, <2>2 DEF BatchInv, BatchTypeOK
  <2>4. TakesBackItsOwn
    BY <2>1, <2>2 DEF TakesBackItsOwn, BatchInv, BatchTypeOK
  <2> QED
    BY <2>2, <2>3, <2>4 DEF BatchInv
<1> QED
  BY <1>2, <1>3

LEMMA BeginKeeps ==
  ASSUME BatchInv, NEW t \in TxIds, BeginTx(t)
  PROVE  BatchInv' /\ TakesBackItsOwn
<1>1. /\ queued' = [queued EXCEPT ![t] = Tx("open", <<>>)] /\ UNCHANGED <<world, wired, history, outdated>>
      /\ queued[t].state = "new"
  BY DEF BeginTx
<1>2. BatchTypeOK /\ QueuedInv /\ HistoryInv
  BY DEF BatchInv
<1>3. /\ queued' \in [TxIds -> [state : {"new", "open", "closed"}, ops : Seq(Ops)]]
      /\ queued'[t].ops = <<>> /\ queued'[t].state = "open" /\ \A u \in TxIds \ {t} : queued'[u] = queued[u]
  BY <1>1, <1>2 DEF BatchTypeOK, Tx
<1>4. BatchTypeOK'
  BY <1>1, <1>2, <1>3 DEF BatchTypeOK
<1>5. QueuedInv'
  BY <1>1, <1>2, <1>3 DEF QueuedInv
<1>6. HistoryInv'
  BY <1>1, <1>2 DEF HistoryInv
<1>7. TakesBackItsOwn
  BY <1>1, <1>2, <1>3 DEF TakesBackItsOwn, BatchTypeOK
<1> QED
  BY <1>4, <1>5, <1>6, <1>7 DEF BatchInv

LEMMA CommitKeeps ==
  ASSUME BatchInv, NEW t \in TxIds, CommitTx(t)
  PROVE  BatchInv' /\ TakesBackItsOwn
<1>1. /\ queued' = [queued EXCEPT ![t] = Tx("closed", <<>>)] /\ UNCHANGED wired
      /\ CommitAction(queued[t].ops, t) /\ queued[t].state = "open"
  BY DEF CommitTx
<1>2. BatchTypeOK /\ QueuedInv
  BY DEF BatchInv
<1>3. /\ queued' \in [TxIds -> [state : {"new", "open", "closed"}, ops : Seq(Ops)]]
      /\ queued'[t].ops = <<>> /\ \A u \in TxIds \ {t} : queued'[u] = queued[u]
  BY <1>1, <1>2 DEF BatchTypeOK, Tx
<1>4. /\ world' \in Worlds /\ outdated' \in [TxIds -> SUBSET Props] /\ QueuedInv'
      /\ history' \in Seq(Actions) /\ HistoryInv' /\ Len(history') >= Len(history)
      /\ history' = history => UNCHANGED world
  <2>1. t # NoTx /\ queued[t].ops \in Seq(Ops)
    BY <1>2, EditorAssumption DEF BatchTypeOK
  <2>2. \A i \in DOMAIN queued[t].ops :
          queued[t].ops[i].prop \notin outdated[t] => queued[t].ops[i].old = world[queued[t].ops[i].prop]
    BY <1>2 DEF QueuedInv
  <2> DEFINE ops == queued[t].ops
  <2>3. /\ ops \in Seq(Ops) /\ CommitAction(ops, t)
        /\ \A i \in DOMAIN ops : (t = NoTx \/ ops[i].prop \notin outdated[t]) => ops[i].old = world[ops[i].prop]
    BY <1>1, <2>1, <2>2
  <2>4. /\ \A u \in TxIds : u # t => queued'[u].ops = queued[u].ops
        /\ \A u \in TxIds : u = t => queued'[u].ops = <<>>
    BY <1>3
  <2> HIDE DEF ops
  <2> QED
    BY <2>3, <2>4, ActionKeeps
<1>5. BatchTypeOK'
  BY <1>1, <1>2, <1>3, <1>4 DEF BatchTypeOK
<1>6. TakesBackItsOwn
  BY <1>1, <1>2, <1>3, <1>4 DEF TakesBackItsOwn, BatchTypeOK
<1> QED
  BY <1>4, <1>5, <1>6 DEF BatchInv

LEMMA RollbackKeeps ==
  ASSUME BatchInv, NEW t \in TxIds, RollbackTx(t)
  PROVE  BatchInv' /\ TakesBackItsOwn
<1> DEFINE ops == queued[t].ops
           w == undone(world, Reverse(ops))
<1>1. /\ queued' = [queued EXCEPT ![t] = Tx("closed", <<>>)] /\ UNCHANGED <<wired, history>>
      /\ Becomes(w, t) /\ queued[t].state = "open"
  BY DEF RollbackTx
<1>2. BatchTypeOK /\ QueuedInv /\ HistoryInv /\ world \in Worlds
  BY DEF BatchInv, BatchTypeOK
<1>3. /\ queued' \in [TxIds -> [state : {"new", "open", "closed"}, ops : Seq(Ops)]]
      /\ queued'[t].ops = <<>> /\ \A u \in TxIds \ {t} : queued'[u] = queued[u]
  BY <1>1, <1>2 DEF BatchTypeOK, Tx
<1>4. ops \in Seq(Ops)
  BY <1>2 DEF BatchTypeOK
<1>5. w \in Worlds
  BY <1>2, <1>4, ReverseOfOps, UndoneIsWorld
<1>6. world' = w /\ world' \in Worlds /\ outdated' \in [TxIds -> SUBSET Props] /\ QueuedInv'
  <2>1. world' = w
    BY <1>1 DEF Becomes
  <2>2. /\ \A u \in TxIds : u # t => queued'[u].ops = queued[u].ops
        /\ \A u \in TxIds : u = t => queued'[u].ops = <<>>
    BY <1>3
  <2> HIDE DEF w
  <2> QED
    BY <1>1, <1>5, <2>1, <2>2, BecomesKeeps
<1>7. ASSUME NEW p \in Props, p \notin outdated[t]
      PROVE  w[p] = world[p]
  <2>1. \A j \in DOMAIN ops : ops[j].prop = p => ops[j].old = world[p]
    BY <1>2, <1>7 DEF QueuedInv
  <2>2. \A k \in DOMAIN Reverse(ops) : Reverse(ops)[k].prop = p => Reverse(ops)[k].old = world[p]
    BY <1>4, <2>1, ReverseOfOps
  <2>3. Reverse(ops) \in Seq(Ops)
    BY <1>4, ReverseOfOps
  <2> QED
    BY <1>2, <2>2, <2>3, UndoneLeaves
<1>8. BatchTypeOK'
  BY <1>1, <1>2, <1>3, <1>6 DEF BatchTypeOK
<1>9. HistoryInv'
  BY <1>1, <1>2 DEF HistoryInv
<1>10. TakesBackItsOwn
  <2>1. ~(Len(history') < Len(history))
    BY <1>1, <1>2 DEF BatchTypeOK
  <2>2. \A u \in TxIds : (queued[u].state = "open" /\ queued'[u].state = "closed") => u = t
    BY <1>3
  <2>3. \A p \in Props : world'[p] # world[p] => p \in outdated[t]
    BY <1>6, <1>7
  <2> QED
    BY <2>1, <2>2, <2>3 DEF TakesBackItsOwn
<1> QED
  BY <1>6, <1>8, <1>9, <1>10 DEF BatchInv

LEMMA UserUndoesKeeps ==
  ASSUME BatchInv, UserUndoes
  PROVE  BatchInv' /\ TakesBackItsOwn
<1> DEFINE n == Len(history)
           last == history[n]
           w == undone(world, last.ops)
<1>1. /\ history # <<>> /\ Last(history) = last /\ Becomes(w, NoTx)
      /\ history' = Front(history) /\ UNCHANGED <<wired, queued>>
  BY DEF UserUndoes, Last
<1>2. BatchTypeOK /\ QueuedInv /\ HistoryInv /\ world \in Worlds /\ history \in Seq(Actions)
  BY DEF BatchInv, BatchTypeOK
<1>3. n \in Nat \ {0} /\ DOMAIN history = 1 .. n /\ last \in Actions /\ n \in DOMAIN history
  BY <1>1, <1>2
<1>4. last.ops \in Seq(Ops) /\ last.before \in Worlds /\ GoesBack(last)
  BY <1>2, <1>3 DEF Actions, HistoryInv
<1>5. w \in Worlds
  BY <1>2, <1>4, UndoneIsWorld
<1>6. world' = w /\ world' \in Worlds /\ outdated' \in [TxIds -> SUBSET Props] /\ QueuedInv'
  <2>1. world' = w
    BY <1>1 DEF Becomes
  <2>2. /\ \A u \in TxIds : u # NoTx => queued'[u].ops = queued[u].ops
        /\ \A u \in TxIds : u = NoTx => queued'[u].ops = <<>>
    BY <1>1, EditorAssumption
  <2> HIDE DEF w
  <2> QED
    BY <1>1, <1>5, <2>1, <2>2, BecomesKeeps
<1>7. /\ history' \in Seq(Actions) /\ Len(history') = n - 1
      /\ \A j \in 1 .. n - 1 : history'[j] = history[j]
  <2>1. history' = SubSeq(history, 1, n - 1)
    BY <1>1 DEF Front
  <2> QED
    BY <1>2, <1>3, <2>1
<1>8. HistoryInv'
  BY <1>2, <1>3, <1>7 DEF HistoryInv
<1>9. BatchTypeOK'
  BY <1>1, <1>2, <1>6, <1>7 DEF BatchTypeOK
<1>10. ASSUME NEW p \in PropsOf(last.ops) \ last.outdated
       PROVE  w[p] = last.before[p]
  <2>1. PICK i \in DOMAIN last.ops : last.ops[i].prop = p
    BY DEF PropsOf
  <2>2. p \in Props
    <3>1. last.ops[i] \in Ops
      BY <1>4, <2>1
    <3> QED
      BY <2>1, <3>1 DEF Ops
  <2>3. \A k \in DOMAIN last.ops : last.ops[k].prop = p => last.ops[k].old = last.before[p]
    BY <1>4, <1>10 DEF GoesBack
  <2> DEFINE ops == last.ops
             v   == last.before[p]
  <2>4. ops \in Seq(Ops) /\ GoesBackTo(ops, p, v)
    BY <1>4, <2>1, <2>3 DEF GoesBackTo
  <2> HIDE DEF ops, v
  <2>5. undone(world, ops)[p] = v
    BY <1>2, <2>2, <2>4, UndoneRestores
  <2> QED
    BY <2>5 DEF ops, v
<1>11. TakesBackItsOwn
  <2>1. \A t \in TxIds : queued'[t].state = queued[t].state
    BY <1>1
  <2>2. \A p \in PropsOf(last.ops) \ last.outdated : world'[p] = last.before[p]
    BY <1>6, <1>10
  <2> HIDE DEF last
  <2> QED
    BY <1>1, <2>1, <2>2 DEF TakesBackItsOwn
<1> QED
  BY <1>6, <1>8, <1>9, <1>11 DEF BatchInv

-----------------------------------------------------------------------------
(* The misses that the monitor counts.                                     *)

Monitors == [running : BOOLEAN, elapsed : Int, next : Nat \ {0}, pending : Nat, misses : Nat, drops : Nat]

\* The pings in a row, the outstanding one apart, whose pong did not come in time.
Row(next, answered) == {k \in 1 .. next - 2 : answered \cap (k .. next - 1) = {}}

Counts(m, answered) ==
  /\ answered \subseteq 1 .. m.next - 1
  /\ \/ m.pending = 0 /\ (m.next = 1 \/ m.next - 1 \in answered)
     \/ m.pending = m.next - 1 /\ m.pending # 0 /\ m.pending \notin answered
  /\ m.misses = Cardinality(Row(m.next, answered))

RunsInTime(m) == m.running => m.misses < MAX_MISSED

LinkInv == monitor \in Monitors /\ Counts(monitor, timely) /\ RunsInTime(monitor)

LEMMA RowIsFinite ==
  ASSUME NEW next \in Nat, NEW answered
  PROVE  IsFiniteSet(Row(next, answered)) /\ Cardinality(Row(next, answered)) \in Nat
<1>1. IsFiniteSet(1 .. next - 2)
  BY FS_Interval
<1> QED
  BY <1>1, FS_Subset, FS_CardinalityType DEF Row

LEMMA RowIsEmpty ==
  ASSUME NEW next \in Nat, NEW answered, next < 3 \/ next - 1 \in answered \/ next - 2 \in answered
  PROVE  Cardinality(Row(next, answered)) = 0
<1>1. Row(next, answered) = {}
  BY DEF Row
<1> QED
  BY <1>1, FS_EmptySet

\* One more, if the last is outstanding.
LEMMA RowGrows ==
  ASSUME NEW next \in Nat, next >= 2, NEW answered, answered \subseteq 1 .. next - 2
  PROVE  Cardinality(Row(next + 1, answered)) = Cardinality(Row(next, answered)) + 1
<1>1. Row(next + 1, answered) = Row(next, answered) \cup {next - 1}
  BY DEF Row
<1>2. next - 1 \notin Row(next, answered)
  BY DEF Row
<1> QED
  BY <1>1, <1>2, RowIsFinite, FS_AddElement

LEMMA SendCounts ==
  ASSUME NEW m \in Monitors, NEW answered, Counts(m, answered)
  PROVE  /\ sendNextPing(m) \in Monitors /\ Counts(sendNextPing(m), answered)
         /\ RunsInTime(sendNextPing(m))
         /\ sendNextPing(m).next = m.next + 1 /\ sendNextPing(m).elapsed = m.elapsed
<1> DEFINE missed == IF m.pending = 0 THEN m.misses ELSE m.misses + 1
           lost   == missed >= MAX_MISSED
           s      == sendNextPing(m)
<1>1. m.next \in Nat \ {0} /\ m.pending \in Nat /\ m.misses \in Nat /\ m.drops \in Nat
  BY DEF Monitors
<1>2. missed \in Nat /\ lost \in BOOLEAN /\ MAX_MISSED \in Nat
  BY <1>1, EditorAssumption
<1>3. /\ s \in Monitors /\ s.misses = missed /\ s.pending = m.next /\ s.next = m.next + 1
      /\ s.running = (m.running /\ ~lost) /\ s.elapsed = m.elapsed
  <2> DEFINE next    == m.next + 1
             drops   == IF lost THEN m.drops + 1 ELSE m.drops
             running == m.running /\ ~lost
             pending == m.next
  <2>1. /\ next \in Nat \ {0} /\ drops \in Nat /\ running \in BOOLEAN /\ pending \in Nat
    BY <1>1, <1>2
  <2>2. s = [m EXCEPT !.misses = missed, !.pending = pending, !.next = next, !.drops = drops, !.running = running]
    BY DEF sendNextPing
  <2> HIDE DEF s, next, drops, running, missed, lost, pending
  <2>3. /\ s \in Monitors /\ s.misses = missed /\ s.pending = pending /\ s.next = next
        /\ s.running = running /\ s.elapsed = m.elapsed
    BY <1>2, <2>1, <2>2 DEF Monitors
  <2> QED
    BY <2>3 DEF next, running, pending
<1>4. missed = Cardinality(Row(m.next + 1, answered))
  <2>1. CASE m.pending = 0
    <3>1. m.next = 1 \/ m.next - 1 \in answered
      BY <2>1, <1>1 DEF Counts
    <3>2. Cardinality(Row(m.next, answered)) = 0
      BY <1>1, <3>1, RowIsEmpty
    <3> DEFINE p == m.next + 1
    <3>3. p \in Nat /\ (p < 3 \/ p - 2 \in answered)
      BY <1>1, <3>1
    <3> HIDE DEF p
    <3>4. Cardinality(Row(p, answered)) = 0
      BY <3>3, RowIsEmpty
    <3> QED
      BY <2>1, <3>2, <3>4 DEF Counts, p
  <2>2. CASE m.pending # 0
    <3>1. m.next >= 2 /\ answered \subseteq 1 .. m.next - 2
      BY <2>2, <1>1 DEF Counts
    <3> QED
      BY <1>1, <2>2, <3>1, RowGrows DEF Counts
  <2> QED
    BY <2>1, <2>2
<1> HIDE DEF s, missed
<1>5. /\ answered \subseteq 1 .. s.next - 1 /\ s.pending = s.next - 1 /\ s.pending # 0 /\ s.pending \notin answered
  BY <1>3, <1>1 DEF Counts
<1>6. Counts(s, answered) /\ RunsInTime(s)
  <2>1. s.misses = Cardinality(Row(s.next, answered))
    BY <1>3, <1>4
  <2>2. s.running => s.misses < MAX_MISSED
    <3>1. s.running => ~lost
      BY <1>3
    <3>2. ~lost => missed < MAX_MISSED
      BY <1>2
    <3> HIDE DEF lost
    <3> QED
      BY <1>3, <3>1, <3>2
  <2> QED
    BY <1>5, <2>1, <2>2 DEF Counts, RunsInTime
<1> QED
  BY <1>3, <1>6 DEF s

LEMMA LinkBegins == EditorInit => LinkInv
<1> SUFFICES ASSUME EditorInit PROVE LinkInv
  OBVIOUS
<1>1. /\ monitor \in Monitors /\ monitor.next = 1 /\ monitor.pending = 0 /\ monitor.misses = 0
      /\ ~monitor.running /\ timely = {}
  BY DEF EditorInit, Monitors
<1>2. Cardinality(Row(1, timely)) = 0
  BY RowIsEmpty
<1> QED
  BY <1>1, <1>2 DEF LinkInv, Counts, RunsInTime

\* Neither the clock nor the switch is counted.
IsReset(s, m, r, e) == s = [m EXCEPT !.running = r, !.elapsed = e]

LEMMA Reset ==
  ASSUME NEW m \in Monitors, NEW r \in BOOLEAN, NEW e \in Int, NEW answered, Counts(m, answered),
         NEW s, IsReset(s, m, r, e)
  PROVE  /\ s \in Monitors /\ Counts(s, answered)
         /\ s.running = r /\ s.elapsed = e /\ s.next = m.next /\ s.misses = m.misses
<1>1. /\ s \in Monitors /\ s.next = m.next /\ s.pending = m.pending /\ s.misses = m.misses
      /\ s.running = r /\ s.elapsed = e
  BY DEF Monitors, IsReset
<1> QED
  BY <1>1 DEF Counts

LEMMA MonitorStarts ==
  ASSUME LinkInv, StartMonitor
  PROVE  LinkInv'
<1> DEFINE m == [monitor EXCEPT !.running = TRUE, !.elapsed = 0]
<1>1. monitor' = sendNextPing(m) /\ timely' = timely
  BY DEF StartMonitor, Sends
<1>2. m \in Monitors /\ Counts(m, timely)
  <2> DEFINE r == TRUE
             e == 0
  <2>1. r \in BOOLEAN /\ e \in Int /\ IsReset(m, monitor, r, e)
    BY DEF IsReset
  <2> HIDE DEF r, e, m
  <2>2. monitor \in Monitors /\ Counts(monitor, timely)
    BY DEF LinkInv
  <2> QED
    BY <2>1, <2>2, Reset
<1> HIDE DEF m
<1> QED
  BY <1>1, <1>2, SendCounts DEF LinkInv

LEMMA MonitorStops ==
  ASSUME LinkInv, StopMonitor
  PROVE  LinkInv'
<1> DEFINE e == monitor.elapsed
           m == [monitor EXCEPT !.running = FALSE, !.elapsed = e]
<1>1. e \in Int /\ monitor \in Monitors /\ Counts(monitor, timely)
  BY DEF LinkInv, Monitors
<1>2. monitor' = m /\ timely' = timely
  BY <1>1 DEF StopMonitor, Monitors
<1> HIDE DEF e
<1>4. FALSE \in BOOLEAN /\ IsReset(m, monitor, FALSE, e)
  BY DEF IsReset
<1> HIDE DEF m
<1>3. m \in Monitors /\ Counts(m, timely) /\ m.running = FALSE
  BY <1>1, <1>4, Reset
<1> QED
  BY <1>2, <1>3 DEF LinkInv, RunsInTime

LEMMA DueKeeps ==
  ASSUME NEW m \in Monitors, NEW i, NEW answered, Counts(m, answered), RunsInTime(m)
  PROVE  duePing(m, i) \in Monitors /\ Counts(duePing(m, i), answered) /\ RunsInTime(duePing(m, i))
<1>1. CASE ~m.running
  BY <1>1 DEF duePing
<1>2. CASE m.running
  <2> DEFINE e == m.elapsed - PING_INTERVAL
             r == m.running
             later == [m EXCEPT !.running = r, !.elapsed = e]
  <2>1. e \in Int /\ r \in BOOLEAN
    BY EditorAssumption DEF Monitors
  <2>2. duePing(m, i) = sendNextPing(later)
    BY <1>2 DEF duePing, Monitors
  <2> HIDE DEF e, r
  <2>4. IsReset(later, m, r, e)
    BY DEF IsReset
  <2> HIDE DEF later
  <2>3. later \in Monitors /\ Counts(later, answered)
    BY <2>1, <2>4, Reset
  <2> QED
    BY <2>2, <2>3, SendCounts
<1> QED
  BY <1>1, <1>2

LEMMA TickKeeps ==
  ASSUME LinkInv, NEW delta \in Int, TickMonitor(delta)
  PROVE  LinkInv'
<1> DEFINE now  == [monitor EXCEPT !.elapsed = @ + delta]
           n    == now.elapsed \div PING_INTERVAL
           due  == [i \in 1 .. n |-> i]
           S    == {m \in Monitors : Counts(m, timely) /\ RunsInTime(m)}
<1>1. monitor' = FoldLeft(duePing, now, due) /\ timely' = timely
  BY DEF TickMonitor, Sends
<1>2. now \in S /\ now.elapsed \in Int
  <2> DEFINE r == monitor.running
             e == monitor.elapsed + delta
             later == [monitor EXCEPT !.running = r, !.elapsed = e]
  <2>1. r \in BOOLEAN /\ e \in Int /\ monitor \in Monitors /\ Counts(monitor, timely) /\ RunsInTime(monitor)
    BY DEF LinkInv, Monitors
  <2>2. now = later
    BY <2>1 DEF Monitors
  <2> HIDE DEF e, now, r
  <2>5. IsReset(later, monitor, r, e)
    BY DEF IsReset
  <2> HIDE DEF later
  <2>3. /\ later \in Monitors /\ Counts(later, timely) /\ later.running = r /\ later.elapsed = e
        /\ later.misses = monitor.misses
    BY <2>1, <2>5, Reset
  <2>4. RunsInTime(later)
    BY <2>1, <2>3 DEF RunsInTime, r
  <2> QED
    BY <2>1, <2>2, <2>3, <2>4
<1> HIDE DEF now
<1>3. n \in Int
  BY <1>2, EditorAssumption
<1> HIDE DEF n
<1>4. DueFold!Fold(now, due) \in S
  <2> DEFINE len == IF n >= 0 THEN n ELSE 0
  <2>1. len \in Nat /\ DOMAIN due = 1 .. len
    BY <1>3
  <2>2. \A k \in 1 .. len : \A x \in S : duePing(x, due[k]) \in S
    BY DueKeeps
  <2> HIDE DEF len, due, S
  <2> QED
    BY <1>2, <2>1, <2>2, DueFold!FoldKeeps
<1> QED
  BY <1>1, <1>4, DueIsFold DEF LinkInv

LEMMA PongKeeps ==
  ASSUME LinkInv, NEW id \in Nat \ {0}, Pong(id)
  PROVE  LinkInv'
<1>1. CASE id # monitor.pending
  BY <1>1 DEF Pong, LinkInv
<1>2. CASE id = monitor.pending
  <2>1. monitor' = [monitor EXCEPT !.pending = 0, !.misses = 0] /\ timely' = timely \cup {id}
    BY <1>2 DEF Pong
  <2>2. /\ monitor' \in Monitors /\ monitor'.next = monitor.next /\ monitor'.pending = 0 /\ monitor'.misses = 0
        /\ monitor.next \in Nat
    BY <2>1 DEF LinkInv, Monitors
  <2>3. id = monitor.next - 1 /\ timely \subseteq 1 .. monitor.next - 1
    BY <1>2, <2>2 DEF LinkInv, Counts, Monitors
  <2>4. timely' \subseteq 1 .. monitor.next - 1 /\ monitor.next - 1 \in timely'
    BY <2>1, <2>2, <2>3
  <2>5. Cardinality(Row(monitor.next, timely')) = 0
    BY <2>2, <2>4, RowIsEmpty
  <2>6. 0 < MAX_MISSED
    BY EditorAssumption
  <2> QED
    BY <2>2, <2>4, <2>5, <2>6 DEF LinkInv, Counts, RunsInTime
<1> QED
  BY <1>1, <1>2

LEMMA LinkInvTells == LinkInv => MissesCounted
BY DEF LinkInv, MissesCounted, Counts, RunsInTime, Row

-----------------------------------------------------------------------------
(* A scene's text and its undo stack.                                      *)

Texts == [Props -> SetTo] \cup {EmptyText}
Edits == [prop : Props \cup {"nowhere"}, value : SetTo]

\* The text and the stack are the texts on the way from the base, edit by edit.
StandsOn(text, stack, base, made) ==
  /\ Len(stack) = Len(made)
  /\ \E f : /\ EditFold!Steps(base, made, Len(made), f)
            /\ text = f[Len(made)]
            /\ \A k \in 1 .. Len(made) : stack[k] = f[k - 1]

SceneInv ==
  /\ disk \in [Scenes -> Texts] /\ currentScene \in Scenes \cup {NoScene}
  /\ scenes \in [Scenes -> [opened : BOOLEAN, text : Texts, stack : Seq(Texts)]]
  /\ edits \in [Scenes -> [base : Texts, made : Seq(Edits)]]
  /\ \A s \in Scenes : scenes[s].opened =>
       StandsOn(scenes[s].text, scenes[s].stack, edits[s].base, edits[s].made)

LEMMA NothingIsEmpty == EmptyText = <<>>
BY DEF EmptyText

LEMMA SceneBegins == EditorInit => SceneInv
<1> SUFFICES ASSUME EditorInit PROVE SceneInv
  OBVIOUS
<1>1. disk \in [Scenes -> Texts]
  BY EditorAssumption DEF EditorInit, Texts
<1>2. <<>> \in Texts /\ EmptyText \in Texts
  BY NothingIsEmpty DEF Texts
<1>3. scenes \in [Scenes -> [opened : BOOLEAN, text : Texts, stack : Seq(Texts)]]
  BY <1>2 DEF EditorInit, NotOpened
<1>4. edits \in [Scenes -> [base : Texts, made : Seq(Edits)]]
  BY <1>2 DEF EditorInit
<1>5. \A s \in Scenes : ~scenes[s].opened
  BY DEF EditorInit, NotOpened
<1> QED
  BY <1>1, <1>3, <1>4, <1>5 DEF SceneInv, EditorInit

LEMMA FreshStands ==
  ASSUME NEW base
  PROVE  StandsOn(base, <<>>, base, <<>>)
<1> DEFINE f == [k \in 0 .. 0 |-> base]
<1>1. EditFold!Steps(base, <<>>, 0, f)
  BY DEF EditFold!Steps
<1>2. f[0] = base /\ Len(<<>>) = 0 /\ 1 .. 0 = {}
  OBVIOUS
<1> HIDE DEF f
<1> QED
  BY <1>1, <1>2 DEF StandsOn

LEMMA EditStands ==
  ASSUME NEW text, NEW stack \in Seq(Texts), NEW base, NEW made \in Seq(Edits), NEW e \in Edits,
         text \in Texts, StandsOn(text, stack, base, made)
  PROVE  StandsOn(edited(text, e), Append(stack, text), base, Append(made, e))
<1> DEFINE n == Len(made)
<1>1. /\ n \in Nat /\ Len(stack) = n /\ Len(Append(made, e)) = n + 1 /\ Len(Append(stack, text)) = n + 1
      /\ Append(made, e)[n + 1] = e /\ Append(stack, text)[n + 1] = text
      /\ \A k \in 1 .. n : Append(made, e)[k] = made[k] /\ Append(stack, text)[k] = stack[k]
  BY DEF StandsOn
<1>2. PICK f : /\ EditFold!Steps(base, made, n, f) /\ text = f[n]
               /\ \A k \in 1 .. n : stack[k] = f[k - 1]
  BY DEF StandsOn
<1> DEFINE m == n + 1
           g == [k \in 0 .. m |-> IF k = m THEN edited(text, e) ELSE f[k]]
           more == Append(made, e)
           pushed == Append(stack, text)
<1> HIDE DEF n, more, pushed
<1>3. m \in Nat /\ m = n + 1 /\ m \in 0 .. m /\ m - 1 = n /\ n \in 0 .. m /\ n # m
  BY <1>1
<1>4. /\ g[m] = edited(text, e) /\ g[n] = text /\ g[0] = base
      /\ \A k \in 1 .. n : g[k] = edited(g[k - 1], more[k])
  <2>1. \A k \in 0 .. n : g[k] = f[k]
    BY <1>3, <1>1
  <2>2. \A k \in 1 .. n : f[k] = edited(f[k - 1], made[k])
    BY <1>2, <1>1 DEF EditFold!Steps
  <2>3. f[0] = base
    BY <1>2, <1>1 DEF EditFold!Steps
  <2> HIDE DEF g
  <2>4. \A k \in 1 .. n : k \in 0 .. n /\ k - 1 \in 0 .. n
    BY <1>1
  <2>5. 0 \in 0 .. n /\ n \in 0 .. n
    BY <1>1
  <2>6. g[m] = edited(text, e)
    BY <1>3 DEF g
  <2> QED
    BY <1>1, <1>2, <2>1, <2>2, <2>3, <2>4, <2>5, <2>6 DEF more
<1>5. EditFold!Steps(base, more, m, g)
  <2>1. g = [k \in 0 .. m |-> g[k]]
    OBVIOUS
  <2> HIDE DEF g
  <2>2. \A k \in 0 .. m : g[k] = IF k = 0 THEN base ELSE edited(g[k - 1], more[k])
    <3>1. \A k \in 0 .. m : k = 0 \/ k = m \/ k \in 1 .. n
      BY <1>3, <1>1
    <3>2. g[m] = edited(g[m - 1], more[m])
      BY <1>1, <1>3, <1>4 DEF more
    <3> QED
      BY <1>1, <1>3, <1>4, <3>1, <3>2
  <2> QED
    BY <2>1, <2>2 DEF EditFold!Steps
<1>6. \A k \in 1 .. m : pushed[k] = g[k - 1]
  <2>1. \A k \in 0 .. n : g[k] = f[k]
    BY <1>3, <1>1
  <2> HIDE DEF g
  <2>2. \A k \in 1 .. m : k = m \/ (k \in 1 .. n /\ k - 1 \in 0 .. n)
    BY <1>1, <1>3
  <2> QED
    BY <1>1, <1>2, <1>3, <1>4, <2>1, <2>2 DEF pushed
<1>7. Len(more) = m /\ Len(pushed) = m
  BY <1>1 DEF more, pushed
<1> HIDE DEF g, m
<1>8. StandsOn(edited(text, e), pushed, base, more)
  BY <1>4, <1>5, <1>6, <1>7 DEF StandsOn
<1> QED
  BY <1>8 DEF more, pushed

LEMMA UndoStands ==
  ASSUME NEW text, NEW stack \in Seq(Texts), NEW base, NEW made \in Seq(Edits), stack # <<>>,
         StandsOn(text, stack, base, made)
  PROVE  /\ StandsOn(Last(stack), Front(stack), base, Front(made))
         /\ Last(stack) \in Texts /\ Front(stack) \in Seq(Texts) /\ Front(made) \in Seq(Edits)
<1> DEFINE n == Len(made)
           m == n - 1
           less == Front(made)
           popped == Front(stack)
<1>1. n \in Nat \ {0} /\ Len(stack) = n /\ m \in Nat /\ m + 1 = n /\ Last(stack) = stack[n]
  BY DEF StandsOn, Last
<1>2. less = SubSeq(made, 1, m) /\ popped = SubSeq(stack, 1, m)
  BY <1>1 DEF Front
<1>3. /\ less \in Seq(Edits) /\ popped \in Seq(Texts) /\ Len(less) = m /\ Len(popped) = m
      /\ \A k \in 1 .. m : less[k] = made[k] /\ popped[k] = stack[k]
  BY <1>1, <1>2
<1>4. PICK f : /\ EditFold!Steps(base, made, n, f) /\ text = f[n]
               /\ \A k \in 1 .. n : stack[k] = f[k - 1]
  BY DEF StandsOn
<1> DEFINE g == [k \in 0 .. m |-> f[k]]
<1> HIDE DEF n, m, less, popped
<1>5. \A k \in 0 .. m : k \in 0 .. n /\ (k # 0 => k - 1 \in 0 .. m /\ k \in 1 .. m)
  BY <1>1
<1>6. g[m] = stack[n] /\ \A k \in 1 .. m : popped[k] = g[k - 1]
  BY <1>1, <1>3, <1>4
<1>7. EditFold!Steps(base, less, m, g)
  <2>1. \A k \in 0 .. n : f[k] = IF k = 0 THEN base ELSE edited(f[k - 1], made[k])
    BY <1>4 DEF EditFold!Steps
  <2>2. \A k \in 0 .. m : g[k] = IF k = 0 THEN base ELSE edited(g[k - 1], less[k])
    BY <1>3, <1>5, <2>1
  <2>3. g = [k \in 0 .. m |-> g[k]]
    OBVIOUS
  <2> HIDE DEF g
  <2> QED
    BY <2>2, <2>3 DEF EditFold!Steps
<1> HIDE DEF g
<1>8. StandsOn(Last(stack), popped, base, less)
  BY <1>1, <1>3, <1>6, <1>7 DEF StandsOn
<1>9. Last(stack) \in Texts
  BY <1>1
<1> QED
  BY <1>3, <1>8, <1>9 DEF less, popped

LEMMA ReplacedIsText ==
  ASSUME NEW text \in Texts, NEW p, NEW v \in SetTo
  PROVE  replaced(text, p, v) \in Texts
BY DEF replaced, Texts, EmptyText

LEMMA OpenKeeps ==
  ASSUME SceneInv, NEW s \in Scenes, SceneOpen(s)
  PROVE  SceneInv'
<1>1. PICK text \in {disk[s], EmptyText} :
        /\ scenes' = [scenes EXCEPT ![s] = [opened |-> TRUE, text |-> text, stack |-> <<>>]]
        /\ edits' = [edits EXCEPT ![s] = [base |-> text, made |-> <<>>]]
  BY DEF SceneOpen
<1>2. currentScene' = s /\ disk' = disk
  BY DEF SceneOpen
<1>3. text \in Texts
  BY DEF SceneInv, Texts
<1>4. /\ scenes' \in [Scenes -> [opened : BOOLEAN, text : Texts, stack : Seq(Texts)]]
      /\ edits' \in [Scenes -> [base : Texts, made : Seq(Edits)]]
  BY <1>1, <1>3 DEF SceneInv
<1>5. ASSUME NEW u \in Scenes, scenes'[u].opened
      PROVE  StandsOn(scenes'[u].text, scenes'[u].stack, edits'[u].base, edits'[u].made)
  <2>1. CASE u = s
    <3>1. scenes'[u].text = text /\ scenes'[u].stack = <<>> /\ edits'[u].base = text /\ edits'[u].made = <<>>
      BY <1>1, <2>1 DEF SceneInv
    <3> QED
      BY <3>1, FreshStands
  <2>2. CASE u # s
    <3>1. scenes'[u] = scenes[u] /\ edits'[u] = edits[u]
      BY <1>1, <2>2 DEF SceneInv
    <3> QED
      BY <1>5, <3>1 DEF SceneInv
  <2> QED
    BY <2>1, <2>2
<1> QED
  BY <1>2, <1>4, <1>5 DEF SceneInv

LEMMA SaveKeeps ==
  ASSUME SceneInv, NEW path \in Scenes \cup {NoScene}, SceneSave(path)
  PROVE  SceneInv'
<1> DEFINE s == resolved(path)
<1>1. s \in Scenes /\ disk' = [disk EXCEPT ![s] = scenes[s].text] /\ UNCHANGED <<scenes, currentScene, edits>>
  BY DEF SceneSave, IsOpen, resolved, SceneInv
<1>2. scenes[s].text \in Texts
  BY <1>1 DEF SceneInv
<1> HIDE DEF s
<1>3. disk' \in [Scenes -> Texts]
  BY <1>1, <1>2 DEF SceneInv
<1> QED
  BY <1>1, <1>3 DEF SceneInv

LEMMA SetKeeps ==
  ASSUME SceneInv, NEW path \in Scenes \cup {NoScene}, NEW p \in Props \cup {"nowhere"}, NEW v \in SetTo,
         NodeSetProperty(path, p, v)
  PROVE  SceneInv'
<1> DEFINE s == resolved(path)
           e == [prop |-> p, value |-> v]
           text == scenes[s].text
           stack == scenes[s].stack
<1>1. /\ s \in Scenes /\ scenes[s].opened /\ UNCHANGED <<disk, currentScene>>
      /\ scenes' = [scenes EXCEPT ![s].stack = Append(@, scenes[s].text), ![s].text = replaced(@, p, v)]
      /\ edits' = [edits EXCEPT ![s].made = Append(@, [prop |-> p, value |-> v])]
  BY DEF NodeSetProperty, IsOpen, resolved, SceneInv
<1> HIDE DEF s
<1>2. e \in Edits /\ edited(text, e) = replaced(text, p, v)
  BY DEF Edits, edited
<1>3. /\ text \in Texts /\ stack \in Seq(Texts) /\ edits[s].made \in Seq(Edits)
      /\ StandsOn(text, stack, edits[s].base, edits[s].made)
  BY <1>1 DEF SceneInv
<1>4. /\ scenes'[s].text = edited(text, e) /\ scenes'[s].stack = Append(stack, text)
      /\ edits'[s].base = edits[s].base /\ edits'[s].made = Append(edits[s].made, e)
      /\ \A u \in Scenes \ {s} : scenes'[u] = scenes[u] /\ edits'[u] = edits[u]
  BY <1>1, <1>2 DEF SceneInv
<1>5. edited(text, e) \in Texts /\ Append(stack, text) \in Seq(Texts) /\ Append(edits[s].made, e) \in Seq(Edits)
  BY <1>2, <1>3, ReplacedIsText
<1>6. /\ scenes' \in [Scenes -> [opened : BOOLEAN, text : Texts, stack : Seq(Texts)]]
      /\ edits' \in [Scenes -> [base : Texts, made : Seq(Edits)]]
  <2>1. replaced(text, p, v) \in Texts /\ Append(stack, text) \in Seq(Texts)
    BY <1>2, <1>5
  <2>2. edits' \in [Scenes -> [base : Texts, made : Seq(Edits)]]
    BY <1>1, <1>5 DEF SceneInv
  <2> DEFINE rec == scenes[s]
             new == replaced(text, p, v)
             more == Append(stack, text)
  <2>3. rec \in [opened : BOOLEAN, text : Texts, stack : Seq(Texts)]
    BY <1>1 DEF SceneInv
  <2>4. scenes' = [scenes EXCEPT ![s] = [rec EXCEPT !.stack = more, !.text = new]]
    BY <1>1 DEF SceneInv
  <2>5. [rec EXCEPT !.stack = more, !.text = new] \in [opened : BOOLEAN, text : Texts, stack : Seq(Texts)]
    <3> HIDE DEF rec, new, more
    <3> QED BY <2>1, <2>3 DEF new, more
  <2> QED
    BY <2>2, <2>4, <2>5 DEF SceneInv
<1>7. StandsOn(edited(text, e), Append(stack, text), edits[s].base, Append(edits[s].made, e))
  <2> DEFINE base == edits[s].base
             made == edits[s].made
  <2> HIDE DEF text, stack, e, base, made
  <2>1. StandsOn(text, stack, base, made) /\ made \in Seq(Edits)
    BY <1>3 DEF base, made
  <2>2. StandsOn(edited(text, e), Append(stack, text), base, Append(made, e))
    BY <1>2, <1>3, <2>1, EditStands
  <2> QED
    BY <2>2 DEF base, made
<1>8. \A u \in Scenes : scenes'[u].opened =>
        StandsOn(scenes'[u].text, scenes'[u].stack, edits'[u].base, edits'[u].made)
  <2>1. \A u \in Scenes \ {s} : scenes[u].opened =>
          StandsOn(scenes[u].text, scenes[u].stack, edits[u].base, edits[u].made)
    BY DEF SceneInv
  <2> HIDE DEF text, stack, e
  <2>2. \A u \in Scenes \ {s} : scenes'[u].opened =>
          StandsOn(scenes'[u].text, scenes'[u].stack, edits'[u].base, edits'[u].made)
    BY <1>4, <2>1
  <2>3. StandsOn(scenes'[s].text, scenes'[s].stack, edits'[s].base, edits'[s].made)
    BY <1>4, <1>7
  <2> QED
    BY <2>2, <2>3
<1> QED
  BY <1>1, <1>6, <1>8 DEF SceneInv

LEMMA EditorUndoKeeps ==
  ASSUME SceneInv, EditorUndo
  PROVE  SceneInv'
<1> DEFINE s == currentScene
           text == scenes[s].text
           stack == scenes[s].stack
           base == edits[s].base
           made == edits[s].made
<1>1. /\ s \in Scenes /\ scenes[s].opened /\ stack # <<>> /\ UNCHANGED <<disk, currentScene>>
      /\ scenes' = [scenes EXCEPT ![s].text = Last(stack), ![s].stack = Front(@)]
      /\ edits' = [edits EXCEPT ![s].made = Front(@)]
  BY DEF EditorUndo, IsOpen, SceneInv
<1>2. /\ text \in Texts /\ stack \in Seq(Texts) /\ made \in Seq(Edits) /\ base \in Texts
      /\ StandsOn(text, stack, base, made)
  BY <1>1 DEF SceneInv
<1>3. /\ StandsOn(Last(stack), Front(stack), base, Front(made))
      /\ Last(stack) \in Texts /\ Front(stack) \in Seq(Texts) /\ Front(made) \in Seq(Edits)
  <2> HIDE DEF text, stack, base, made
  <2> QED
    BY <1>1, <1>2, UndoStands
<1>4. /\ scenes'[s].text = Last(stack) /\ scenes'[s].stack = Front(stack)
      /\ edits'[s].base = base /\ edits'[s].made = Front(made)
      /\ \A u \in Scenes \ {s} : scenes'[u] = scenes[u] /\ edits'[u] = edits[u]
  <2>1. scenes[s] \in [opened : BOOLEAN, text : Texts, stack : Seq(Texts)]
    BY <1>1 DEF SceneInv
  <2> DEFINE rec == scenes[s]
             top == Last(stack)
             rest == Front(stack)
  <2>2. scenes'[s] = [rec EXCEPT !.text = top, !.stack = rest]
    BY <1>1 DEF SceneInv
  <2>4. rec \in [opened : BOOLEAN, text : Texts, stack : Seq(Texts)] /\ top \in Texts
    BY <1>3, <2>1
  <2>5. [rec EXCEPT !.text = top, !.stack = rest].text = top /\ [rec EXCEPT !.text = top, !.stack = rest].stack = rest
    <3> HIDE DEF rec, top, rest
    <3> QED BY <2>4
  <2>3. edits'[s].base = base /\ edits'[s].made = Front(made)
    BY <1>1 DEF SceneInv
  <2> QED
    BY <1>1, <2>2, <2>5, <2>3 DEF SceneInv
<1>5. /\ scenes' \in [Scenes -> [opened : BOOLEAN, text : Texts, stack : Seq(Texts)]]
      /\ edits' \in [Scenes -> [base : Texts, made : Seq(Edits)]]
  BY <1>1, <1>3 DEF SceneInv
<1>6. \A u \in Scenes : scenes'[u].opened =>
        StandsOn(scenes'[u].text, scenes'[u].stack, edits'[u].base, edits'[u].made)
  <2>1. \A u \in Scenes \ {s} : scenes[u].opened =>
          StandsOn(scenes[u].text, scenes[u].stack, edits[u].base, edits[u].made)
    BY DEF SceneInv
  <2>2. \A u \in Scenes \ {s} : scenes'[u].opened =>
          StandsOn(scenes'[u].text, scenes'[u].stack, edits'[u].base, edits'[u].made)
    BY <1>4, <2>1
  <2>3. StandsOn(scenes'[s].text, scenes'[s].stack, edits'[s].base, edits'[s].made)
    BY <1>3, <1>4
  <2> QED
    BY <2>2, <2>3
<1> QED
  BY <1>1, <1>5, <1>6 DEF SceneInv

LEMMA SceneInvTells == SceneInv => TextIsItsEdits
<1> SUFFICES ASSUME SceneInv, NEW s \in Scenes, scenes[s].opened
             PROVE  /\ scenes[s].text = FoldLeft(edited, edits[s].base, edits[s].made)
                    /\ Len(scenes[s].stack) = Len(edits[s].made)
  BY DEF TextIsItsEdits
<1> DEFINE base == edits[s].base
           made == edits[s].made
           n == Len(made)
<1>1. made \in Seq(Edits) /\ StandsOn(scenes[s].text, scenes[s].stack, base, made)
  BY DEF SceneInv
<1>2. n \in Nat /\ DOMAIN made = 1 .. n
  BY <1>1
<1>3. PICK f : EditFold!Steps(base, made, n, f) /\ scenes[s].text = f[n]
  BY <1>1 DEF StandsOn
<1> HIDE DEF base, made, n
<1>4. EditFold!Fold(base, made) = f[n]
  BY <1>2, <1>3, EditFold!FoldGoesBySteps
<1>5. Len(scenes[s].stack) = Len(made)
  BY <1>1 DEF StandsOn
<1> QED
  BY <1>3, <1>4, <1>5, EditIsFold DEF base, made

-----------------------------------------------------------------------------
(* The three together.                                                     *)

EditorNext == LinkNext \/ ScenesNext \/ BatchNext
EditorSpec == EditorInit /\ [][EditorNext]_editorVars

\* The bounds of the model, and that the clock of the monitor never runs behind.
WithinBounds ==
  /\ monitor.elapsed \in Nat /\ monitor.next <= MaxPings + 1 /\ pongs \subseteq 1 .. MaxPings
  /\ editorSteps \in 0 .. MaxEditorSteps

EditorInv == LinkInv /\ SceneInv /\ BatchInv /\ WithinBounds

LEMMA EditorBegins == EditorInit => EditorInv
<1> SUFFICES ASSUME EditorInit PROVE EditorInv
  OBVIOUS
<1>1. WithinBounds
  BY EditorAssumption DEF EditorInit, WithinBounds
<1> QED
  BY <1>1, LinkBegins, SceneBegins, BatchBegins DEF EditorInv

\* Each ping that is due takes one interval off the clock, and only as many are due as have passed.
LEMMA ClockKeeps ==
  ASSUME LinkInv, WithinBounds, NEW delta \in Nat, TickMonitor(delta)
  PROVE  monitor'.elapsed \in Nat
<1> DEFINE now  == [monitor EXCEPT !.elapsed = @ + delta]
           N    == monitor.elapsed + delta
           n    == N \div PING_INTERVAL
           due  == [i \in 1 .. n |-> i]
           S    == [k \in 0 .. n |-> {m \in Monitors : Counts(m, timely) /\ m.elapsed >= N - k * PING_INTERVAL}]
<1>0. PING_INTERVAL \in Nat \ {0} /\ N \in Nat /\ monitor \in Monitors
  BY EditorAssumption DEF WithinBounds, LinkInv
<1>1. now \in Monitors /\ now.elapsed = N /\ Counts(now, timely)
  <2> DEFINE r == monitor.running
             e == N
  <2>1. /\ monitor \in Monitors /\ Counts(monitor, timely) /\ r \in BOOLEAN /\ e \in Int
    BY <1>0 DEF LinkInv, Monitors
  <2>2. IsReset(now, monitor, r, e)
    BY <1>0 DEF IsReset, Monitors
  <2> HIDE DEF now, r, e
  <2>3. now \in Monitors /\ Counts(now, timely) /\ now.elapsed = e
    BY <2>1, <2>2, Reset
  <2> QED
    BY <2>3 DEF e
<1>2. monitor' = FoldLeft(duePing, now, due)
  BY <1>1 DEF TickMonitor, Sends
<1>3. n \in Nat /\ n * PING_INTERVAL <= N
  BY <1>0
<1> HIDE DEF now, N, n
<1>4. \A k \in 1 .. n : \A m \in S[k - 1] : duePing(m, due[k]) \in S[k]
  <2> SUFFICES ASSUME NEW k \in 1 .. n, NEW m \in S[k - 1]
               PROVE  duePing(m, due[k]) \in S[k]
    OBVIOUS
  <2>1. m \in Monitors /\ Counts(m, timely) /\ m.elapsed \in Int /\ m.elapsed >= N - (k - 1) * PING_INTERVAL
    BY <1>3 DEF Monitors
  <2>2. S[k] = {x \in Monitors : Counts(x, timely) /\ x.elapsed >= N - k * PING_INTERVAL}
    BY <1>3
  <2>3. CASE ~m.running
    <3>1. m.elapsed >= N - k * PING_INTERVAL
      BY <1>0, <1>3, <2>1
    <3>2. duePing(m, due[k]) = m
      BY <2>3 DEF duePing
    <3> HIDE DEF S
    <3> QED
      BY <2>1, <2>2, <3>1, <3>2
  <2>4. CASE m.running
    <3> DEFINE e == m.elapsed - PING_INTERVAL
               r == m.running
               later == [m EXCEPT !.running = r, !.elapsed = e]
    <3>1. e \in Int /\ r \in BOOLEAN /\ e >= N - k * PING_INTERVAL
      BY <1>0, <1>3, <2>1 DEF Monitors
    <3>2. duePing(m, due[k]) = sendNextPing(later)
      BY <2>1, <2>4 DEF duePing, Monitors
    <3>3. IsReset(later, m, r, e)
      BY DEF IsReset
    <3> HIDE DEF S, later, e, r
    <3>4. later \in Monitors /\ Counts(later, timely) /\ later.elapsed = e
      BY <2>1, <3>1, <3>3, Reset
    <3>5. sendNextPing(later) \in Monitors /\ Counts(sendNextPing(later), timely) /\ sendNextPing(later).elapsed = e
      BY <3>4, SendCounts
    <3> QED
      BY <2>2, <3>1, <3>2, <3>5
  <2> QED
    BY <2>3, <2>4
<1>5. now \in S[0] /\ DOMAIN due = 1 .. n
  BY <1>0, <1>1, <1>3
<1>6. S[n] = {m \in Monitors : Counts(m, timely) /\ m.elapsed >= N - n * PING_INTERVAL}
  BY <1>3
<1> HIDE DEF S, due
<1>7. DueFold!Fold(now, due) \in S[n]
  BY <1>3, <1>4, <1>5, DueFold!FoldPasses
<1>8. monitor' \in Monitors /\ monitor'.elapsed >= N - n * PING_INTERVAL
  BY <1>2, <1>6, <1>7, DueIsFold
<1> QED
  BY <1>0, <1>3, <1>8 DEF Monitors

\* What is sent is within the bound, and may be answered.
LEMMA SentWithinBounds ==
  ASSUME LinkInv, WithinBounds, NEW m, Sends(m), m.elapsed \in Nat, LinkInv', editorSteps' = editorSteps
  PROVE  WithinBounds'
<1>1. monitor' = m /\ m.next <= MaxPings + 1 /\ pongs' = pongs \cup (monitor.next .. m.next - 1) /\ m \in Monitors
  BY DEF Sends, LinkInv
<1>2. monitor.next \in Nat \ {0} /\ m.next \in Nat /\ MaxPings \in Nat /\ pongs \subseteq 1 .. MaxPings
  BY <1>1, EditorAssumption DEF LinkInv, Monitors, WithinBounds
<1>3. monitor.next .. m.next - 1 \subseteq 1 .. MaxPings
  BY <1>1, <1>2
<1> QED
  BY <1>1, <1>2, <1>3 DEF WithinBounds

LEMMA LinkStep ==
  ASSUME EditorInv, LinkNext
  PROVE  LinkInv' /\ WithinBounds'
<1>0. LinkInv /\ WithinBounds /\ editorSteps' = editorSteps
  BY DEF EditorInv, LinkNext
<1>1. CASE StartMonitor
  <2> DEFINE r == TRUE
             e == 0
             m == [monitor EXCEPT !.running = r, !.elapsed = e]
  <2>1. LinkInv' /\ monitor \in Monitors /\ Counts(monitor, timely) /\ r \in BOOLEAN /\ e \in Int
    BY <1>0, <1>1, MonitorStarts DEF LinkInv
  <2>2. Sends(sendNextPing(m)) /\ IsReset(m, monitor, r, e)
    BY <1>1 DEF StartMonitor, IsReset
  <2> HIDE DEF r, e, m
  <2>3. m \in Monitors /\ Counts(m, timely) /\ m.elapsed = e
    BY <2>1, <2>2, Reset
  <2>4. sendNextPing(m).elapsed \in Nat
    BY <2>3, SendCounts DEF e
  <2> QED
    BY <1>0, <2>1, <2>2, <2>4, SentWithinBounds
<1>2. CASE StopMonitor
  <2>1. LinkInv'
    BY <1>0, <1>2, MonitorStops
  <2>2. monitor'.elapsed = monitor.elapsed /\ monitor'.next = monitor.next /\ pongs' = pongs
    BY <1>0, <1>2 DEF StopMonitor, LinkInv, Monitors
  <2> QED
    BY <1>0, <2>1, <2>2 DEF WithinBounds
<1>3. ASSUME NEW delta \in {1, 3 * PING_INTERVAL}, TickMonitor(delta)
      PROVE  LinkInv' /\ WithinBounds'
  <2>1. delta \in Nat
    BY EditorAssumption
  <2>2. LinkInv' /\ monitor'.elapsed \in Nat
    BY <1>0, <1>3, <2>1, TickKeeps, ClockKeeps
  <2>3. Sends(monitor')
    BY <1>3 DEF TickMonitor, Sends
  <2> QED
    BY <1>0, <2>2, <2>3, SentWithinBounds
<1>4. ASSUME NEW id \in 1 .. MaxPings, Pong(id)
      PROVE  LinkInv' /\ WithinBounds'
  <2>1. LinkInv'
    BY <1>0, <1>4, PongKeeps, id \in Nat \ {0}
  <2>2. monitor'.elapsed = monitor.elapsed /\ monitor'.next = monitor.next /\ pongs' \subseteq pongs
    BY <1>0, <1>4 DEF Pong, LinkInv, Monitors
  <2> QED
    BY <1>0, <2>1, <2>2 DEF WithinBounds
<1> QED
  BY <1>1, <1>2, <1>3, <1>4 DEF LinkNext

LEMMA ScenesStep ==
  ASSUME SceneInv, ScenesNext
  PROVE  SceneInv'
<1>1. ASSUME NEW s \in Scenes, SceneOpen(s) PROVE SceneInv'
  BY <1>1, OpenKeeps
<1>2. ASSUME NEW path \in Scenes \cup {NoScene}, SceneSave(path) PROVE SceneInv'
  BY <1>2, SaveKeeps
<1>3. ASSUME NEW path \in Scenes \cup {NoScene}, NEW p \in Props \cup {"nowhere"}, NEW v \in SetTo,
             NodeSetProperty(path, p, v)
      PROVE  SceneInv'
  BY <1>3, SetKeeps
<1>4. CASE EditorUndo
  BY <1>4, EditorUndoKeeps
<1> QED
  BY <1>1, <1>2, <1>3, <1>4 DEF ScenesNext

LEMMA BatchStep ==
  ASSUME BatchInv, BatchNext
  PROVE  BatchInv' /\ TakesBackItsOwn
<1>1. ASSUME NEW p \in Props, NEW v \in SetTo, NEW t \in TxIds \cup {NoTx}, WrapProperty(p, v, t)
      PROVE  BatchInv' /\ TakesBackItsOwn
  BY <1>1, WrapKeeps
<1>2. ASSUME NEW t \in TxIds, BeginTx(t) \/ CommitTx(t) \/ RollbackTx(t)
      PROVE  BatchInv' /\ TakesBackItsOwn
  BY <1>2, BeginKeeps, CommitKeeps, RollbackKeeps
<1>3. CASE UserUndoes
  BY <1>3, UserUndoesKeeps
<1> QED
  BY <1>1, <1>2, <1>3 DEF BatchNext

LEMMA EditorStepKeeps ==
  ASSUME EditorInv, [EditorNext]_editorVars
  PROVE  EditorInv' /\ (TakesBackItsOwn \/ UNCHANGED batchVars)
<1> USE DEF EditorInv
<1>1. ASSUME UNCHANGED linkVars PROVE LinkInv'
  BY <1>1 DEF linkVars, LinkInv
<1>2. ASSUME UNCHANGED sceneVars PROVE SceneInv'
  BY <1>2 DEF sceneVars, SceneInv
<1>3. ASSUME UNCHANGED batchVars PROVE BatchInv'
  BY <1>3 DEF batchVars, BatchInv, BatchTypeOK, QueuedInv, HistoryInv
<1>4. ASSUME UNCHANGED linkVars, EditorStep \/ editorSteps' = editorSteps PROVE WithinBounds'
  <2>1. editorSteps' \in 0 .. MaxEditorSteps
    BY <1>4, EditorAssumption DEF WithinBounds, EditorStep
  <2> QED
    BY <1>4, <2>1 DEF linkVars, WithinBounds
<1>5. CASE LinkNext
  <2>1. LinkInv' /\ WithinBounds' /\ UNCHANGED <<sceneVars, batchVars>>
    BY <1>5, LinkStep DEF LinkNext
  <2> QED
    BY <1>2, <1>3, <2>1
<1>6. CASE ScenesNext
  <2>1. SceneInv' /\ UNCHANGED <<linkVars, batchVars>> /\ EditorStep
    BY <1>6, ScenesStep DEF ScenesNext
  <2> QED
    BY <1>1, <1>3, <1>4, <2>1
<1>7. CASE BatchNext
  <2>1. BatchInv' /\ TakesBackItsOwn /\ UNCHANGED <<linkVars, sceneVars>> /\ EditorStep
    BY <1>7, BatchStep DEF BatchNext
  <2> QED
    BY <1>1, <1>2, <1>4, <2>1
<1>8. CASE UNCHANGED editorVars
  BY <1>1, <1>2, <1>3, <1>4, <1>8 DEF editorVars
<1> QED
  BY <1>5, <1>6, <1>7, <1>8 DEF EditorNext

LEMMA EditorInvTells == EditorInv => MissesCounted /\ TextIsItsEdits /\ EditorTypeOK
<1> SUFFICES ASSUME EditorInv PROVE MissesCounted /\ TextIsItsEdits /\ EditorTypeOK
  OBVIOUS
<1>1. MissesCounted /\ TextIsItsEdits
  BY LinkInvTells, SceneInvTells DEF EditorInv
<1>2. monitor \in Monitors /\ Counts(monitor, timely) /\ monitor.next \in Nat \ {0} /\ monitor.next <= MaxPings + 1
  BY DEF EditorInv, LinkInv, WithinBounds, Monitors
<1>3. MaxPings \in Nat
  BY EditorAssumption
<1>4. monitor.misses \in 0 .. MaxPings
  <2> DEFINE next == monitor.next
             row  == Row(next, timely)
  <2>1. row \subseteq 1 .. MaxPings /\ IsFiniteSet(1 .. MaxPings) /\ Cardinality(1 .. MaxPings) = MaxPings
    <3>1. IsFiniteSet(1 .. MaxPings) /\ Cardinality(1 .. MaxPings) = MaxPings
      BY <1>3, FS_Interval
    <3> QED
      BY <1>2, <1>3, <3>1 DEF Row
  <2>2. Cardinality(row) \in Nat
    BY <1>2, RowIsFinite
  <2>3. Cardinality(row) <= MaxPings
    <3> HIDE DEF row
    <3> QED BY <2>1, FS_Subset
  <2>4. monitor.misses = Cardinality(row)
    BY <1>2 DEF Counts
  <2> HIDE DEF row
  <2> QED
    BY <1>3, <2>2, <2>3, <2>4
<1>5. monitor.pending \in 0 .. MaxPings /\ timely \subseteq 1 .. MaxPings
  BY <1>2, <1>3 DEF Counts, Monitors
<1>6. monitor.elapsed \in Nat /\ pongs \subseteq 1 .. MaxPings /\ editorSteps \in 0 .. MaxEditorSteps
  BY DEF EditorInv, WithinBounds
<1>7. disk \in [Scenes -> [Props -> SetTo] \cup {EmptyText}] /\ currentScene \in Scenes \cup {NoScene}
  BY DEF EditorInv, SceneInv, Texts
<1>8. world \in [Props -> SetTo]
  BY DEF EditorInv, BatchInv, BatchTypeOK, Worlds
<1> QED
  BY <1>1, <1>4, <1>5, <1>6, <1>7, <1>8 DEF EditorTypeOK

\* The editor's books are right, however many scenes, properties, transactions and pings there are.
THEOREM EditorBooksAreKept == EditorSpec => []EditorTypeOK /\ EditorKeepsBooks
<1>1. EditorInit => EditorInv
  BY EditorBegins
<1>2. EditorInv /\ [EditorNext]_editorVars => EditorInv'
  BY EditorStepKeeps
<1>3. EditorInv /\ [EditorNext]_editorVars => [TakesBackItsOwn]_batchVars
  BY EditorStepKeeps
<1>4. EditorInv => (MissesCounted /\ TextIsItsEdits) /\ EditorTypeOK
  BY EditorInvTells
<1> QED
  BY <1>1, <1>2, <1>3, <1>4, PTL DEF EditorSpec, EditorKeepsBooks, BatchesUndone

-----------------------------------------------------------------------------
(* What /trace and /metrics tell.                                          *)

SumFold == INSTANCE FoldLemmas WITH op <- plus

ObservedNext == TraceNext \/ \E v \in Durations : Observe(v)
ObservedSpec == ObservedInit /\ [][ObservedNext]_observedVars

\* A line later in a file, or in the file of a later day, is a later line; no file is ahead of
\* the date.
LogInOrder ==
  \A d, d2 \in Days : \A i \in DOMAIN logFile[d], j \in DOMAIN logFile[d2] :
    (d < d2 \/ (d = d2 /\ i < j)) => logFile[d][i].at < logFile[d2][j].at
LogInv ==
  /\ LogInOrder
  /\ \A d \in Days : d > today => logFile[d] = <<>>
  /\ \A e \in LinesFrom(1) : e.at <= Written

\* The days that were read are those from `next' to the day of the question; the next file is that
\* of the day before.
firstDay == Max({1, asked.day + 1 - LOOKBACK})
nextDay  == Len(dates) + firstDay
DatesInv ==
  /\ asked.lines <= Written /\ nextDay <= asked.day + 1
  /\ \A i \in DOMAIN dates : dates[i] = nextDay - i
  /\ \A d \in Days : d > asked.day => \A e \in ToSet(logFile[d]) : e.at > asked.lines

\* What was read leaves out only lines that came after the question and after all that was read.
Gathered(E, R) ==
  /\ E \subseteq R
  /\ \A x \in R : (x.at <= asked.lines \/ \E e \in E : x.at <= e.at) => x \in E
ReadInv ==
  unreadable = {} => IsInjective(entries) /\ Gathered(ToSet(entries), LinesFrom(nextDay) \cap OfTrace(wanted))

AskedInv ==
  /\ wanted = "none" => dates = <<>> /\ entries = <<>> /\ unreadable = {}
  /\ wanted \in Traces => DatesInv /\ ReadInv

ObservedInv == ObservedTypeOK /\ LogInv /\ AskedInv /\ sampleSum = SumOf(samples)

LEMMA SumFoldIs == \A s : FoldLeft(plus, 0, s) = SumFold!Fold(0, s)
  BY DEF SumFold!Fold, FoldLeft, MapThenFoldSet, SumFold!Largest, Max

LEMMA FirstDay ==
  ASSUME NEW day \in Nat, NEW l \in Nat \ {0}
  PROVE  LET f == Max({1, day + 1 - l}) IN
         /\ f \in Nat \ {0} /\ f >= 1 /\ f >= day + 1 - l
         /\ f = 1 \/ f = day + 1 - l
<1>1. {1, day + 1 - l} \subseteq Int /\ 1 \in {1, day + 1 - l} /\ (day + 1 - l) \in {1, day + 1 - l}
  OBVIOUS
<1>2. \E x \in {1, day + 1 - l} : \A y \in {1, day + 1 - l} : x >= y
  BY <1>1
<1>3. Max({1, day + 1 - l}) \in {1, day + 1 - l} /\ \A y \in {1, day + 1 - l} : Max({1, day + 1 - l}) >= y
  BY <1>2 DEF Max
<1> QED
  BY <1>1, <1>3

LEMMA Smaller ==
  ASSUME NEW a \in Nat, NEW b \in Nat
  PROVE  LET m == Min({a, b}) IN m \in Nat /\ m <= a /\ m <= b /\ (m = a \/ m = b)
<1>1. \E x \in {a, b} : \A y \in {a, b} : x <= y
  OBVIOUS
<1>2. Min({a, b}) \in {a, b} /\ \A y \in {a, b} : Min({a, b}) <= y
  BY <1>1 DEF Min
<1> QED
  BY <1>2

\* Sums.
LEMMA SumIsNat ==
  ASSUME NEW s \in Seq(Nat)
  PROVE  SumOf(s) \in Nat
<1>1. DOMAIN s = 1 .. Len(s) /\ Len(s) \in Nat /\ \A k \in 1 .. Len(s) : s[k] \in Nat
  OBVIOUS
<1>2. \A k \in 1 .. Len(s) : \A x \in Nat : plus(x, s[k]) \in Nat
  BY <1>1 DEF plus
<1>3. SumFold!Fold(0, s) \in Nat
  BY <1>1, <1>2, SumFold!FoldKeeps
<1> QED
  BY <1>3, SumFoldIs DEF SumOf

LEMMA SumOfAppend ==
  ASSUME NEW s \in Seq(Nat), NEW v \in Nat
  PROVE  SumOf(Append(s, v)) = SumOf(s) + v
<1> DEFINE longer == Append(s, v)
           n == Len(s)
<1>1. n \in Nat /\ DOMAIN s = 1 .. n /\ DOMAIN longer = 1 .. n + 1
      /\ (\A k \in 1 .. n : longer[k] = s[k]) /\ longer[n + 1] = v
  BY AppendProperties
<1> HIDE DEF longer, n
<1>2. SumFold!Fold(0, longer) = plus(SumFold!Fold(0, s), longer[n + 1])
  BY <1>1, SumFold!FoldLast
<1> QED
  BY <1>1, <1>2, SumFoldIs DEF SumOf, longer, plus

LEMMA SumOfTail ==
  ASSUME NEW s \in Seq(Nat), s # <<>>
  PROVE  SumOf(s) = Head(s) + SumOf(Tail(s))
<1> DEFINE n == Len(s) - 1
           t == Tail(s)
<1>1. /\ n \in Nat /\ DOMAIN s = 1 .. n + 1 /\ DOMAIN t = 1 .. n /\ Head(s) = s[1]
      /\ \A k \in 1 .. n : t[k] = s[k + 1] /\ t[k] \in Nat
      /\ s[1] \in Nat
  <2>1. Len(s) \in Nat /\ Len(s) # 0 /\ DOMAIN s = 1 .. Len(s)
    BY EmptySeq
  <2>2. t \in Seq(Nat) /\ Len(t) = n /\ \A k \in 1 .. Len(t) : t[k] = s[k + 1]
    BY HeadTailProperties
  <2>3. DOMAIN t = 1 .. n /\ \A k \in 1 .. n : t[k] \in Nat
    BY <2>2
  <2>4. Head(s) = s[1] /\ s[1] \in Nat
    BY <2>1
  <2> HIDE DEF t
  <2> QED
    BY <2>1, <2>2, <2>3, <2>4
<1> HIDE DEF t, n
<1>2. PICK f : SumFold!Steps(0, s, n + 1, f) /\ f[n + 1] = SumFold!Fold(0, s)
  <2>1. n + 1 \in Nat
    BY <1>1
  <2> QED
    BY <1>1, <2>1, SumFold!FoldHasSteps
<1>3. PICK g : SumFold!Steps(0, t, n, g) /\ g[n] = SumFold!Fold(0, t)
  BY <1>1, SumFold!FoldHasSteps
<1> DEFINE T == {k \in Nat : k <= n => g[k] \in Nat /\ f[k + 1] = s[1] + g[k]}
<1>4. 0 \in T
  BY <1>1, <1>2, <1>3 DEF SumFold!Steps, plus
<1>5. ASSUME NEW k \in Nat, k \in T PROVE k + 1 \in T
  <2> SUFFICES ASSUME k + 1 <= n PROVE g[k + 1] \in Nat /\ f[(k + 1) + 1] = s[1] + g[k + 1]
    OBVIOUS
  <2>1. k <= n /\ k + 1 \in 1 .. n /\ (k + 1) + 1 \in 0 .. n + 1 /\ (k + 1) + 1 # 0 /\ k + 1 \in 0 .. n /\ k + 1 # 0
        /\ (k + 1) - 1 = k /\ ((k + 1) + 1) - 1 = k + 1
    BY <1>1
  <2>2. g[k] \in Nat /\ f[k + 1] = s[1] + g[k]
    BY <1>5, <2>1
  <2>3. g[k + 1] = plus(g[k], t[k + 1])
    BY <1>3, <2>1 DEF SumFold!Steps
  <2>4. f[(k + 1) + 1] = plus(f[k + 1], s[(k + 1) + 1])
    BY <1>2, <2>1 DEF SumFold!Steps
  <2>5. t[k + 1] = s[(k + 1) + 1] /\ t[k + 1] \in Nat
    BY <1>1, <2>1
  <2> QED
    <3>1. s[1] \in Nat
      BY <1>1
    <3> QED
      BY <2>2, <2>3, <2>4, <2>5, <3>1 DEF plus
<1> HIDE DEF T
<1>6. n \in T
  BY <1>1, <1>4, <1>5, SumFold!Induction
<1>7. f[n + 1] = s[1] + g[n]
  BY <1>1, <1>6 DEF T
<1> QED
  BY <1>1, <1>2, <1>3, <1>7, SumFoldIs DEF SumOf, t

\* The rank of a percentile, and the sample it picks.
LEMMA CeilPercentIs ==
  ASSUME NEW n \in Nat \ {0}, NEW p \in 1 .. 100
  PROVE  LET r == ceilPercent(p, n) IN
         r \in 1 .. n /\ 100 * r >= p * n /\ 100 * r < p * n + 100
<1> DEFINE m == p * n
           r == (m + 99) \div 100
<1>1. m \in Nat /\ m >= 1 /\ m <= 100 * n
  <2>1. p \in Nat /\ p >= 1 /\ p <= 100
    OBVIOUS
  <2>2. p * n >= n /\ p * n <= 100 * n /\ p * n \in Nat
    BY <2>1
  <2> QED
    BY <2>2
<1>2. ceilPercent(p, n) = r
  BY DEF ceilPercent
<1> HIDE DEF m
<1>3. r \in Nat /\ 100 * r <= m + 99 /\ m + 99 < 100 * r + 100
  BY <1>1
<1> HIDE DEF r
<1>4. r >= 1 /\ r <= n
  BY <1>1, <1>3
<1> QED
  BY <1>1, <1>2, <1>3, <1>4 DEF m

LEMMA ClampIs ==
  ASSUME NEW n \in Nat, NEW k \in 1 .. n
  PROVE  clamp(k, 1, n) = k
<1>1. k \in Nat /\ n \in Nat /\ k <= n /\ 1 <= k
  OBVIOUS
<1>2. Min({k, n}) = k
  BY <1>1, Smaller
<1>3. {1, k} \subseteq Nat /\ (\A x \in {1, k} : (\A y \in {1, k} : x >= y) <=> x = k)
  BY <1>1
<1>4. Max({1, k}) = k
  BY <1>1, <1>3 DEF Max
<1> QED
  BY <1>2, <1>4 DEF clamp

LEMMA PercentileIs ==
  ASSUME NEW s \in Seq(Nat), s # <<>>, NEW percent \in 1 .. 100
  PROVE  LET atMost(v) == 100 * Cardinality({k \in DOMAIN s : s[k] <= v})
             enough    == {v \in ToSet(s) : atMost(v) >= percent * Len(s)}
         IN  nearestRank(SortedBy(s, s), percent) = Min(enough)
<1> DEFINE n == Len(s)
           D == DOMAIN s
           atMost(v) == 100 * Cardinality({k \in D : s[k] <= v})
           enough == {v \in ToSet(s) : atMost(v) >= percent * n}
           p == ByKey(D, s)
           r == ceilPercent(percent, n)
           v == s[p[r]]
<1>1. n \in Nat \ {0} /\ D = 1 .. n /\ \A k \in D : s[k] \in Nat
  BY EmptySeq
<1>2. IsFiniteSet(D) /\ Cardinality(D) = n /\ Keys(D, s)
  <2>1. IsFiniteSet(1 .. n) /\ Cardinality(1 .. n) = n
    BY <1>1, FS_Interval
  <2>2. Keys(D, s)
    BY <1>1 DEF Keys
  <2> QED
    BY <1>1, <2>1, <2>2
<1>3. p \in [1 .. n -> D] /\ DOMAIN p = 1 .. n
  BY <1>2, ByKeyIs DEF Bijection, Injection
<1>4. r \in 1 .. n /\ 100 * r >= percent * n /\ 100 * r < percent * n + 100
  BY <1>1, CeilPercentIs
<1>5. nearestRank(SortedBy(s, s), percent) = v
  <2> DEFINE w == [k \in DOMAIN p |-> s[p[k]]]
  <2>1. SortedBy(s, s) = w
    BY DEF SortedBy
  <2>2. w \in [1 .. n -> Nat] /\ Len(w) = n
    BY <1>1, <1>3
  <2>3. w[r] = v
    BY <1>3, <1>4
  <2>4. clamp(r, 1, n) = r
    BY <1>1, <1>4, ClampIs
  <2> HIDE DEF w, v, p, r
  <2> QED
    BY <1>1, <2>1, <2>2, <2>3, <2>4 DEF nearestRank, r
<1>6. /\ Cardinality({x \in D : s[x] <= v}) >= r
      /\ \A w \in Int : w < v => Cardinality({x \in D : s[x] <= w}) < r
  BY <1>2, <1>4, RankByKey
<1>7. \A w : Cardinality({x \in D : s[x] <= w}) \in Nat
  <2> SUFFICES ASSUME NEW w PROVE Cardinality({x \in D : s[x] <= w}) \in Nat
    OBVIOUS
  <2>1. IsFiniteSet({x \in D : s[x] <= w})
    BY <1>2, FS_Subset
  <2> QED
    BY <2>1, FS_CardinalityType
<1>8. percent * n \in Nat
  BY <1>1
<1>9. v \in Nat /\ v \in ToSet(s)
  BY <1>1, <1>3, <1>4 DEF ToSet
<1> HIDE DEF v, p, r, n
<1>10. v \in enough
  <2> DEFINE c == Cardinality({x \in D : s[x] <= v})
  <2>1. c \in Nat /\ c >= r
    BY <1>6, <1>7
  <2> HIDE DEF c
  <2>2. 100 * c >= percent * n
    BY <1>4, <1>8, <2>1
  <2> QED
    BY <1>9, <2>2 DEF c
<1>11. ASSUME NEW w \in enough PROVE v <= w
  <2> SUFFICES ASSUME w < v PROVE FALSE
    <3>1. w \in Nat
      BY <1>1 DEF ToSet
    <3> QED
      BY <1>9, <3>1
  <2> DEFINE c == Cardinality({x \in D : s[x] <= w})
  <2>1. w \in Int
    BY <1>1 DEF ToSet
  <2>2. c \in Nat /\ c < r
    BY <1>6, <1>7, <2>1
  <2>3. 100 * c >= percent * n
    OBVIOUS
  <2> HIDE DEF c
  <2> QED
    BY <1>4, <1>8, <2>2, <2>3
<1>12. \A x \in enough : (\A y \in enough : x <= y) <=> x = v
  <2>1. enough \subseteq Nat
    BY <1>1 DEF ToSet
  <2> HIDE DEF enough
  <2> QED
    BY <1>9, <1>10, <1>11, <2>1
<1> HIDE DEF enough
<1>13. Min(enough) = v
  BY <1>10, <1>12 DEF Min
<1> QED
  BY <1>5, <1>13 DEF enough, n

-----------------------------------------------------------------------------
LEMMA LinesAre ==
  ASSUME logFile \in [Days -> Seq(Entry)], NEW k \in Nat \ {0}
  PROVE  /\ IsFiniteSet(LinesFrom(k)) /\ LinesFrom(k) \subseteq Entry
         /\ \A e : e \in LinesFrom(k) <=> \E d \in Days : d >= k /\ e \in ToSet(logFile[d])
         /\ Cardinality(LinesFrom(k)) \in Nat
<1>0. LogDays \in Nat /\ Days = 1 .. LogDays
  BY ObservabilityAssumption DEF Days
<1> DEFINE S == {ToSet(logFile[d]) : d \in k .. LogDays}
           f == [d \in k .. LogDays |-> ToSet(logFile[d])]
<1>1. \A d : d \in k .. LogDays <=> d \in Days /\ d >= k
  BY <1>0
<1>2. f \in Surjection(k .. LogDays, S)
  BY DEF Surjection
<1>3. IsFiniteSet(S)
  BY <1>0, <1>2, FS_Interval, FS_Surjection
<1>4. \A d \in Days : logFile[d] \in Seq(Entry) /\ IsFiniteSet(ToSet(logFile[d])) /\ ToSet(logFile[d]) \subseteq Entry
  <2> SUFFICES ASSUME NEW d \in Days
               PROVE  logFile[d] \in Seq(Entry) /\ IsFiniteSet(ToSet(logFile[d])) /\ ToSet(logFile[d]) \subseteq Entry
    OBVIOUS
  <2>1. logFile[d] \in Seq(Entry)
    OBVIOUS
  <2>2. ToSet(logFile[d]) \subseteq Entry
    BY <2>1 DEF ToSet
  <2> QED
    BY <2>1, <2>2, ElementsAreFinite
<1>5. IsFiniteSet(UNION S)
  BY <1>1, <1>3, <1>4, FS_UNION
<1>6. UNION S \subseteq Entry
  BY <1>1, <1>4
<1>7. \A e : e \in UNION S <=> \E d \in Days : d >= k /\ e \in ToSet(logFile[d])
  BY <1>1
<1>8. LinesFrom(k) = UNION S
  BY DEF LinesFrom
<1> HIDE DEF S
<1> QED
  BY <1>5, <1>6, <1>7, <1>8, FS_CardinalityType

\* One line more.
LineNow(t) == [trace |-> t, at |-> Written + 1]

Logged(l) ==
  /\ l \in Entry /\ l.at = Written + 1 /\ Written' = Written + 1
  /\ logFile' \in [Days -> Seq(Entry)]
  /\ \A d \in Days \ {today} : logFile'[d] = logFile[d]
  /\ Len(logFile'[today]) = Len(logFile[today]) + 1
  /\ \A i \in DOMAIN logFile[today] : logFile'[today][i] = logFile[today][i]
  /\ logFile'[today][Len(logFile[today]) + 1] = l
  /\ ToSet(logFile'[today]) = ToSet(logFile[today]) \cup {l}
  /\ \A k \in Nat \ {0} : LinesFrom(k)' = IF k <= today THEN LinesFrom(k) \cup {l} ELSE LinesFrom(k)

LEMMA OneMoreLine ==
  ASSUME ObservedTypeOK, LogInv, NEW t \in Traces, LogLine(t)
  PROVE  Logged(LineNow(t))
<1> DEFINE l == LineNow(t)
           old == logFile[today]
<1>1. /\ logFile \in [Days -> Seq(Entry)] /\ today \in Days
      /\ logFile' = [logFile EXCEPT ![today] = Append(old, l)]
      /\ Written < MaxLines /\ MaxLines \in Nat
  BY ObservabilityAssumption DEF ObservedTypeOK, LogLine, LineNow
<1>2. Written \in Nat /\ 1 \in Nat \ {0}
  BY <1>1, LinesAre DEF Written
<1>3. l \in Entry /\ l.at = Written + 1
  <2>1. Written + 1 \in 1 .. MaxLines
    BY <1>1, <1>2
  <2> QED
    BY <2>1 DEF LineNow, Entry
<1> HIDE DEF l
<1>4. logFile' \in [Days -> Seq(Entry)] /\ logFile'[today] = Append(old, l)
  <2>1. old \in Seq(Entry)
    BY <1>1
  <2>2. Append(old, l) \in Seq(Entry)
    BY <1>3, <2>1, AppendProperties
  <2> QED
    BY <1>1, <2>2
<1>5. \A d \in Days \ {today} : logFile'[d] = logFile[d]
  BY <1>1
<1>6. /\ Len(logFile'[today]) = Len(old) + 1
      /\ \A i \in DOMAIN old : logFile'[today][i] = old[i]
      /\ logFile'[today][Len(old) + 1] = l
      /\ DOMAIN old = 1 .. Len(old) /\ Len(old) \in Nat
      /\ DOMAIN logFile'[today] = 1 .. Len(old) + 1
  <2>1. old \in Seq(Entry)
    BY <1>1
  <2> QED
    BY <1>3, <1>4, <2>1, AppendProperties
<1>7. ToSet(logFile'[today]) = ToSet(old) \cup {l}
  <2> DEFINE new == logFile'[today]
  <2>1. ASSUME NEW x \in ToSet(new) PROVE x \in ToSet(old) \cup {l}
    <3>1. PICK i \in DOMAIN new : new[i] = x
      BY DEF ToSet
    <3>2. i = Len(old) + 1 \/ i \in DOMAIN old
      BY <1>6
    <3> QED
      BY <1>6, <3>1, <3>2 DEF ToSet
  <2>2. ASSUME NEW x \in ToSet(old) PROVE x \in ToSet(new)
    <3>1. PICK i \in DOMAIN old : old[i] = x
      BY DEF ToSet
    <3>2. i \in DOMAIN new /\ new[i] = x
      BY <1>6, <3>1
    <3> QED
      BY <3>2 DEF ToSet
  <2>3. l \in ToSet(new)
    <3>1. Len(old) + 1 \in DOMAIN new
      BY <1>6
    <3> QED
      BY <1>6, <3>1 DEF ToSet
  <2> QED
    BY <2>1, <2>2, <2>3
<1> HIDE DEF old
<1>8. ASSUME NEW k \in Nat \ {0}
      PROVE  LinesFrom(k)' = IF k <= today THEN LinesFrom(k) \cup {l} ELSE LinesFrom(k)
  <2>1. \A e : e \in LinesFrom(k) <=> \E d \in Days : d >= k /\ e \in ToSet(logFile[d])
    BY <1>1, LinesAre
  <2>2. \A e : e \in LinesFrom(k)' <=> \E d \in Days : d >= k /\ e \in ToSet(logFile'[d])
    <3>1. \A d : d \in k .. LogDays <=> d \in Days /\ d >= k
      BY ObservabilityAssumption DEF Days
    <3> QED
      BY <3>1 DEF LinesFrom
  <2>3. \A d \in Days : ToSet(logFile'[d]) = IF d = today THEN ToSet(logFile[d]) \cup {l} ELSE ToSet(logFile[d])
    BY <1>5, <1>7 DEF old
  <2>4. today \in Nat /\ today \in Days
    BY <1>1, ObservabilityAssumption DEF Days
  <2>5. CASE k <= today
    <3>1. \A e : e \in LinesFrom(k)' <=> e \in LinesFrom(k) \/ e = l
      BY <2>1, <2>2, <2>3, <2>4, <2>5
    <3> QED
      BY <2>5, <3>1
  <2>6. CASE ~(k <= today)
    <3>1. \A e : e \in LinesFrom(k)' <=> e \in LinesFrom(k)
      BY <2>1, <2>2, <2>3, <2>4, <2>6
    <3> QED
      BY <2>6, <3>1
  <2> QED
    BY <2>5, <2>6
<1>9. Written' = Written + 1
  <2>1. LinesFrom(1)' = LinesFrom(1) \cup {l}
    <3>1. 1 <= today
      BY <1>1, ObservabilityAssumption DEF Days
    <3> QED
      BY <1>8, <3>1
  <2>2. l \notin LinesFrom(1)
    BY <1>2, <1>3 DEF LogInv
  <2>3. IsFiniteSet(LinesFrom(1))
    BY <1>1, LinesAre
  <2> QED
    BY <2>1, <2>2, <2>3, FS_AddElement DEF Written
<1> QED
  BY <1>3, <1>4, <1>5, <1>6, <1>7, <1>8, <1>9 DEF Logged, l, old

LEMMA FirstIs ==
  ASSUME ObservedTypeOK
  PROVE  firstDay \in Nat \ {0} /\ (firstDay = 1 \/ firstDay = asked.day + 1 - LOOKBACK) /\ firstDay <= asked.day
<1>1. asked.day \in Nat /\ asked.day >= 1 /\ LOOKBACK \in Nat \ {0}
  BY ObservabilityAssumption DEF ObservedTypeOK, Days
<1> QED
  BY <1>1, FirstDay DEF firstDay

LEMMA SizeIsPositive == asked.day \in Days => asked.day \in Nat \ {0}
  BY ObservabilityAssumption DEF Days

\* The beginning.
LEMMA ObservedBegins == ObservedInit => ObservedInv
<1> SUFFICES ASSUME ObservedInit PROVE ObservedInv
  OBVIOUS
<1>1. /\ today = 1 /\ logFile = [d \in Days |-> <<>>]
      /\ wanted = "none" /\ asked = [day |-> 1, lines |-> 0]
      /\ dates = <<>> /\ entries = <<>> /\ unreadable = {} /\ reply = <<>>
      /\ samples = <<>> /\ sampleSum = 0
  BY DEF ObservedInit
<1>2. 1 \in Days /\ 0 \in 0 .. MaxLines /\ WINDOW \in Nat
  BY ObservabilityAssumption DEF Days
<1>3. logFile \in [Days -> Seq(Entry)] /\ \A d \in Days : logFile[d] = <<>> /\ DOMAIN logFile[d] = {} /\ ToSet(logFile[d]) = {}
  BY <1>1 DEF ToSet
<1>4. LinesFrom(1) = {}
  BY <1>3, LinesAre
<1>5. Written = 0
  BY <1>4, FS_EmptySet DEF Written
<1>6. ObservedTypeOK
  <2>1. samples \in Seq(Durations) /\ Len(samples) <= WINDOW
    BY <1>1, <1>2
  <2>2. dates \in Seq(Days) /\ entries \in Seq(Entry) /\ reply \in Seq(Entry)
    BY <1>1
  <2>3. Written <= MaxLines
    BY <1>5, ObservabilityAssumption
  <2> QED
    BY <1>1, <1>2, <1>3, <2>1, <2>2, <2>3 DEF ObservedTypeOK
<1>7. LogInv
  BY <1>3, <1>4 DEF LogInv, LogInOrder
<1>8. AskedInv
  BY <1>1, ObservabilityAssumption DEF AskedInv
<1>9. sampleSum = SumOf(samples)
  <2>1. SumFold!Fold(0, <<>>) = 0
    <3>1. DOMAIN <<>> = {}
      OBVIOUS
    <3> QED
      BY <3>1, SumFold!FoldEmpty
  <2> QED
    BY <1>1, <2>1, SumFoldIs DEF SumOf
<1> QED
  BY <1>6, <1>7, <1>8, <1>9 DEF ObservedInv

\* A line.
LEMMA LogLineKeeps ==
  ASSUME ObservedInv, NEW t \in Traces, LogLine(t)
  PROVE  ObservedInv'
<1> DEFINE l == LineNow(t)
<1>1. ObservedTypeOK /\ LogInv /\ AskedInv /\ sampleSum = SumOf(samples)
  BY DEF ObservedInv
<1>2. Logged(l)
  BY <1>1, OneMoreLine
<1> HIDE DEF l
<1>3. /\ Written < MaxLines
      /\ UNCHANGED <<today, wanted, asked, dates, entries, unreadable, reply, samples, sampleSum>>
  BY DEF LogLine, sampleVars
<1>4. today \in Days /\ today \in Nat \ {0} /\ logFile \in [Days -> Seq(Entry)] /\ MaxLines \in Nat
  BY <1>1, ObservabilityAssumption DEF ObservedTypeOK, Days
<1>5. Written \in Nat /\ \A e \in Entry : e.at \in Nat
  <2>1. 1 \in Nat \ {0}
    OBVIOUS
  <2>2. Written \in Nat
    BY <1>4, <2>1, LinesAre DEF Written
  <2> QED
    BY <2>2 DEF Entry
<1>6. ObservedTypeOK'
  <2>1. Written' <= MaxLines
    BY <1>2, <1>3, <1>4, <1>5 DEF Logged
  <2> QED
    BY <1>1, <1>2, <1>3, <2>1 DEF ObservedTypeOK, Logged
<1>7. \A e \in LinesFrom(1) : e \in Entry /\ e.at <= Written
  <2>1. 1 \in Nat \ {0}
    OBVIOUS
  <2> QED
    BY <1>1, <1>4, <2>1, LinesAre DEF LogInv
<1>8. LogInv'
  <2>1. LogInOrder'
    <3> SUFFICES ASSUME NEW d \in Days, NEW d2 \in Days,
                        NEW i \in DOMAIN logFile'[d], NEW j \in DOMAIN logFile'[d2],
                        d < d2 \/ (d = d2 /\ i < j)
                 PROVE  logFile'[d][i].at < logFile'[d2][j].at
      BY DEF LogInOrder
    <3> DEFINE n == Len(logFile[today])
    <3>1. n \in Nat /\ DOMAIN logFile[today] = 1 .. n /\ DOMAIN logFile'[today] = 1 .. n + 1
          /\ d \in Nat /\ d2 \in Nat
      <4>1. logFile[today] \in Seq(Entry) /\ logFile'[today] \in Seq(Entry) /\ Len(logFile'[today]) = n + 1
        BY <1>2, <1>4 DEF Logged
      <4> QED
        BY <4>1, ObservabilityAssumption DEF Days
    <3>2. ASSUME NEW c \in Days, NEW h \in DOMAIN logFile'[c]
          PROVE  (c = today /\ h = n + 1 /\ logFile'[c][h] = l)
                 \/ (h \in DOMAIN logFile[c] /\ logFile'[c][h] = logFile[c][h])
      <4>1. CASE c = today
        BY <1>2, <3>1, <3>2, <4>1 DEF Logged
      <4>2. CASE c # today
        BY <1>2, <3>2, <4>2 DEF Logged
      <4> QED
        BY <4>1, <4>2
    <3>3. CASE i \in DOMAIN logFile[d] /\ logFile'[d][i] = logFile[d][i]
      <4>1. CASE j \in DOMAIN logFile[d2] /\ logFile'[d2][j] = logFile[d2][j]
        BY <1>1, <3>3, <4>1 DEF LogInv, LogInOrder
      <4>2. CASE d2 = today /\ j = n + 1 /\ logFile'[d2][j] = l
        <5>1. logFile[d][i] \in LinesFrom(1)
          <6>1. 1 \in Nat \ {0} /\ d >= 1
            BY ObservabilityAssumption DEF Days
          <6>2. logFile[d][i] \in ToSet(logFile[d])
            BY <3>3 DEF ToSet
          <6> QED
            BY <1>4, <6>1, <6>2, LinesAre
        <5>2. logFile[d][i].at <= Written /\ logFile[d][i].at \in Nat
          BY <1>5, <1>7, <5>1
        <5>3. l.at = Written + 1
          BY <1>2 DEF Logged
        <5> QED
          BY <1>5, <3>3, <4>2, <5>2, <5>3
      <4> QED
        BY <3>2, <4>1, <4>2
    <3>4. CASE d = today /\ i = n + 1 /\ logFile'[d][i] = l
      <4>1. CASE d < d2
        <5>1. logFile'[d2] = <<>>
          BY <1>1, <1>2, <1>4, <3>1, <3>4, <4>1 DEF LogInv, Logged
        <5> QED
          BY <5>1
      <4>2. CASE d = d2 /\ i < j
        BY <3>1, <3>4, <4>2
      <4> QED
        BY <4>1, <4>2
    <3> QED
      BY <3>2, <3>3, <3>4
  <2>2. \A d \in Days : d > today' => logFile'[d] = <<>>
    <3> SUFFICES ASSUME NEW d \in Days, d > today PROVE logFile'[d] = <<>>
      BY <1>3
    <3>1. d # today /\ logFile[d] = <<>>
      BY <1>1, <1>4 DEF LogInv
    <3> QED
      BY <1>2, <3>1 DEF Logged
  <2>3. \A e \in LinesFrom(1)' : e.at <= Written'
    <3>1. LinesFrom(1)' = LinesFrom(1) \cup {l} /\ l.at = Written + 1 /\ Written' = Written + 1
      <4>1. 1 \in Nat \ {0} /\ 1 <= today
        BY <1>4
      <4> QED
        BY <1>2, <4>1 DEF Logged
    <3> QED
      BY <1>5, <1>7, <3>1
  <2> QED
    BY <2>1, <2>2, <2>3 DEF LogInv
<1>9. AskedInv'
  <2>1. CASE wanted \notin Traces
    BY <1>1, <1>3, <2>1 DEF AskedInv
  <2>2. CASE wanted \in Traces
    <3>1. DatesInv /\ ReadInv
      BY <1>1, <2>2 DEF AskedInv
    <3>2. firstDay' = firstDay /\ nextDay' = nextDay
      BY <1>3 DEF firstDay, nextDay
    <3>3. asked.lines \in Nat /\ asked.day \in Nat
      BY <1>1, ObservabilityAssumption DEF ObservedTypeOK, Days
    <3>4. l.at > asked.lines /\ l.at \in Nat /\ l.at > Written
      BY <1>2, <1>5, <3>1, <3>3 DEF Logged, DatesInv
    <3>5. DatesInv'
      <4>1. asked.lines <= Written'
        BY <1>2, <1>5, <3>1, <3>3 DEF DatesInv, Logged
      <4>2. ASSUME NEW d \in Days, d > asked.day, NEW e \in ToSet(logFile'[d])
            PROVE  e.at > asked.lines
        <5>1. CASE d = today
          BY <1>2, <3>1, <3>4, <4>2, <5>1 DEF DatesInv, Logged
        <5>2. CASE d # today
          BY <1>2, <3>1, <4>2, <5>2 DEF DatesInv, Logged
        <5> QED
          BY <5>1, <5>2
      <4> QED
        BY <1>3, <3>1, <3>2, <4>1, <4>2 DEF DatesInv
    <3>6. ReadInv'
      <4> SUFFICES ASSUME unreadable = {}
                   PROVE  IsInjective(entries)' /\ Gathered(ToSet(entries), LinesFrom(nextDay) \cap OfTrace(wanted))'
        BY <1>3 DEF ReadInv
      <4>1. IsInjective(entries) /\ Gathered(ToSet(entries), LinesFrom(nextDay) \cap OfTrace(wanted))
        BY <3>1 DEF ReadInv
      <4>2. nextDay \in Nat \ {0}
        BY <1>1, FirstIs DEF nextDay, ObservedTypeOK
      <4>3. LinesFrom(nextDay)' \subseteq LinesFrom(nextDay) \cup {l} /\ LinesFrom(nextDay) \subseteq LinesFrom(nextDay)'
        BY <1>2, <3>2, <4>2 DEF Logged
      <4>4. \A e \in ToSet(entries) : e.at \in Nat /\ e.at <= Written
        <5>1. LinesFrom(nextDay) \subseteq LinesFrom(1)
          <6>1. 1 \in Nat \ {0} /\ nextDay >= 1
            BY <4>2
          <6>2. \A e \in LinesFrom(nextDay) : \E d \in Days : d >= 1 /\ e \in ToSet(logFile[d])
            <7>1. \A d \in Days : d >= 1
              BY ObservabilityAssumption DEF Days
            <7> QED
              BY <1>4, <4>2, <7>1, LinesAre
          <6> QED
            BY <1>4, <6>1, <6>2, LinesAre
        <5> QED
          BY <1>5, <1>7, <4>1, <5>1 DEF Gathered
      <4>5. \A e \in ToSet(entries) : ~(l.at <= e.at)
        BY <1>5, <3>4, <4>4
      <4>6. ~(l.at <= asked.lines)
        BY <3>3, <3>4
      <4>7. asked' = asked
        BY <1>3
      <4> QED
        BY <1>3, <4>1, <4>3, <4>5, <4>6, <4>7 DEF Gathered, OfTrace
    <3> QED
      BY <1>3, <2>2, <3>5, <3>6, ObservabilityAssumption DEF AskedInv
  <2> QED
    BY <2>1, <2>2
<1>10. sampleSum' = SumOf(samples')
  BY <1>1, <1>3
<1> QED
  BY <1>6, <1>8, <1>9, <1>10 DEF ObservedInv

\* A day ends.
LEMMA MidnightKeeps ==
  ASSUME ObservedInv, Midnight
  PROVE  ObservedInv'
<1>1. ObservedTypeOK /\ LogInv /\ AskedInv /\ sampleSum = SumOf(samples)
  BY DEF ObservedInv
<1>2. /\ today < LogDays /\ today' = today + 1
      /\ UNCHANGED <<logFile, wanted, asked, dates, entries, unreadable, reply, samples, sampleSum>>
  BY DEF Midnight, sampleVars
<1>3. today \in Nat /\ today' \in Days /\ \A d \in Days : d \in Nat
  BY <1>1, <1>2, ObservabilityAssumption DEF ObservedTypeOK, Days
<1>4. (\A k : LinesFrom(k)' = LinesFrom(k)) /\ Written' = Written /\ firstDay' = firstDay /\ nextDay' = nextDay
  BY <1>2 DEF LinesFrom, Written, firstDay, nextDay
<1>5. ObservedTypeOK'
  BY <1>1, <1>2, <1>3, <1>4 DEF ObservedTypeOK
<1>6. LogInv'
  <2>1. \A d \in Days : d > today' => logFile'[d] = <<>>
    <3> SUFFICES ASSUME NEW d \in Days, d > today' PROVE logFile'[d] = <<>>
      OBVIOUS
    <3>1. d > today
      BY <1>2, <1>3
    <3> QED
      BY <1>1, <1>2, <3>1 DEF LogInv
  <2>2. LogInOrder'
    BY <1>1, <1>2 DEF LogInv, LogInOrder
  <2>3. \A e \in LinesFrom(1)' : e.at <= Written'
    BY <1>1, <1>4 DEF LogInv
  <2> QED
    BY <2>1, <2>2, <2>3 DEF LogInv
<1>7. AskedInv'
  <2>1. DatesInv => DatesInv'
    BY <1>2, <1>4 DEF DatesInv
  <2>2. ReadInv => ReadInv'
    BY <1>2, <1>4 DEF ReadInv, Gathered, OfTrace
  <2> QED
    BY <1>1, <1>2, <2>1, <2>2 DEF AskedInv
<1> QED
  BY <1>1, <1>2, <1>5, <1>6, <1>7 DEF ObservedInv

\* A question.
LEMMA AskTraceKeeps ==
  ASSUME ObservedInv, NEW t \in Traces, AskTrace(t)
  PROVE  ObservedInv'
<1>1. ObservedTypeOK /\ LogInv /\ AskedInv /\ sampleSum = SumOf(samples)
  BY DEF ObservedInv
<1>2. /\ wanted = "none" /\ wanted' = t
      /\ asked' = [day |-> today, lines |-> Written]
      /\ dates' = lookback(today)
      /\ UNCHANGED <<today, logFile, entries, unreadable, reply, samples, sampleSum>>
  BY DEF AskTrace, sampleVars
<1>3. /\ today \in Nat \ {0} /\ today \in Days /\ LOOKBACK \in Nat \ {0} /\ LogDays \in Nat
      /\ logFile \in [Days -> Seq(Entry)]
  BY <1>1, ObservabilityAssumption DEF ObservedTypeOK, Days
<1>4. Written \in 0 .. MaxLines
  <2>1. Written \in Nat
    <3>1. 1 \in Nat \ {0}
      OBVIOUS
    <3> QED
      BY <1>3, <3>1, LinesAre DEF Written
  <2> QED
    BY <1>1, <2>1, ObservabilityAssumption DEF ObservedTypeOK
<1>5. (\A k : LinesFrom(k)' = LinesFrom(k)) /\ Written' = Written
  BY <1>2 DEF LinesFrom, Written
<1> DEFINE m == Min({LOOKBACK, today})
           f == Max({1, today + 1 - LOOKBACK})
<1>6. m \in Nat /\ m <= LOOKBACK /\ m <= today /\ (m = LOOKBACK \/ m = today)
  BY <1>3, Smaller
<1>7. f \in Nat \ {0} /\ f >= 1 /\ f >= today + 1 - LOOKBACK /\ (f = 1 \/ f = today + 1 - LOOKBACK)
  BY <1>3, FirstDay
<1>8. dates' = [i \in 1 .. m |-> today + 1 - i] /\ firstDay' = f /\ asked'.day = today /\ asked'.lines = Written
  BY <1>2 DEF lookback, firstDay
<1> HIDE DEF m, f
<1>9. m + f = today + 1
  BY <1>3, <1>6, <1>7
<1>10. dates' \in Seq(Days) /\ Len(dates') = m /\ DOMAIN dates' = 1 .. m
  <2>1. \A i \in 1 .. m : today + 1 - i \in Days
    BY <1>3, <1>6 DEF Days
  <2> QED
    BY <1>6, <1>8, <2>1
<1>11. nextDay' = today + 1
  BY <1>8, <1>9, <1>10 DEF nextDay
<1>12. ObservedTypeOK'
  <2>1. asked' \in [day : Days, lines : 0 .. MaxLines]
    BY <1>2, <1>3, <1>4
  <2> QED
    BY <1>1, <1>2, <1>5, <1>10, <2>1 DEF ObservedTypeOK
<1>13. LogInv'
  BY <1>1, <1>2, <1>5 DEF LogInv, LogInOrder
<1>14. \A d \in Days : d > today => ToSet(logFile[d]) = {}
  <2>1. \A d \in Days : d > today => logFile[d] = <<>>
    BY <1>1 DEF LogInv
  <2> QED
    BY <2>1 DEF ToSet
<1>15. DatesInv'
  <2>1. asked'.lines <= Written'
    BY <1>4, <1>5, <1>8
  <2>2. \A d \in Days : d > asked'.day => ToSet(logFile'[d]) = {}
    BY <1>2, <1>8, <1>14
  <2>3. nextDay' <= asked'.day + 1
    BY <1>3, <1>8, <1>11
  <2>4. \A i \in DOMAIN dates' : dates'[i] = nextDay' - i
    <3>1. \A i \in 1 .. m : dates'[i] = (today + 1) - i
      <4> DEFINE g == [i \in 1 .. m |-> today + 1 - i]
      <4>1. \A i \in 1 .. m : g[i] = (today + 1) - i
        BY <1>3, <1>6
      <4>2. dates' = g
        BY <1>8
      <4> HIDE DEF g
      <4> QED
        BY <4>1, <4>2
    <3> QED
      BY <1>10, <1>11, <3>1
  <2> QED
    BY <2>1, <2>2, <2>3, <2>4 DEF DatesInv
<1>16. ReadInv'
  <2>1. entries' = <<>>
    BY <1>1, <1>2 DEF AskedInv
  <2>2. IsInjective(<<>>) /\ ToSet(<<>>) = {}
    BY DEF IsInjective, ToSet
  <2>3. LinesFrom(today + 1) = {}
    <3>1. today + 1 \in Nat \ {0}
      BY <1>3
    <3>2. \A d \in Days : d >= today + 1 => ToSet(logFile[d]) = {}
      BY <1>3, <1>14 DEF Days
    <3> QED
      BY <1>3, <3>1, <3>2, LinesAre
  <2>4. LinesFrom(nextDay)' = {}
    BY <1>5, <1>11, <2>3
  <2>5. Gathered({}, {} \cap OfTrace(wanted))'
    BY DEF Gathered
  <2> QED
    BY <2>1, <2>2, <2>4, <2>5 DEF ReadInv
<1>17. AskedInv'
  BY <1>2, <1>15, <1>16, ObservabilityAssumption DEF AskedInv
<1> QED
  BY <1>1, <1>2, <1>12, <1>13, <1>17 DEF ObservedInv

\* The file of one day.
LEMMA ReadDayKeeps ==
  ASSUME ObservedInv, ReadDay
  PROVE  ObservedInv'
<1> DEFINE d == Head(dates)
           more == Filtered(logFile[d], OfTrace(wanted))
<1>1. ObservedTypeOK /\ LogInv /\ AskedInv /\ sampleSum = SumOf(samples)
  BY DEF ObservedInv
<1>2. /\ wanted \in Traces /\ dates # <<>> /\ dates' = Tail(dates)
      /\ \/ entries' = entries \o more /\ unreadable' = unreadable
         \/ entries' = entries /\ unreadable' = unreadable \cup {d}
      /\ UNCHANGED <<today, logFile, wanted, asked, reply, samples, sampleSum>>
  BY DEF ReadDay, sampleVars
<1>3. /\ dates \in Seq(Days) /\ logFile \in [Days -> Seq(Entry)] /\ entries \in Seq(Entry)
      /\ LogDays \in Nat
  BY <1>1, ObservabilityAssumption DEF ObservedTypeOK
<1>4. (\A k : LinesFrom(k)' = LinesFrom(k)) /\ Written' = Written /\ firstDay' = firstDay
  BY <1>2 DEF LinesFrom, Written, firstDay
<1>5. DatesInv /\ ReadInv
  BY <1>1, <1>2 DEF AskedInv
<1>6. /\ dates' \in Seq(Days) /\ Len(dates') = Len(dates) - 1 /\ Len(dates) \in Nat \ {0}
      /\ \A i \in 1 .. Len(dates') : dates'[i] = dates[i + 1]
      /\ d = dates[1] /\ d \in Days
  <2>1. Len(dates) \in Nat \ {0}
    BY <1>2, <1>3, EmptySeq
  <2>2. d = dates[1]
    OBVIOUS
  <2>3. /\ d \in Days /\ Tail(dates) \in Seq(Days) /\ Len(Tail(dates)) = Len(dates) - 1
        /\ \A i \in 1 .. Len(Tail(dates)) : Tail(dates)[i] = dates[i + 1]
    BY <1>2, <1>3, HeadTailProperties
  <2> QED
    BY <1>2, <2>1, <2>2, <2>3
<1> HIDE DEF d
<1>7. firstDay \in Nat \ {0} /\ nextDay \in Nat \ {0} /\ nextDay' = nextDay - 1 /\ asked.day \in Nat
  <2>1. firstDay \in Nat \ {0} /\ asked.day \in Nat
    BY <1>1, FirstIs, ObservabilityAssumption DEF ObservedTypeOK, Days
  <2>2. nextDay = Len(dates) + firstDay /\ nextDay' = Len(dates') + firstDay
    BY <1>4 DEF nextDay
  <2> QED
    BY <1>6, <2>1, <2>2
<1>8. d = nextDay - 1
  <2>1. 1 \in DOMAIN dates
    BY <1>3, <1>6
  <2> QED
    BY <1>5, <1>6, <2>1 DEF DatesInv
<1>9. d \in Nat \ {0}
  BY <1>6 DEF Days
<1>10. /\ more \in Seq(Entry) /\ ToSet(more) = ToSet(logFile[d]) \cap OfTrace(wanted)
       /\ IsInjective(logFile[d]) => IsInjective(more)
  <2>1. logFile[d] \in Seq(Entry)
    BY <1>3, <1>6
  <2> QED
    BY <2>1, FilteredIs
<1> HIDE DEF more
<1>11. ObservedTypeOK'
  <2>1. entries' \in Seq(Entry)
    <3>1. entries \o more \in Seq(Entry)
      BY <1>3, <1>10, ConcatProperties
    <3> QED
      BY <1>2, <1>3, <3>1
  <2>2. unreadable' \subseteq Days
    BY <1>1, <1>2, <1>6 DEF ObservedTypeOK
  <2> QED
    BY <1>1, <1>2, <1>4, <1>6, <2>1, <2>2 DEF ObservedTypeOK
<1>12. LogInv'
  BY <1>1, <1>2, <1>4 DEF LogInv, LogInOrder
<1>13. DatesInv'
  <2>1. \A i \in DOMAIN dates' : dates'[i] = nextDay' - i
    <3> SUFFICES ASSUME NEW i \in DOMAIN dates' PROVE dates'[i] = nextDay' - i
      OBVIOUS
    <3>1. i \in 1 .. Len(dates') /\ i \in Nat /\ i + 1 \in DOMAIN dates
      BY <1>3, <1>6
    <3>2. dates'[i] = dates[i + 1] /\ dates[i + 1] = nextDay - (i + 1)
      BY <1>5, <1>6, <3>1 DEF DatesInv
    <3> QED
      BY <1>7, <3>1, <3>2
  <2>2. nextDay' <= asked.day + 1
    BY <1>5, <1>7 DEF DatesInv
  <2> QED
    BY <1>2, <1>4, <1>5, <2>1, <2>2 DEF DatesInv
<1>14. ReadInv'
  <2> SUFFICES ASSUME unreadable' = {}
               PROVE  /\ IsInjective(entries)'
                      /\ Gathered(ToSet(entries), LinesFrom(nextDay) \cap OfTrace(wanted))'
    BY DEF ReadInv
  <2>1. unreadable = {} /\ entries' = entries \o more
    BY <1>2
  <2> DEFINE R == LinesFrom(nextDay) \cap OfTrace(wanted)
             F == ToSet(logFile[d])
  <2>2. IsInjective(entries) /\ Gathered(ToSet(entries), R)
    BY <1>5, <2>1 DEF ReadInv
  <2>3. LinesFrom(nextDay)' = LinesFrom(nextDay) \cup F
    <3>1. \A e : e \in LinesFrom(nextDay) <=> \E c \in Days : c >= nextDay /\ e \in ToSet(logFile[c])
      BY <1>3, <1>7, LinesAre
    <3>2. \A e : e \in LinesFrom(d) <=> \E c \in Days : c >= d /\ e \in ToSet(logFile[c])
      BY <1>3, <1>9, LinesAre
    <3>3. \A c \in Days : c >= d <=> (c >= nextDay \/ c = d)
      BY <1>7, <1>8 DEF Days
    <3>4. LinesFrom(d) = LinesFrom(nextDay) \cup F
      BY <1>6, <3>1, <3>2, <3>3
    <3>5. LinesFrom(nextDay)' = LinesFrom(d)
      BY <1>4, <1>7, <1>8
    <3> QED
      BY <3>4, <3>5
  <2>4. ToSet(entries') = ToSet(entries) \cup (F \cap OfTrace(wanted))
    <3>1. ToSet(entries \o more) = ToSet(entries) \cup ToSet(more)
      <4>1. Range(entries \o more) = Range(entries) \cup Range(more)
        BY <1>3, <1>10, RangeConcatenation
      <4> QED
        BY <4>1 DEF Range, ToSet
    <3> QED
      BY <1>10, <2>1, <3>1
  \* Later days hold later lines.
  <2>5. \A x \in LinesFrom(nextDay), e \in F : e.at < x.at /\ e.at \in Nat /\ x.at \in Nat
    <3> SUFFICES ASSUME NEW x \in LinesFrom(nextDay), NEW e \in F
                 PROVE  e.at < x.at /\ e.at \in Nat /\ x.at \in Nat
      OBVIOUS
    <3>1. PICK c \in Days : c >= nextDay /\ x \in ToSet(logFile[c])
      BY <1>3, <1>7, LinesAre
    <3>2. PICK j \in DOMAIN logFile[c] : logFile[c][j] = x
      BY <3>1 DEF ToSet
    <3>3. PICK i \in DOMAIN logFile[d] : logFile[d][i] = e
      BY DEF ToSet
    <3>4. d < c
      BY <1>7, <1>8, <3>1 DEF Days
    <3>5. e.at < x.at
      BY <1>1, <1>6, <3>1, <3>2, <3>3, <3>4 DEF LogInv, LogInOrder
    <3>6. e \in Entry /\ x \in Entry
      BY <1>3, <1>6, <3>1, <3>2, <3>3
    <3> QED
      BY <3>5, <3>6 DEF Entry
  <2>6. IsInjective(entries)'
    <3>1. IsInjective(logFile[d])
      <4> SUFFICES ASSUME NEW i \in DOMAIN logFile[d], NEW j \in DOMAIN logFile[d],
                          logFile[d][i] = logFile[d][j]
                   PROVE  i = j
        BY DEF IsInjective
      <4>1. i \in Nat /\ j \in Nat /\ logFile[d][i] \in Entry
        BY <1>3, <1>6
      <4>2. logFile[d][i].at \in Nat
        BY <4>1 DEF Entry
      <4>3. (i < j => logFile[d][i].at < logFile[d][j].at) /\ (j < i => logFile[d][j].at < logFile[d][i].at)
        BY <1>1, <1>6 DEF LogInv, LogInOrder
      <4> QED
        BY <4>1, <4>2, <4>3
    <3>2. IsInjective(more)
      BY <1>10, <3>1
    <3> DEFINE n == Len(entries)
               all == entries \o more
    <3>3. /\ n \in Nat /\ DOMAIN entries = 1 .. n /\ DOMAIN more = 1 .. Len(more) /\ Len(more) \in Nat
          /\ DOMAIN all = 1 .. n + Len(more)
          /\ \A i \in 1 .. n + Len(more) : all[i] = IF i <= n THEN entries[i] ELSE more[i - n]
      BY <1>3, <1>10, ConcatProperties
    <3> HIDE DEF n, all
    <3>4. ASSUME NEW i \in DOMAIN all, NEW j \in DOMAIN all, i <= n, ~(j <= n)
          PROVE  all[i] # all[j]
      <4>1. all[i] = entries[i] /\ i \in DOMAIN entries
        BY <3>3, <3>4
      <4>2. all[j] = more[j - n] /\ j - n \in DOMAIN more
        BY <3>3, <3>4
      <4>3. all[i] \in ToSet(entries) /\ all[j] \in ToSet(more)
        BY <4>1, <4>2 DEF ToSet
      <4>4. all[i] \in LinesFrom(nextDay) /\ all[j] \in F
        BY <1>10, <2>2, <4>3 DEF Gathered
      <4>5. all[j].at < all[i].at /\ all[j].at \in Nat
        BY <2>5, <4>4
      <4> QED
        BY <4>5
    <3>5. \A i, j \in DOMAIN all : all[i] = all[j] => i = j
      <4> SUFFICES ASSUME NEW i \in DOMAIN all, NEW j \in DOMAIN all, all[i] = all[j] PROVE i = j
        OBVIOUS
      <4>1. CASE i <= n /\ j <= n
        <5>1. i \in DOMAIN entries /\ j \in DOMAIN entries /\ entries[i] = entries[j]
          BY <3>3, <4>1
        <5> QED
          BY <2>2, <5>1 DEF IsInjective
      <4>2. CASE ~(i <= n) /\ ~(j <= n)
        <5>1. i - n \in DOMAIN more /\ j - n \in DOMAIN more /\ more[i - n] = more[j - n]
          BY <3>3, <4>2
        <5>2. i - n = j - n
          BY <3>2, <5>1 DEF IsInjective
        <5> QED
          BY <3>3, <5>2
      <4> QED
        BY <3>4, <4>1, <4>2
    <3> QED
      BY <2>1, <3>5 DEF IsInjective, all
  <2>7. Gathered(ToSet(entries), LinesFrom(nextDay) \cap OfTrace(wanted))'
    <3> DEFINE E  == ToSet(entries)
               E2 == ToSet(entries')
               R2 == (LinesFrom(nextDay) \cap OfTrace(wanted))'
    <3>1. R2 = R \cup (F \cap OfTrace(wanted))
      BY <1>2, <2>3 DEF OfTrace
    <3>2. E2 = E \cup (F \cap OfTrace(wanted)) /\ E \subseteq R
      BY <2>2, <2>4 DEF Gathered
    <3>3. ASSUME NEW x \in R, x.at <= asked.lines \/ \E e \in E2 : x.at <= e.at
          PROVE  x \in E2
      <4>1. CASE x.at <= asked.lines \/ \E e \in E : x.at <= e.at
        BY <2>2, <3>2, <4>1 DEF Gathered
      <4>2. CASE \E e \in F : x.at <= e.at
        <5>1. PICK e \in F : x.at <= e.at
          BY <4>2
        <5>2. e.at < x.at /\ e.at \in Nat /\ x.at \in Nat
          BY <2>5
        <5> QED
          BY <5>1, <5>2
      <4> QED
        BY <3>2, <3>3, <4>1, <4>2
    <3>4. E2 \subseteq R2
      BY <3>1, <3>2
    <3>5. \A x \in R2 : (x.at <= asked'.lines \/ \E e \in E2 : x.at <= e.at) => x \in E2
      BY <1>2, <3>1, <3>2, <3>3
    <3> HIDE DEF R2, E2
    <3> QED
      BY <3>4, <3>5 DEF Gathered, E2, R2
  <2> QED
    BY <2>6, <2>7
<1>15. AskedInv'
  BY <1>2, <1>13, <1>14, ObservabilityAssumption DEF AskedInv
<1> QED
  BY <1>1, <1>2, <1>11, <1>12, <1>15 DEF ObservedInv

\* What is found in the samples of a window.
LEMMA ObserveKeeps ==
  ASSUME ObservedInv, NEW v \in Durations, Observe(v)
  PROVE  ObservedInv'
<1> DEFINE grown == Append(samples, v)
<1>1. ObservedTypeOK /\ LogInv /\ AskedInv /\ sampleSum = SumOf(samples)
  BY DEF ObservedInv
<1>2. /\ UNCHANGED <<today, logFile, wanted, asked, dates, entries, unreadable, reply>>
      /\ \/ /\ Len(samples) = WINDOW
            /\ samples' = Tail(grown) /\ sampleSum' = sampleSum + v - Head(grown)
         \/ /\ Len(samples) # WINDOW
            /\ samples' = grown /\ sampleSum' = sampleSum + v
  BY DEF Observe, traceVars
<1>3. /\ WINDOW \in Nat \ {0} /\ Durations \subseteq Nat
      /\ samples \in Seq(Durations) /\ Len(samples) <= WINDOW /\ sampleSum \in Nat
  BY <1>1, ObservabilityAssumption DEF ObservedTypeOK
<1>4. samples \in Seq(Nat) /\ v \in Nat /\ Len(samples) \in Nat
  <2>1. samples \in Seq(Nat)
    BY <1>3, SeqMonotonic
  <2> QED
    BY <1>3, <2>1
<1>5. /\ grown \in Seq(Durations) /\ grown \in Seq(Nat) /\ grown # <<>>
      /\ Len(grown) = Len(samples) + 1
  BY <1>3, <1>4, AppendProperties
<1>6. SumOf(grown) = sampleSum + v
  BY <1>1, <1>4, SumOfAppend
<1>7. /\ Tail(grown) \in Seq(Durations) /\ Tail(grown) \in Seq(Nat)
      /\ Len(Tail(grown)) = Len(samples) /\ Head(grown) \in Nat
  BY <1>4, <1>5, HeadTailProperties
<1>8. SumOf(grown) = Head(grown) + SumOf(Tail(grown)) /\ SumOf(Tail(grown)) \in Nat
  BY <1>5, <1>7, SumOfTail, SumIsNat
<1> HIDE DEF grown
<1>9. /\ samples' \in Seq(Durations) /\ Len(samples') <= WINDOW
      /\ sampleSum' \in Nat /\ sampleSum' = SumOf(samples')
  <2>1. CASE Len(samples) = WINDOW
    <3>1. samples' = Tail(grown) /\ sampleSum' = sampleSum + v - Head(grown)
      BY <1>2, <2>1
    <3>2. sampleSum + v - Head(grown) = SumOf(Tail(grown))
      <4> DEFINE h == Head(grown)
                 rest == SumOf(Tail(grown))
      <4>1. h \in Nat /\ rest \in Nat /\ sampleSum + v = h + rest
        BY <1>6, <1>7, <1>8
      <4> HIDE DEF h, rest
      <4>2. sampleSum + v - h = rest
        BY <1>3, <1>4, <4>1
      <4> QED
        BY <4>2 DEF h, rest
    <3> QED
      BY <1>3, <1>7, <1>8, <2>1, <3>1, <3>2
  <2>2. CASE Len(samples) # WINDOW
    <3>1. samples' = grown /\ sampleSum' = sampleSum + v
      BY <1>2, <2>2
    <3> QED
      BY <1>3, <1>4, <1>5, <1>6, <2>2, <3>1
  <2> QED
    BY <2>1, <2>2
<1>10. (\A k : LinesFrom(k)' = LinesFrom(k)) /\ Written' = Written /\ firstDay' = firstDay /\ nextDay' = nextDay
  BY <1>2 DEF LinesFrom, Written, firstDay, nextDay
<1>11. ObservedTypeOK'
  BY <1>1, <1>2, <1>9, <1>10 DEF ObservedTypeOK
<1>12. LogInv'
  BY <1>1, <1>2, <1>10 DEF LogInv, LogInOrder
<1>13. AskedInv'
  <2>1. DatesInv => DatesInv'
    BY <1>2, <1>10 DEF DatesInv
  <2>2. ReadInv => ReadInv'
    BY <1>2, <1>10 DEF ReadInv, Gathered, OfTrace
  <2> QED
    BY <1>1, <1>2, <2>1, <2>2 DEF AskedInv
<1> QED
  BY <1>9, <1>11, <1>12, <1>13 DEF ObservedInv

\* The answer.
LEMMA FirstEntriesAre ==
  ASSUME NEW s \in Seq(Entry)
  PROVE  /\ firstEntries(s) \in Seq(Entry)
         /\ Len(firstEntries(s)) = Min({Len(s), MAX_ENTRIES})
         /\ Len(firstEntries(s)) \in Nat /\ Len(firstEntries(s)) <= Len(s)
         /\ \A i \in 1 .. Len(firstEntries(s)) : firstEntries(s)[i] = s[i]
<1> DEFINE m == Min({Len(s), MAX_ENTRIES})
<1>1. Len(s) \in Nat /\ MAX_ENTRIES \in Nat /\ DOMAIN s = 1 .. Len(s)
  BY ObservabilityAssumption
<1>2. m \in Nat /\ m <= Len(s)
  BY <1>1, Smaller
<1> HIDE DEF m
<1>3. \A i \in 1 .. m : s[i] \in Entry
  BY <1>1, <1>2
<1>4. /\ SubSeq(s, 1, m) \in Seq(Entry)
      /\ Len(SubSeq(s, 1, m)) = m
      /\ \A i \in 1 .. m : SubSeq(s, 1, m)[i] = s[i]
  BY <1>1, <1>2, <1>3
<1> QED
  BY <1>2, <1>4 DEF firstEntries, m

LEMMA ServeTraceKeeps ==
  ASSUME ObservedInv, ServeTrace
  PROVE  ObservedInv'
<1>1. ObservedTypeOK /\ LogInv /\ AskedInv /\ sampleSum = SumOf(samples)
  BY DEF ObservedInv
<1>2. /\ wanted' = "answered" /\ reply' = firstEntries(byTime(entries))
      /\ UNCHANGED <<today, logFile, asked, dates, entries, unreadable, samples, sampleSum>>
  BY DEF ServeTrace, sampleVars
<1>3. reply' \in Seq(Entry)
  <2>1. entries \in Seq(Entry)
    BY <1>1 DEF ObservedTypeOK
  <2> DEFINE stamp == [i \in DOMAIN entries |-> entries[i].at]
  <2>2. Keys(DOMAIN entries, stamp)
    <3>1. \A i \in DOMAIN entries : entries[i] \in Entry
      BY <2>1
    <3> QED
      BY <3>1 DEF Keys, Entry
  <2> HIDE DEF stamp
  <2>3. SortedBy(entries, stamp) \in Seq(Entry)
    BY <2>1, <2>2, SortedByIs
  <2> QED
    BY <1>2, <2>3, FirstEntriesAre DEF byTime, stamp
<1>4. (\A k : LinesFrom(k)' = LinesFrom(k)) /\ Written' = Written
  BY <1>2 DEF LinesFrom, Written
<1>5. ObservedTypeOK'
  BY <1>1, <1>2, <1>3, <1>4 DEF ObservedTypeOK
<1>6. LogInv'
  BY <1>1, <1>2, <1>4 DEF LogInv, LogInOrder
<1>7. AskedInv'
  BY <1>2, ObservabilityAssumption DEF AskedInv
<1> QED
  BY <1>1, <1>2, <1>5, <1>6, <1>7 DEF ObservedInv

-----------------------------------------------------------------------------
\* The step that answers tells the trace without gaps.
AnswerIsWhole ==
  (wanted \in Traces /\ wanted' = "answered" /\ unreadable = {}) =>
    LET story  == Story(wanted, Max({1, asked.day + 1 - LOOKBACK}))
        before == Cardinality({e \in story : e.at <= asked.lines}) IN
    /\ StretchOf(reply', ByKey(story, [e \in story |-> e.at]))
    /\ Len(reply') >= Min({before, MAX_ENTRIES})

LEMMA ServeTraceTellsAll ==
  ASSUME ObservedInv, ServeTrace
  PROVE  AnswerIsWhole
<1> SUFFICES ASSUME wanted \in Traces, unreadable = {}
             PROVE  LET story  == Story(wanted, firstDay)
                        before == Cardinality({e \in story : e.at <= asked.lines}) IN
                    /\ StretchOf(reply', ByKey(story, [e \in story |-> e.at]))
                    /\ Len(reply') >= Min({before, MAX_ENTRIES})
  BY DEF AnswerIsWhole, firstDay
<1> DEFINE P == Story(wanted, firstDay)
           stamp == [e \in P |-> e.at]
           E == ToSet(entries)
           a == byTime(entries)
           before == {e \in P : e.at <= asked.lines}
<1>1. ObservedTypeOK /\ LogInv /\ DatesInv /\ ReadInv
  BY DEF ObservedInv, AskedInv
<1>2. dates = <<>> /\ reply' = firstEntries(a)
  BY DEF ServeTrace
<1>3. nextDay = firstDay /\ firstDay \in Nat \ {0}
  BY <1>1, <1>2, FirstIs DEF nextDay
<1>4. /\ logFile \in [Days -> Seq(Entry)] /\ entries \in Seq(Entry)
      /\ MAX_ENTRIES \in Nat
  BY <1>1, ObservabilityAssumption DEF ObservedTypeOK
<1>5. IsFiniteSet(P) /\ P \subseteq Entry
  BY <1>3, <1>4, LinesAre, FS_Intersection DEF Story
<1>6. IsInjective(entries) /\ Gathered(E, P)
  BY <1>1, <1>3 DEF ReadInv, Story
<1>7. Keys(P, stamp)
  BY <1>5 DEF Keys, Entry
<1>8. UniqueKeys(P, stamp)
  <2> SUFFICES ASSUME NEW x \in P, NEW y \in P, x.at = y.at PROVE x = y
    BY DEF UniqueKeys
  <2>1. PICK d \in Days : x \in ToSet(logFile[d])
    BY <1>3, <1>4, LinesAre DEF Story
  <2>2. PICK c \in Days : y \in ToSet(logFile[c])
    BY <1>3, <1>4, LinesAre DEF Story
  <2>3. PICK i \in DOMAIN logFile[d] : logFile[d][i] = x
    BY <2>1 DEF ToSet
  <2>4. PICK j \in DOMAIN logFile[c] : logFile[c][j] = y
    BY <2>2 DEF ToSet
  <2>5. d \in Nat /\ c \in Nat /\ i \in Nat /\ j \in Nat /\ x.at \in Nat
    <3>1. logFile[d] \in Seq(Entry) /\ logFile[c] \in Seq(Entry)
      BY <1>4
    <3>2. i \in Nat /\ j \in Nat
      BY <3>1
    <3> QED
      BY <1>5, <3>2, ObservabilityAssumption DEF Entry, Days
  <2>6. /\ d < c \/ (d = c /\ i < j) => x.at < y.at
        /\ c < d \/ (c = d /\ j < i) => y.at < x.at
    BY <1>1, <2>3, <2>4 DEF LogInv, LogInOrder
  <2>7. d = c /\ i = j
    BY <2>5, <2>6
  <2> QED
    BY <2>3, <2>4, <2>7
<1>9. entries \in Seq(P)
  <2>1. \A i \in 1 .. Len(entries) : entries[i] \in P
    BY <1>4, <1>6 DEF Gathered, ToSet
  <2> QED
    BY <1>4, <2>1
<1>10. Downward(E, P, stamp)
  BY <1>6 DEF Downward, Gathered
<1>11. a = SortedBy(entries, [i \in DOMAIN entries |-> stamp[entries[i]]])
  <2>1. \A i \in DOMAIN entries : entries[i] \in P /\ stamp[entries[i]] = entries[i].at
    BY <1>9
  <2> HIDE DEF stamp, P
  <2>2. [i \in DOMAIN entries |-> stamp[entries[i]]] = [i \in DOMAIN entries |-> entries[i].at]
    BY <2>1
  <2> QED
    BY <2>2 DEF byTime
<1> HIDE DEF P, stamp, E, a
<1>12. /\ a \in Seq(P) /\ Len(a) = Cardinality(E) /\ Len(a) <= Cardinality(P)
       /\ \A k \in 1 .. Len(a) : a[k] = ByKey(P, stamp)[k]
  BY <1>5, <1>6, <1>7, <1>8, <1>9, <1>10, <1>11, SortedBeginning DEF E
<1> DEFINE s == ByKey(P, stamp)
           n == Cardinality(P)
<1>13. s \in Seq(P) /\ Len(s) = n /\ n \in Nat
  <2>1. n \in Nat
    BY <1>5, FS_CardinalityType
  <2>2. s \in [1 .. n -> P]
    BY <1>5, <1>7, ByKeyIs DEF Bijection, Injection
  <2> HIDE DEF s, n
  <2> QED
    BY <2>1, <2>2
<1>14. a \in Seq(Entry) /\ s \in Seq(Entry)
  BY <1>5, <1>12, <1>13, SeqMonotonic
<1> HIDE DEF s, n
<1>15. StretchOf(reply', s)
  <2> DEFINE r == reply'
             m == Len(r)
  <2>1. /\ r \in Seq(Entry) /\ m \in Nat /\ m <= Len(a)
        /\ \A i \in 1 .. m : r[i] = a[i]
    BY <1>2, <1>14, FirstEntriesAre
  <2> HIDE DEF r
  <2>2. Len(a) \in Nat /\ m <= Len(s)
    BY <1>12, <1>13, <1>14, <2>1 DEF n
  <2>3. \A i \in 1 .. m : r[i] = s[i] /\ r[i] \in Entry
    BY <1>12, <2>1, <2>2 DEF s
  <2>4. Len(s) \in Nat /\ 0 \in 0 .. Len(s) /\ Len(r) <= Len(s) - 0 /\ DOMAIN r = 1 .. m
    BY <1>13, <2>1, <2>2
  <2>5. \A i \in DOMAIN r : r[i] = s[0 + i]
    BY <2>1, <2>3, <2>4
  <2> QED
    BY <2>4, <2>5 DEF StretchOf, r
<1>16. Len(reply') >= Min({Cardinality(before), MAX_ENTRIES})
  <2>1. before \subseteq E
    BY <1>6 DEF Gathered
  <2>2. IsFiniteSet(E)
    BY <1>4, ElementsAreFinite DEF E
  <2>3. Cardinality(before) <= Cardinality(E) /\ Cardinality(before) \in Nat /\ Cardinality(E) \in Nat
    BY <2>1, <2>2, FS_Subset, FS_CardinalityType
  <2> DEFINE b == Cardinality(before)
             c == Cardinality(E)
  <2>4. Len(reply') = Min({c, MAX_ENTRIES})
    BY <1>2, <1>12, <1>14, FirstEntriesAre
  <2> HIDE DEF b, c
  <2>5. b \in Nat /\ c \in Nat /\ b <= c
    BY <2>3 DEF b, c
  <2>6. /\ Min({b, MAX_ENTRIES}) \in Nat /\ Min({b, MAX_ENTRIES}) <= b /\ Min({b, MAX_ENTRIES}) <= MAX_ENTRIES
        /\ Min({c, MAX_ENTRIES}) = c \/ Min({c, MAX_ENTRIES}) = MAX_ENTRIES
    BY <1>4, <2>5, Smaller
  <2>7. Len(reply') >= Min({b, MAX_ENTRIES})
    BY <1>4, <2>4, <2>5, <2>6
  <2> QED
    BY <2>7 DEF b
<1> QED
  BY <1>15, <1>16 DEF s, P, stamp

-----------------------------------------------------------------------------
LEMMA ObservedRuns == ObservedInv /\ [ObservedNext]_observedVars => ObservedInv' /\ (AnswerIsWhole \/ UNCHANGED traceVars)
<1> SUFFICES ASSUME ObservedInv, [ObservedNext]_observedVars
             PROVE  ObservedInv' /\ (AnswerIsWhole \/ UNCHANGED traceVars)
  OBVIOUS
<1>0. wanted' = wanted \/ wanted' \in Traces => AnswerIsWhole
  BY ObservabilityAssumption DEF AnswerIsWhole
<1>1. CASE \E t \in Traces : LogLine(t)
  <2>1. PICK t \in Traces : LogLine(t)
    BY <1>1
  <2> QED
    BY <1>0, <2>1, LogLineKeeps DEF LogLine
<1>2. CASE \E t \in Traces : AskTrace(t)
  <2>1. PICK t \in Traces : AskTrace(t)
    BY <1>2
  <2> QED
    BY <1>0, <2>1, AskTraceKeeps DEF AskTrace
<1>3. CASE Midnight
  BY <1>0, <1>3, MidnightKeeps DEF Midnight
<1>4. CASE ReadDay
  BY <1>0, <1>4, ReadDayKeeps DEF ReadDay
<1>5. CASE ServeTrace
  BY <1>5, ServeTraceKeeps, ServeTraceTellsAll
<1>6. CASE \E v \in Durations : Observe(v)
  <2>1. PICK v \in Durations : Observe(v)
    BY <1>6
  <2> QED
    BY <2>1, ObserveKeeps DEF Observe
<1>7. CASE UNCHANGED observedVars
  <2>1. UNCHANGED traceVars /\ UNCHANGED <<today, logFile, wanted, asked, dates, entries, unreadable, reply, samples, sampleSum>>
    BY <1>7 DEF observedVars, traceVars, sampleVars
  <2>2. (\A k : LinesFrom(k)' = LinesFrom(k)) /\ Written' = Written /\ firstDay' = firstDay /\ nextDay' = nextDay
    BY <2>1 DEF LinesFrom, Written, firstDay, nextDay
  <2>3. ObservedTypeOK => ObservedTypeOK'
    BY <2>1, <2>2 DEF ObservedTypeOK
  <2>4. LogInv => LogInv'
    BY <2>1, <2>2 DEF LogInv, LogInOrder
  <2>5. (DatesInv => DatesInv') /\ (ReadInv => ReadInv')
    BY <2>1, <2>2 DEF DatesInv, ReadInv, Gathered, OfTrace
  <2>6. AskedInv => AskedInv'
    BY <2>1, <2>5 DEF AskedInv
  <2> QED
    BY <2>1, <2>3, <2>4, <2>6 DEF ObservedInv
<1> QED
  BY <1>1, <1>2, <1>3, <1>4, <1>5, <1>6, <1>7 DEF ObservedNext, TraceNext, ObservedStep

LEMMA NumbersOfWindow == ObservedInv => MetricsOfWindow
<1> SUFFICES ASSUME ObservedInv PROVE MetricsOfWindow
  OBVIOUS
<1>1. samples \in Seq(Nat) /\ sampleSum = SumOf(samples)
  BY ObservabilityAssumption, SeqMonotonic DEF ObservedInv, ObservedTypeOK
<1>2. samples # <<>> => \A p \in {50, 95, 99} :
        LET atMost(v) == 100 * Cardinality({k \in DOMAIN samples : samples[k] <= v})
            enough == {v \in ToSet(samples) : atMost(v) >= p * Len(samples)}
        IN  percentile(p) = Min(enough)
  <2> SUFFICES ASSUME samples # <<>>, NEW p \in {50, 95, 99}
               PROVE  LET atMost(v) == 100 * Cardinality({k \in DOMAIN samples : samples[k] <= v})
                          enough == {v \in ToSet(samples) : atMost(v) >= p * Len(samples)}
                      IN  percentile(p) = Min(enough)
    OBVIOUS
  <2>1. p \in 1 .. 100
    OBVIOUS
  <2> QED
    BY <1>1, <2>1, PercentileIs DEF percentile
<1> QED
  BY <1>1, <1>2 DEF MetricsOfWindow

\* /trace and /metrics tell what happened, for any number of lines, days, traces and samples: the
\* story of a trace has no gaps, and the numbers are those of the window.
THEOREM ObservationsAreTrue == ObservedSpec => []ObservedTypeOK /\ ObservationsTrue
<1>1. ObservedInit => ObservedInv
  BY ObservedBegins
<1>2. ObservedInv /\ [ObservedNext]_observedVars => ObservedInv' /\ [AnswerIsWhole]_traceVars
  BY ObservedRuns
<1>3. ObservedInv => ObservedTypeOK /\ MetricsOfWindow
  BY NumbersOfWindow DEF ObservedInv
<1>4. TraceToldWithoutGaps <=> [][AnswerIsWhole]_traceVars
  BY DEF TraceToldWithoutGaps, AnswerIsWhole
<1> QED
  BY <1>1, <1>2, <1>3, <1>4, PTL DEF ObservedSpec, ObservationsTrue
=============================================================================
