----------------------------- MODULE PreCommit -----------------------------
(***************************************************************************)
(* The two hooks that guard a commit.  pre-commit asks that a commit which *)
(* changes code also changes the sections of the documentation that the    *)
(* context map names; commit-msg asks for a conventional header.           *)
(*                                                                         *)
(* A context file is a sequence of lines; a line is text (depth 0) or a    *)
(* heading, and "was" is its place in the committed version, 0 for a line  *)
(* that is new.  git diff -U0 is derived from those places.                *)
(***************************************************************************)
EXTENDS Integers, Sequences, SequencesExt, FiniteSets

CONSTANTS
  DocLines,       \* the lines that context files are made of
  OldDocs,        \* the context files as they are in HEAD: sequences of DocLines
  CodeFiles, ContextFiles,
  Mappings,       \* of context-map.json: [files, file, slug]: code files matched, and the anchor
  MaxAdded, MaxRemoved  \* bounds: lines that an author adds to and removes from a context file

ASSUME PreCommitAssumption ==
  /\ MaxAdded \in Nat /\ MaxRemoved \in Nat
  /\ OldDocs \subseteq Seq(DocLines) /\ \A l \in DocLines : l.depth \in Nat
  /\ \A m \in Mappings : m.files \subseteq CodeFiles /\ m.file \in ContextFiles

VARIABLES
  committed,      \* of each context file: its lines in HEAD
  index,          \* and in the index
  staged,         \* the files of the commit
  conditions,     \* what the hooks meet: [skip, map, gitFails, logFails]
  message,        \* the lines of the message: "blank", a bypass, or what the header breaks
  exits           \* exit codes of pre-commit and commit-msg, NotRun before

commitVars == <<committed, index, staged, conditions, message, exits>>

NotRun == -1
Conditions == [skip : BOOLEAN, map : {"good", "none", "bad"}, gitFails : BOOLEAN, logFails : BOOLEAN]
MessageLines == {"blank", "conventional", "Merge", "squash", "unknown type", "no subject", "period"}

\* The lines of a file with their places.
Placed(doc) == [k \in DOMAIN doc |-> [depth |-> doc[k].depth, slug |-> doc[k].slug, was |-> k]]
Added(l)    == [depth |-> l.depth, slug |-> l.slug, was |-> 0]
Places      == 0 .. 9

\* A line of a file whose lines in HEAD are "old".
IsLine(w, old) ==
  /\ w.was \in 0 .. Len(old)
  /\ \E l \in DocLines : w = [depth |-> l.depth, slug |-> l.slug, was |-> w.was]

CommitTypeOK ==
  /\ committed \in [ContextFiles -> OldDocs]
  /\ \A f \in ContextFiles : \A k \in DOMAIN index[f] : IsLine(index[f][k], committed[f])
  /\ staged \subseteq CodeFiles \cup ContextFiles
  /\ conditions \in Conditions /\ message \in Seq(MessageLines)
  /\ exits \in [preCommit : {NotRun, 0, 1}, commitMsg : {NotRun, 0, 1}]

CommitInit ==
  /\ committed \in [ContextFiles -> OldDocs]
  /\ index = [f \in ContextFiles |-> Placed(committed[f])]
  /\ staged \in SUBSET CodeFiles
  /\ conditions \in Conditions
  /\ message \in {<<"blank", l>> : l \in MessageLines}
  /\ exits = [preCommit |-> NotRun, commitMsg |-> NotRun]

-----------------------------------------------------------------------------
\* git diff -U0: for each run of new lines where it starts and how long it is, and for lines
\* that went and were replaced by nothing the line before, with length 0.
PlaceOf(doc, k)  == IF k = 0 THEN 0 ELSE doc[k].was
gitDiff(old, doc) ==
  LET added(a, b) == \A k \in a .. b : doc[k].was = 0
      runs == {h \in [start : DOMAIN doc, count : DOMAIN doc] :
                 LET last == h.start + h.count - 1 IN
                   /\ last \in DOMAIN doc /\ added(h.start, last)
                   /\ (h.start = 1 \/ doc[h.start - 1].was # 0)
                   /\ (last = Len(doc) \/ doc[last + 1].was # 0)}
      gone == {k \in 0 .. Len(doc) :
                 /\ k = 0 \/ doc[k].was # 0
                 /\ k = Len(doc) \/ doc[k + 1].was # 0
                 /\ (IF k = Len(doc) THEN Len(old) + 1 ELSE doc[k + 1].was) # PlaceOf(doc, k) + 1}
  IN  runs \cup {[start |-> k, count |-> 0] : k \in gone}

\* parsePostImageRanges()
parsePostImageRanges(diff) == {[start |-> h.start, end |-> h.start + h.count - 1] : h \in diff}

\* findHeadingRange(): from the first heading with the slug to the line before the next one
\* that is not deeper.
headings(doc, slug) == {k \in DOMAIN doc : doc[k].depth > 0 /\ doc[k].slug = slug}
findHeadingRange_PastSiblings(doc, slug) ==
  LET first == CHOOSE k \in headings(doc, slug) : \A j \in headings(doc, slug) : k <= j
      after == {k \in first + 1 .. Len(doc) : doc[k].depth > 0 /\ doc[k].depth < doc[first].depth}
  IN  [start |-> first,
       end |-> IF after = {} THEN Len(doc) ELSE (CHOOSE k \in after : \A j \in after : k <= j) - 1]

findHeadingRange(doc, slug) ==
  LET first == CHOOSE k \in headings(doc, slug) : \A j \in headings(doc, slug) : k <= j
      after == {k \in first + 1 .. Len(doc) : doc[k].depth > 0 /\ doc[k].depth <= doc[first].depth}
  IN  [start |-> first,
       end |-> IF after = {} THEN Len(doc) ELSE (CHOOSE k \in after : \A j \in after : k <= j) - 1]

anchorWasTouched(diff, slug, doc) ==
  /\ diff # {} /\ headings(doc, slug) # {}
  /\ LET range == findHeadingRange(doc, slug) IN
       \E h \in parsePostImageRanges(diff) : h.start <= range.end /\ h.end >= range.start

\* findRequiredAnchors()
findRequiredAnchors == {m \in Mappings : m.files \cap staged # {}}

\* One anchor: a git command that fails looks like an empty diff, or an empty file.
stale(m) ==
  \/ m.file \notin staged
  \/ conditions.gitFails
  \/ ~anchorWasTouched(gitDiff(committed[m.file], index[m.file]), m.slug, index[m.file])

\* runHook() of pre-commit.  A skip must be recorded: if it cannot be, the hook crashes.
preCommit ==
  CASE conditions.skip -> IF conditions.logFails THEN 1 ELSE 0
    [] ~conditions.skip /\ conditions.map = "none" -> 0
    [] ~conditions.skip /\ conditions.map = "bad" -> 1
    [] OTHER -> IF \E m \in findRequiredAnchors : stale(m) THEN 1 ELSE 0

\* validateCommitMessage(): the first line that is not blank counts.
extractHeader == LET i == SelectInSeq(message, LAMBDA l : l # "blank") IN IF i = 0 THEN "blank" ELSE message[i]
isBypassHeader(h) == h \in {"Merge", "squash"}
commitMsg == IF isBypassHeader(extractHeader) \/ extractHeader = "conventional" THEN 0 ELSE 1

Commit ==
  /\ exits.preCommit = NotRun
  /\ exits' = [preCommit |-> preCommit, commitMsg |-> IF preCommit = 0 THEN commitMsg ELSE NotRun]
  /\ UNCHANGED <<committed, index, staged, conditions, message>>

\* The author edits a context file and stages it: a line is added, or one is removed.
AddLine(f, k, l) ==
  /\ Cardinality({j \in DOMAIN index[f] : index[f][j].was = 0}) < MaxAdded
  /\ k \in 0 .. Len(index[f])
  /\ index' = [index EXCEPT ![f] = InsertAt(@, k + 1, Added(l))]
RemoveLine(f, k) ==
  /\ Cardinality({j \in DOMAIN index[f] : index[f][j].was # 0}) > Len(committed[f]) - MaxRemoved
  /\ k \in DOMAIN index[f] /\ index[f][k].was # 0
  /\ index' = [index EXCEPT ![f] = RemoveAt(@, k)]
Edit ==
  /\ exits.preCommit = NotRun
  /\ \E f \in ContextFiles, k \in Places :
       /\ RemoveLine(f, k) \/ \E l \in DocLines : AddLine(f, k, l)
       /\ staged' = staged \cup {f}
  /\ UNCHANGED <<committed, conditions, message, exits>>

CommitNext == Edit \/ Commit

-----------------------------------------------------------------------------
\* What a section is: its first heading, and what follows until a heading that is not deeper.
SectionLines(doc, slug) ==
  {k \in DOMAIN doc : \E h \in 1 .. k :
     /\ h \in headings(doc, slug) /\ \A j \in headings(doc, slug) : h <= j
     /\ \A j \in h + 1 .. k : doc[j].depth = 0 \/ doc[j].depth > doc[h].depth}
SectionAndNext(doc, slug) ==
  LET lines == SectionLines(doc, slug)
  IN  {doc[k] : k \in lines \cup ({j + 1 : j \in lines} \cap DOMAIN doc)}

Enforced == ~conditions.skip /\ conditions.map = "good"

\* A commit that passed left no section behind: for each mapping whose code changed, the
\* section is there, and it, or the line right after it, is not what it was in HEAD.
PassedMeansUpdated ==
  exits.preCommit = 0 /\ Enforced =>
    \A m \in Mappings : m.files \cap staged # {} =>
      /\ headings(index[m.file], m.slug) # {}
      /\ SectionAndNext(Placed(committed[m.file]), m.slug) # SectionAndNext(index[m.file], m.slug)

\* Lines of HEAD that were right below line k have gone, and nothing stands in their place.
LostBelow(old, doc, k) ==
  /\ doc[k].was # 0
  /\ IF k = Len(doc) THEN doc[k].was # Len(old) ELSE doc[k + 1].was \notin {0, doc[k].was + 1}

\* What counts as a change of a section: a new line in it, or lines lost below one of its lines
\* other than the heading.  So lines lost right below the heading do not count, and neither do lines
\* that went from the end of a section where a new line follows; what is lost right after a
\* section of more than one line does, although it may have belonged to the next one.
SectionChanged(old, doc, slug) ==
  LET lines == SectionLines(doc, slug)
  IN  \E k \in lines : doc[k].was = 0 \/ (k - 1 \in lines /\ LostBelow(old, doc, k))

\* A commit passes if and only if every section that the map asks for has changed in that sense,
\* and git can say so.  (pre-commit.ts:255-257 and 269-272 say that a pure deletion cannot overlap a
\* section; line 190 finds that those below a line other than the heading do, and so they count.)
PassedIffChanged ==
  exits.preCommit # NotRun /\ Enforced =>
    (exits.preCommit = 0 <=>
       \A m \in Mappings : m.files \cap staged # {} =>
         ~conditions.gitFails /\ SectionChanged(committed[m.file], index[m.file], m.slug))

\* What pre-commit stops: the commits whose code changed without the sections that the map asks for.
\* Said twice, with what counts as a change line by line, and with what passes compared with HEAD.
HookStopsStale == PassedMeansUpdated /\ PassedIffChanged
=============================================================================
