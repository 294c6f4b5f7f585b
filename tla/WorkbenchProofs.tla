-------------------------- MODULE WorkbenchProofs --------------------------
(***************************************************************************)
(* What PartsProofs says of each part alone holds in the workbench, where  *)
(* the parts stand beside each other.                                      *)
(***************************************************************************)
EXTENDS Workbench, PartsProofs

-----------------------------------------------------------------------------
(* Types of the parts that PartsProofs needed none of.                     *)

\* A document with one line less, and with one line more.
WithoutLine(d, q, k) ==
  /\ DOMAIN d = 1 .. Len(q) - 1
  /\ \A i \in 1 .. Len(q) - 1 : d[i] = IF i < k THEN q[i] ELSE q[i + 1]
WithLine(d, q, k, e) ==
  /\ DOMAIN d = 1 .. Len(q) + 1
  /\ \A i \in 1 .. Len(q) + 1 : d[i] = IF i <= k THEN q[i] ELSE IF i = k + 1 THEN e ELSE q[i - 1]

LEMMA RemovedIs ==
  ASSUME NEW S, NEW q \in Seq(S), NEW k \in 1 .. Len(q)
  PROVE  WithoutLine(RemoveAt(q, k), q, k)
<1> DEFINE d == RemoveAt(q, k)
<1>1. d \in Seq(S) /\ Len(d) = Len(q) - 1
      /\ \A i \in 1 .. Len(q) - 1 : d[i] = IF i < k THEN q[i] ELSE q[i + 1]
  BY RemoveIs
<1> HIDE DEF d
<1>2. WithoutLine(d, q, k)
  BY <1>1 DEF WithoutLine
<1> QED BY <1>2 DEF d

LEMMA InsertedIs ==
  ASSUME NEW S, NEW q \in Seq(S), NEW k \in 0 .. Len(q), NEW e \in S
  PROVE  WithLine(InsertAt(q, k + 1, e), q, k, e)
<1> DEFINE d == InsertAt(q, k + 1, e)
<1>1. d \in Seq(S) /\ Len(d) = Len(q) + 1
      /\ \A i \in 1 .. Len(q) + 1 : d[i] = IF i <= k THEN q[i] ELSE IF i = k + 1 THEN e ELSE q[i - 1]
  BY InsertIs
<1> HIDE DEF d
<1>2. WithLine(d, q, k, e)
  BY <1>1 DEF WithLine
<1> QED BY <1>2 DEF d

\* What an editing author leaves in a context file is made of lines.
LEMMA CommitTypes ==
  /\ CommitInit => CommitTypeOK
  /\ CommitInv /\ CommitTypeOK /\ [CommitNext]_commitVars => CommitTypeOK'
<1>1. ASSUME CommitInit PROVE CommitTypeOK
  <2>1. \A f \in ContextFiles : \A k \in DOMAIN index[f] : IsLine(index[f][k], committed[f])
    <3> SUFFICES ASSUME NEW f \in ContextFiles, NEW k \in DOMAIN index[f]
                 PROVE  IsLine(index[f][k], committed[f])
      OBVIOUS
    <3>1. committed[f] \in Seq(DocLines) /\ index[f] = Placed(committed[f])
      BY <1>1, PreCommitAssumption DEF CommitInit
    <3>2. k \in DOMAIN committed[f] /\ k \in 0 .. Len(committed[f]) /\ committed[f][k] \in DocLines
      BY <3>1 DEF Placed
    <3>3. index[f][k] = [depth |-> committed[f][k].depth, slug |-> committed[f][k].slug, was |-> k]
      BY <3>1, <3>2 DEF Placed
    <3> QED BY <3>2, <3>3 DEF IsLine
  <2>2. message \in Seq(MessageLines)
    <3>1. "blank" \in MessageLines
      BY DEF MessageLines
    <3>2. PICK l \in MessageLines : message = <<"blank", l>>
      BY <1>1 DEF CommitInit
    <3>3. ASSUME NEW S, NEW a1 \in S, NEW a2 \in S PROVE <<a1, a2>> \in Seq(S)
      OBVIOUS
    <3> QED BY <3>1, <3>2, <3>3
  <2>3. exits \in [preCommit : {NotRun, 0, 1}, commitMsg : {NotRun, 0, 1}]
    BY <1>1 DEF CommitInit
  <2> QED BY <1>1, <2>1, <2>2, <2>3 DEF CommitInit, CommitTypeOK
<1>2. ASSUME CommitInv, CommitTypeOK, Edit PROVE CommitTypeOK'
  <2>1. PICK f \in ContextFiles, k \in Places :
           /\ RemoveLine(f, k) \/ \E l \in DocLines : AddLine(f, k, l)
           /\ staged' = staged \cup {f}
    BY <1>2 DEF Edit
  <2>2. UNCHANGED <<committed, conditions, message, exits>>
    BY <1>2 DEF Edit
  <2> DEFINE q == index[f]
             Fits(doc) == \A j \in DOMAIN doc : IsLine(doc[j], committed[f])
  <2>3. q \in Seq(DocLine) /\ Len(q) \in Nat /\ DOMAIN q = 1 .. Len(q) /\ Fits(q)
    BY <1>2 DEF CommitInv, DocInv, CommitTypeOK
  <2>4. PICK doc : Fits(doc) /\ index' = [index EXCEPT ![f] = doc]
    <3>1. CASE RemoveLine(f, k)
      <4>1. k \in 1 .. Len(q) /\ index' = [index EXCEPT ![f] = RemoveAt(q, k)]
        BY <2>3, <3>1 DEF RemoveLine
      <4> DEFINE d == RemoveAt(q, k)
      <4> HIDE DEF q
      <4>2. DOMAIN d = 1 .. Len(q) - 1 /\ \A i \in 1 .. Len(q) - 1 : d[i] = IF i < k THEN q[i] ELSE q[i + 1]
        <5>1. q \in Seq(DocLine) /\ k \in 1 .. Len(q)
          BY <2>3, <4>1
        <5>2. WithoutLine(d, q, k)
          BY <5>1, RemovedIs
        <5> QED BY <5>2 DEF WithoutLine
      <4> HIDE DEF d
      <4>3. \A i \in 1 .. Len(q) - 1 : i \in 1 .. Len(q) /\ i + 1 \in 1 .. Len(q)
        BY <2>3
      <4>4. Fits(d)
        BY <2>3, <4>2, <4>3
      <4> QED BY <4>1, <4>4 DEF d
    <3>2. ASSUME NEW l \in DocLines, AddLine(f, k, l)
          PROVE  \E doc : Fits(doc) /\ index' = [index EXCEPT ![f] = doc]
      <4> DEFINE e == Added(l)
                 d == InsertAt(q, k + 1, e)
      <4>1. k \in 0 .. Len(q) /\ index' = [index EXCEPT ![f] = d]
        BY <3>2 DEF AddLine
      <4>2. e \in DocLine /\ IsLine(e, committed[f])
        <5>1. committed[f] \in Seq(DocLines) /\ l.depth \in Nat
          BY <1>2, PreCommitAssumption DEF CommitTypeOK
        <5>2. 0 \in 0 .. Len(committed[f])
          BY <5>1
        <5> QED BY <5>1, <5>2 DEF Added, DocLine, IsLine
      <4> HIDE DEF e, q
      <4>3. q \in Seq(DocLine) /\ k \in 0 .. Len(q) /\ e \in DocLine
        BY <2>3, <4>1, <4>2
      <4>4. DOMAIN d = 1 .. Len(q) + 1
            /\ \A i \in 1 .. Len(q) + 1 : d[i] = IF i <= k THEN q[i] ELSE IF i = k + 1 THEN e ELSE q[i - 1]
        <5>1. WithLine(d, q, k, e)
          BY <4>3, InsertedIs
        <5> QED BY <5>1 DEF WithLine
      <4> HIDE DEF d
      <4>5. \A i \in 1 .. Len(q) + 1 : /\ i <= k => i \in 1 .. Len(q)
                                       /\ i > k /\ i # k + 1 => i - 1 \in 1 .. Len(q)
        BY <2>3, <4>1
      <4>6. k \in Int /\ \A i \in 1 .. Len(q) + 1 : i \in Int
        BY <4>1
      <4>7. Fits(d)
        <5> SUFFICES ASSUME NEW i \in 1 .. Len(q) + 1 PROVE IsLine(d[i], committed[f])
          BY <4>4
        <5>1. CASE i <= k
          BY <2>3, <4>4, <4>5, <5>1
        <5>2. CASE i = k + 1
          BY <4>2, <4>4, <4>6, <5>2
        <5>3. CASE i > k /\ i # k + 1
          BY <2>3, <4>4, <4>5, <4>6, <5>3
        <5> QED BY <4>6, <5>1, <5>2, <5>3
      <4> QED BY <4>1, <4>7
    <3> HIDE DEF Fits
    <3> QED BY <2>1, <3>1, <3>2
  <2>5. DOMAIN index = ContextFiles
    BY <1>2 DEF CommitInv
  <2>6. \A g \in ContextFiles : index'[g] = IF g = f THEN doc ELSE index[g]
    BY <2>4, <2>5
  <2>7. \A g \in ContextFiles : \A j \in DOMAIN index'[g] : IsLine(index'[g][j], committed[g])
    BY <1>2, <2>4, <2>6 DEF CommitTypeOK
  <2> QED BY <1>2, <2>1, <2>2, <2>7 DEF CommitTypeOK
<1>3. ASSUME CommitTypeOK, Commit PROVE CommitTypeOK'
  <2>1. preCommit \in {0, 1} /\ commitMsg \in {0, 1}
    BY DEF preCommit, commitMsg
  <2>2. exits' \in [preCommit : {NotRun, 0, 1}, commitMsg : {NotRun, 0, 1}]
    BY <1>3, <2>1 DEF Commit
  <2> QED BY <1>3, <2>2 DEF Commit, CommitTypeOK
<1>4. ASSUME CommitTypeOK, UNCHANGED commitVars PROVE CommitTypeOK'
  BY <1>4 DEF CommitTypeOK, commitVars
<1> QED BY <1>1, <1>2, <1>3, <1>4 DEF CommitNext

\* Calls of check_compatibility.
LEMMA ModuleToolsTypes ==
  /\ ModuleToolsInit => ModuleToolsTypeOK
  /\ ModuleToolsTypeOK /\ [ModuleToolsNext]_moduleVars => ModuleToolsTypeOK'
<1> DEFINE Kinds == {"none", "error", "result"}
           Verdicts == \A c \in Checks : verdict[c].kind \in Kinds
           Cached == cache \in [state : {"empty", "pending", "kept"}, version : Versions]
<1>1. ASSUME ModuleToolsInit PROVE ModuleToolsTypeOK
  <2>1. checks \in [Checks -> Check]
    BY <1>1, ModuleToolsAssumption DEF ModuleToolsInit, Check
  <2>2. Cached
    BY <1>1, ModuleToolsAssumption DEF ModuleToolsInit, NoEntry
  <2>3. Verdicts
    BY <1>1 DEF ModuleToolsInit, NoVerdict
  <2>4. changes \in 0 .. MaxChanges
    BY <1>1, ModuleToolsAssumption DEF ModuleToolsInit
  <2> QED BY <1>1, <2>1, <2>2, <2>3, <2>4 DEF ModuleToolsInit, ModuleToolsTypeOK
<1>2. ASSUME ModuleToolsTypeOK, NEW d \in ToSet(Dirs), NEW m \in Manifest \cup {Absent}, InstallModule(d, m)
      PROVE  ModuleToolsTypeOK'
  <2>1. changes' \in 0 .. MaxChanges
    BY <1>2, ModuleToolsAssumption DEF InstallModule, ModuleToolsTypeOK
  <2> QED BY <1>2, <2>1 DEF InstallModule, ModuleToolsTypeOK
<1>3. ASSUME ModuleToolsTypeOK, NEW v \in Versions, Release(v) PROVE ModuleToolsTypeOK'
  <2>1. changes' \in 0 .. MaxChanges
    BY <1>3, ModuleToolsAssumption DEF Release, ModuleToolsTypeOK
  <2> QED BY <1>3, <2>1 DEF Release, ModuleToolsTypeOK
<1>4. ASSUME ModuleToolsTypeOK, NEW c \in Checks, NEW v, v.kind \in Kinds, CheckEnds(c, v)
      PROVE  checks' \in [Checks -> Check] /\ Verdicts'
  <2>1. checks' \in [Checks -> Check]
    BY <1>4 DEF ModuleToolsTypeOK, CheckEnds, Check
  <2>2. \A e \in Checks : verdict'[e] = verdict[e] \/ verdict'[e] = v
    BY <1>4 DEF CheckEnds
  <2> QED BY <1>4, <2>1, <2>2 DEF ModuleToolsTypeOK
<1>5. ASSUME ModuleToolsTypeOK, NEW c \in Checks, NEW id \in ModuleIds, StartCheck(c, id)
      PROVE  ModuleToolsTypeOK'
  <2>1. checks' \in [Checks -> Check]
    BY <1>5 DEF StartCheck, ModuleToolsTypeOK, Check
  <2> QED BY <1>5, <2>1 DEF StartCheck, ModuleToolsTypeOK
<1>6. ASSUME ModuleToolsTypeOK, NEW c \in Checks, Scanned(c) PROVE ModuleToolsTypeOK'
  <2>1. CASE CheckEnds(c, [kind |-> "error"])
    <3> DEFINE v == [kind |-> "error"]
    <3>1. v.kind \in Kinds
      OBVIOUS
    <3> HIDE DEF v
    <3>2. checks' \in [Checks -> Check] /\ Verdicts'
      BY <1>4, <1>6, <2>1, <3>1 DEF v
    <3> QED BY <1>6, <3>2 DEF Scanned, ModuleToolsTypeOK
  <2>2. ASSUME NEW k \in find(checks[c].id),
               checks' = [checks EXCEPT ![c].at = "resolve", ![c].min = manifests[Dirs[k]].min], UNCHANGED verdict
        PROVE  ModuleToolsTypeOK'
    <3>1. k \in DOMAIN Dirs /\ manifests[Dirs[k]] # Absent
      BY DEF find, scanModules
    <3>2. manifests[Dirs[k]].min \in Versions
      <4>1. Dirs[k] \in ToSet(Dirs)
        BY <3>1 DEF ToSet
      <4> QED BY <1>6, <3>1, <4>1 DEF ModuleToolsTypeOK, Manifest
    <3>3. checks' \in [Checks -> Check]
      <4> DEFINE min == manifests[Dirs[k]].min
      <4>1. checks \in [Checks -> Check] /\ min \in Versions
        BY <1>6, <3>2 DEF ModuleToolsTypeOK
      <4>2. checks' = [checks EXCEPT ![c].at = "resolve", ![c].min = min]
        BY <2>2
      <4> HIDE DEF min
      <4>3. [checks[c] EXCEPT !.at = "resolve", !.min = min] \in Check
        BY <4>1 DEF Check
      <4> QED BY <4>1, <4>2, <4>3
    <3> QED BY <1>6, <2>2, <3>3 DEF Scanned, ModuleToolsTypeOK
  <2> QED BY <1>6, <2>1, <2>2 DEF Scanned
<1>7. ASSUME ModuleToolsTypeOK, NEW c \in Checks, Resolve(c) PROVE ModuleToolsTypeOK'
  <2>1. CASE cache.state = "kept"
    <3> DEFINE v == Verdict(c, cache.version)
    <3>1. v.kind \in Kinds
      BY DEF Verdict
    <3>2. CheckEnds(c, v) /\ UNCHANGED <<cache, gits>>
      BY <1>7, <2>1 DEF Resolve
    <3> HIDE DEF v
    <3>3. checks' \in [Checks -> Check] /\ Verdicts'
      BY <1>4, <1>7, <3>1, <3>2
    <3> QED BY <1>7, <3>2, <3>3 DEF Resolve, ModuleToolsTypeOK
  <2>2. CASE cache.state # "kept"
    <3>1. checks' \in [Checks -> Check]
      BY <1>7, <2>2 DEF Resolve, ModuleToolsTypeOK, Check
    <3>2. Cached' /\ gits' \subseteq Checks
      BY <1>7, <2>2, ModuleToolsAssumption DEF Resolve, ModuleToolsTypeOK, Promised
    <3> QED BY <1>7, <2>2, <3>1, <3>2 DEF Resolve, ModuleToolsTypeOK
  <2> QED BY <2>1, <2>2
<1>8. ASSUME ModuleToolsTypeOK, NEW ends, \A w \in Waiting : ends[w].kind \in Kinds, SettleAll(ends)
      PROVE  checks' \in [Checks -> Check] /\ Verdicts'
  <2>1. checks' \in [Checks -> Check]
    BY <1>8 DEF ModuleToolsTypeOK, SettleAll, Check
  <2>2. \A e \in Checks : verdict'[e] = IF e \in Waiting THEN ends[e] ELSE verdict[e]
    BY <1>8 DEF SettleAll
  <2> QED BY <1>8, <2>1, <2>2 DEF ModuleToolsTypeOK
<1>9. ASSUME ModuleToolsTypeOK, NEW c \in Checks, GitDescribes(c) PROVE ModuleToolsTypeOK'
  <2> DEFINE ends == [w \in Waiting |-> Verdict(w, tag)]
  <2>1. \A w \in Waiting : ends[w].kind \in Kinds
    BY DEF Verdict
  <2>2. SettleAll(ends) /\ cache' = Kept(tag) /\ gits' = gits \ {c}
    BY <1>9 DEF GitDescribes
  <2> HIDE DEF ends
  <2>3. checks' \in [Checks -> Check] /\ Verdicts'
    BY <1>8, <1>9, <2>1, <2>2
  <2>4. Cached'
    BY <1>9, <2>2 DEF Kept, ModuleToolsTypeOK
  <2> QED BY <1>9, <2>2, <2>3, <2>4 DEF GitDescribes, ModuleToolsTypeOK
<1>10. ASSUME ModuleToolsTypeOK, NEW c \in Checks, GitFails(c) PROVE ModuleToolsTypeOK'
  <2> DEFINE ends == [w \in Waiting |-> [kind |-> "error"]]
  <2>1. \A w \in Waiting : ends[w].kind \in Kinds
    OBVIOUS
  <2>2. SettleAll(ends) /\ cache' = NoEntry /\ gits' = gits \ {c}
    BY <1>10 DEF GitFails
  <2> HIDE DEF ends
  <2>3. checks' \in [Checks -> Check] /\ Verdicts'
    BY <1>8, <1>10, <2>1, <2>2
  <2>4. Cached'
    BY <1>10, <2>2, ModuleToolsAssumption DEF NoEntry
  <2> QED BY <1>10, <2>2, <2>3, <2>4 DEF GitFails, ModuleToolsTypeOK
<1>11. ASSUME ModuleToolsTypeOK, UNCHANGED moduleVars PROVE ModuleToolsTypeOK'
  BY <1>11 DEF ModuleToolsTypeOK, moduleVars
<1> QED BY <1>1, <1>2, <1>3, <1>5, <1>6, <1>7, <1>9, <1>10, <1>11 DEF ModuleToolsNext

\* A call has the fields it began with, and its implementation works with those it reads.
LEMMA ArgumentTypes ==
  /\ ArgumentInit => ArgumentTypeOK
  /\ ArgumentTypeOK /\ [ArgumentsNext]_argumentVars => ArgumentTypeOK'
<1>1. ASSUME ArgumentInit PROVE ArgumentTypeOK
  <2>1. DOMAIN args = Fields(tool, impl)
    <3> DEFINE S == Fields(tool, impl)
    <3> HIDE DEF S
    <3>1. PICK f \in S \cup {"none"} : \E v \in IF f = "none" THEN {"absent"} ELSE Offered(tool, f) :
            args = [g \in S |-> IF g = f THEN v ELSE Typical(tool, g)]
      BY <1>1 DEF ArgumentInit, S
    <3>2. DOMAIN args = S
      BY <3>1
    <3> QED BY <3>2 DEF S
  <2>2. connected \in BOOLEAN /\ outcome = "asked"
    BY <1>1 DEF ArgumentInit
  <2> QED BY <1>1, <2>1, <2>2 DEF ArgumentInit, ArgumentTypeOK, Outcomes
<1>2. \A w \in {Works} \cup Ignores : DOMAIN w = DOMAIN Read(tool, impl)
  BY DEF Works, Ignores
<1>3. ASSUME ArgumentTypeOK, Validate PROVE ArgumentTypeOK'
  <2>1. outcome' \in {"valid", "invalid"}
    BY <1>3 DEF Validate
  <2> QED BY <1>3, <2>1 DEF Validate, ArgumentTypeOK, Outcomes
<1>4. ASSUME ArgumentTypeOK, HandleByFunction \/ HandleInGodot PROVE ArgumentTypeOK'
  <2>1. UNCHANGED <<tool, impl, args, connected>> /\ outcome' \in {"ran", "refused", "unconnected"}
        /\ (outcome' = "ran" => received' \in {Works} \cup Ignores)
    BY <1>4 DEF HandleByFunction, HandleInGodot
  <2> QED BY <1>2, <1>4, <2>1 DEF ArgumentTypeOK, Outcomes
<1>5. ASSUME ArgumentTypeOK, UNCHANGED argumentVars PROVE ArgumentTypeOK'
  BY <1>5 DEF ArgumentTypeOK, argumentVars
<1> QED BY <1>1, <1>3, <1>4, <1>5 DEF ArgumentsNext

-----------------------------------------------------------------------------
(* The workbench: each part takes its steps alone.                         *)

\* A part takes its own steps, or it stands still.
LEMMA PartsStandApart ==
  [WorkbenchNext]_workbenchVars =>
    /\ [BootNext]_bootVars /\ [FilesNext]_fileVars /\ [ModuleToolsNext]_moduleVars
    /\ [CommitNext]_commitVars /\ [InstallNext]_installVars /\ [EditorNext]_editorVars
    /\ [ObservedNext]_observedVars /\ [IniNext]_iniVars
<1> SUFFICES ASSUME [WorkbenchNext]_workbenchVars
             PROVE  /\ BootNext \/ UNCHANGED bootVars
                    /\ FilesNext \/ UNCHANGED fileVars
                    /\ ModuleToolsNext \/ UNCHANGED moduleVars
                    /\ CommitNext \/ UNCHANGED commitVars
                    /\ InstallNext \/ UNCHANGED installVars
                    /\ EditorNext \/ UNCHANGED editorVars
                    /\ ObservedNext \/ UNCHANGED observedVars
                    /\ IniNext \/ UNCHANGED iniVars
  OBVIOUS
<1>1. CASE UNCHANGED workbenchVars
  BY <1>1 DEF workbenchVars
<1>2. CASE Booting
  BY <1>2 DEF Booting
<1>3. CASE Writing
  BY <1>3 DEF Writing
<1>4. CASE Comparing
  BY <1>4 DEF Comparing
<1>5. CASE Guarding
  BY <1>5 DEF Guarding
<1>6. CASE Installing
  BY <1>6 DEF Installing
<1>7. CASE Tracing \/ Measuring
  BY <1>7 DEF Tracing, Measuring, ObservedNext
<1>8. CASE Setting \/ Passing \/ Reading
  BY <1>8 DEF Setting, Passing, Reading
<1>9. CASE AtTheEditor
  BY <1>9 DEF AtTheEditor, Editing, EditorNext
<1> QED BY <1>1, <1>2, <1>3, <1>4, <1>5, <1>6, <1>7, <1>8, <1>9 DEF WorkbenchNext

LEMMA PartsBegin ==
  WorkbenchInit => BootInit /\ FilesInit /\ ModuleToolsInit /\ CommitInit /\ InstallInit /\ EditorInit
                   /\ ObservedInit /\ IniInit
BY DEF WorkbenchInit

LEMMA PartStays == [WorkbenchNext]_workbenchVars => UNCHANGED part
<1>1. CASE UNCHANGED workbenchVars
  BY <1>1 DEF workbenchVars
<1>2. CASE Booting \/ Tracing \/ Measuring \/ Writing \/ Setting \/ Comparing
  BY <1>2 DEF Booting, Tracing, Measuring, Writing, Setting, Comparing
<1>3. CASE Guarding \/ Passing \/ Reading \/ Installing \/ AtTheEditor
  BY <1>3 DEF Guarding, Passing, Reading, Installing, AtTheEditor
<1> QED BY <1>1, <1>2, <1>3 DEF WorkbenchNext

LEMMA TypesBegin == WorkbenchInit => CommitTypeOK /\ ModuleToolsTypeOK /\ ArgumentTypeOK
BY CommitTypes, ModuleToolsTypes, ArgumentTypes DEF WorkbenchInit

LEMMA ArgumentsStandApart == [WorkbenchNext]_workbenchVars => [ArgumentsNext]_argumentVars
<1> SUFFICES ASSUME [WorkbenchNext]_workbenchVars PROVE ArgumentsNext \/ UNCHANGED argumentVars
  OBVIOUS
<1>1. CASE UNCHANGED workbenchVars
  BY <1>1 DEF workbenchVars
<1>2. CASE Booting \/ Tracing \/ Measuring \/ Writing \/ Setting \/ Comparing
  BY <1>2 DEF Booting, Tracing, Measuring, Writing, Setting, Comparing
<1>3. CASE Guarding \/ Passing \/ Reading \/ Installing \/ AtTheEditor
  BY <1>3 DEF Guarding, Passing, Reading, Installing, AtTheEditor
<1> QED BY <1>1, <1>2, <1>3 DEF WorkbenchNext

WorkbenchSpec == WorkbenchInit /\ [][WorkbenchNext]_workbenchVars

LEMMA PartsRun ==
  WorkbenchSpec => BootSpec /\ FilesSpec /\ ModuleToolsSpec /\ CommitSpec /\ InstallSpec /\ EditorSpec
                   /\ ObservedSpec /\ IniSpec
BY PartsBegin, PartsStandApart, PTL
   DEF WorkbenchSpec, BootSpec, FilesSpec, ModuleToolsSpec, CommitSpec, InstallSpec, EditorSpec,
       ObservedSpec, IniSpec

\* In the workbench the git hooks let a commit pass exactly if each section that the context map asks
\* for has a new line or lost lines below one other than its heading, none of them is then as in HEAD,
\* and installing them loses no hook of the user and says the truth about what it left.
THEOREM HooksKeepGuard == WorkbenchSpec => []HooksGuard
<1>1. HookStopsStale /\ UserHooksKept /\ SuccessMeansInstalled => HooksGuard
  BY DEF HooksGuard
<1> QED BY <1>1, PartsRun, StaleSectionsAreStopped, NoHookIsLost, SuccessIsTold, PTL

\* The editor's books are right in the workbench too.
THEOREM EditorKeepsItsBooks == WorkbenchSpec => EditorKeepsBooks
BY PartsRun, EditorBooksAreKept, PTL

\* What /trace and /metrics tell is what happened.
THEOREM WorkbenchTellsTheTruth == WorkbenchSpec => ObservationsTrue
BY PartsRun, ObservationsAreTrue, PTL

\* And the other parts keep beside each other what each keeps alone.
THEOREM PartsKeepTheirPromises ==
  WorkbenchSpec => [](FilesKept /\ PortsServed /\ OptionsMeanWhatTheySay /\ CompatibilityTold)
<1> QED BY PartsRun, FilesSurvive, PortsAreServed, OptionsAreMeant, VerdictsAreTrue, PTL

\* Types: every part that is looked at has them, but for the settings file (whose lines are part of what
\* SettingsAreKept shows) and the parser of literals, whose results come from recursive functions.
THEOREM TypesAreKept == WorkbenchSpec => [](part \notin {"ini", "literal"} => WorkbenchTypeOK)
<1>1. BootSpec => []BootTypeOK
  <2>1. BootInv => BootTypeOK
    BY DEF BootInv
  <2> QED BY <2>1, BootBegins, BootNextKeeps, PTL DEF BootSpec
<1>2. FilesSpec => []FilesTypeOK
  <2>1. FilesInv => FilesTypeOK
    BY DEF FilesInv
  <2> QED BY <2>1, FilesBegin, FilesStepKeeps, PTL DEF FilesSpec
<1>3. InstallSpec => []InstallTypeOK
  <2>1. InstallInv => InstallTypeOK
    BY DEF InstallInv
  <2> QED BY <2>1, InitInstalls, InstallStepKeeps, PTL DEF InstallSpec
<1>4. ModuleToolsSpec => []ModuleToolsTypeOK
  BY ModuleToolsTypes, PTL DEF ModuleToolsSpec
<1>5. CommitSpec => []CommitTypeOK
  BY CommitBegins, CommitStepKeeps, CommitTypes, PTL DEF CommitSpec
<1>6. WorkbenchSpec => []ArgumentTypeOK
  BY TypesBegin, ArgumentTypes, ArgumentsStandApart, PTL DEF WorkbenchSpec
<1>7. /\ BootTypeOK /\ FilesTypeOK /\ InstallTypeOK /\ ModuleToolsTypeOK /\ CommitTypeOK /\ ArgumentTypeOK
      /\ EditorTypeOK /\ ObservedTypeOK /\ part \in Parts
      => (part \notin {"ini", "literal"} => WorkbenchTypeOK)
  BY DEF WorkbenchTypeOK, Parts
<1>8. WorkbenchSpec => [](part \in Parts)
  <2>1. WorkbenchInit => part \in Parts
    BY DEF WorkbenchInit
  <2>2. part \in Parts /\ [WorkbenchNext]_workbenchVars => (part \in Parts)'
    BY PartStays
  <2> QED BY <2>1, <2>2, PTL DEF WorkbenchSpec
<1> QED BY PartsRun, EditorBooksAreKept, ObservationsAreTrue, <1>1, <1>2, <1>3, <1>4, <1>5, <1>6, <1>7, <1>8, PTL
=============================================================================
