----------------------------- MODULE Workbench -----------------------------
(***************************************************************************)
(* The parts of the server and the editor plugin that share nothing with a *)
(* running session: each is a specification of its own, and "part" says    *)
(* which one is looked at.  The variables of the others stand still.       *)
(***************************************************************************)
EXTENDS ServerBoot, Observability, ProjectFiles, GodotIni, ModuleTools, PreCommit, ToolArguments,
        TypeParser, HookInstaller, EditorSide

VARIABLE part

workbenchVars == <<part, bootVars, observedVars, fileVars, iniVars, moduleVars, commitVars, argumentVars,
                   literalVars, installVars, editorVars>>

Parts == {"boot", "trace", "metrics", "files", "ini", "modules", "commit", "arguments", "literal", "hooks",
          "link", "scenes", "batch"}

WorkbenchTypeOK ==
  CASE part = "boot" -> BootTypeOK
    [] part \in {"trace", "metrics"} -> ObservedTypeOK
    [] part = "files" -> FilesTypeOK
    [] part = "ini" -> \A i \in DOMAIN source : source[i] \in Lines \cup DOMAIN Misread
    [] part = "modules" -> ModuleToolsTypeOK
    [] part = "commit" -> CommitTypeOK
    [] part = "arguments" -> ArgumentTypeOK
    [] part = "literal" -> LiteralTypeOK
    [] part = "hooks" -> InstallTypeOK
    [] part \in {"link", "scenes", "batch"} -> EditorTypeOK

\* A part that is not looked at begins in one of its initial states.
Only(p, rest) == IF part = p THEN TRUE ELSE rest

WorkbenchInit ==
  /\ part \in Parts
  /\ Only("boot", argv = [s \in Servers |-> <<>>]) /\ BootInit
  /\ ObservedInit
  /\ Only("files", role = [w \in Writers |-> "editor"] /\ process = [w \in Writers |-> CHOOSE p \in Processes : TRUE])
  /\ FilesInit
  /\ Only("ini", source = <<>>) /\ IniInit
  /\ Only("modules", manifests = [d \in ToSet(Dirs) |-> Absent] /\ tag = NoVersion) /\ ModuleToolsInit
  /\ Only("commit", /\ committed = [f \in ContextFiles |-> <<>>] /\ staged = {}
                    /\ conditions = [skip |-> FALSE, map |-> "none", gitFails |-> FALSE, logFails |-> FALSE]
                    /\ message = <<"blank", "conventional">>)
  /\ CommitInit
  /\ Only("arguments", /\ impl = "godot" /\ tool = CHOOSE t \in Implemented("godot") : TRUE
                       /\ connected = TRUE /\ args = [f \in Fields(tool, impl) |-> Typical(tool, f)])
  /\ ArgumentInit
  /\ Only("literal", written = <<>>) /\ LiteralInit
  /\ Only("hooks", windows = FALSE) /\ InstallInit
  /\ Only("batch", wired = TRUE) /\ EditorInit

Booting    == part = "boot" /\ BootNext
              /\ UNCHANGED <<part, observedVars, fileVars, iniVars, moduleVars, commitVars, argumentVars, literalVars, installVars, editorVars>>
Tracing    == part = "trace" /\ TraceNext
              /\ UNCHANGED <<part, bootVars, sampleVars, fileVars, iniVars, moduleVars, commitVars, argumentVars, literalVars, installVars, editorVars>>
Measuring  == part = "metrics" /\ (\E value \in Durations : Observe(value))
              /\ UNCHANGED <<part, bootVars, fileVars, iniVars, moduleVars, commitVars, argumentVars, literalVars, installVars, editorVars>>
Writing    == part = "files" /\ FilesNext
              /\ UNCHANGED <<part, bootVars, observedVars, iniVars, moduleVars, commitVars, argumentVars, literalVars, installVars, editorVars>>
Setting    == part = "ini" /\ IniNext
              /\ UNCHANGED <<part, bootVars, observedVars, fileVars, moduleVars, commitVars, argumentVars, literalVars, installVars, editorVars>>
Comparing  == part = "modules" /\ ModuleToolsNext
              /\ UNCHANGED <<part, bootVars, observedVars, fileVars, iniVars, commitVars, argumentVars, literalVars, installVars, editorVars>>
Guarding   == part = "commit" /\ CommitNext
              /\ UNCHANGED <<part, bootVars, observedVars, fileVars, iniVars, moduleVars, argumentVars, literalVars, installVars, editorVars>>
Passing    == part = "arguments" /\ ArgumentsNext
              /\ UNCHANGED <<part, bootVars, observedVars, fileVars, iniVars, moduleVars, commitVars, literalVars, installVars, editorVars>>
Reading    == part = "literal" /\ LiteralNext
              /\ UNCHANGED <<part, bootVars, observedVars, fileVars, iniVars, moduleVars, commitVars, argumentVars, installVars, editorVars>>
Installing == part = "hooks" /\ InstallNext
              /\ UNCHANGED <<part, bootVars, observedVars, fileVars, iniVars, moduleVars, commitVars, argumentVars, literalVars, editorVars>>

Editing    == \/ part = "link" /\ LinkNext
              \/ part = "scenes" /\ ScenesNext
              \/ part = "batch" /\ BatchNext
AtTheEditor == Editing
              /\ UNCHANGED <<part, bootVars, observedVars, fileVars, iniVars, moduleVars, commitVars, argumentVars, literalVars, installVars>>

WorkbenchNext ==
  \/ Booting \/ Tracing \/ Measuring \/ Writing \/ Setting \/ Comparing \/ Guarding \/ Passing
  \/ Reading \/ Installing \/ AtTheEditor

WorkbenchFairness == \A s \in Servers : WF_bootVars(part = "boot" /\ BootStep(s))

-----------------------------------------------------------------------------
\* The git hooks stop exactly the commits whose code changed and that leave a section the context
\* map asks for unchanged, with what counts as a change defined in SectionChanged; installing them
\* loses no hook of the user, and a success means that they are there to run.
HooksGuard == HookStopsStale /\ UserHooksKept /\ SuccessMeansInstalled
=============================================================================
