--------------------------- MODULE HookInstaller ---------------------------
(***************************************************************************)
(* `forgekit-mcp install-hooks`: runInstallHooks() and installHooks().     *)
(* Each hook is looked at, moved out of the way if somebody else wrote it, *)
(* written and made executable, one await after the other.  Any of these   *)
(* may fail, and the process may be killed; then it is run again.  Between *)
(* two runs the user may write a hook of his own.                          *)
(*                                                                         *)
(* A hook file holds the shim (it has the marker), a hook of the user (a   *)
(* number), or a write that was cut short.  A backup has the time of the   *)
(* run in its name: no two runs have the same.                             *)
(***************************************************************************)
EXTENDS Naturals, Sequences, SequencesExt

CONSTANTS
  MaxRuns,        \* bound: runs of the installer
  MaxUserHooks,   \* bound: hooks that the user writes
  MaxFailures     \* bound: file operations that fail

ASSUME InstallerAssumption == MaxRuns \in Nat /\ MaxUserHooks \in Nat /\ MaxFailures \in Nat

VARIABLES
  hookFile,       \* of each hook: what its file holds
  executable,     \* the hooks whose file is executable
  backups,        \* what each backup holds
  installer,      \* [at, hook]: the step, and the index of the hook in the plan
  exitStatus,     \* of the last run, "none" while it runs or when it was killed
  runs, failures, \* how many there were
  windows,        \* the platform: nothing is made executable
  authored,       \* how many hooks the user has written
  mistaken        \* history: a hook file that was there was taken for none

installVars == <<hookFile, executable, backups, installer, exitStatus, runs, failures, windows,
                 authored, mistaken>>

plan  == <<"commit-msg", "pre-commit">>
Hooks == ToSet(plan)
UserHooks == {<<"user", k>> : k \in 1 .. MaxUserHooks}
Contents  == {<<"none">>, <<"shim">>, <<"torn">>} \cup UserHooks

InstallTypeOK ==
  /\ hookFile \in [Hooks -> Contents] /\ executable \subseteq Hooks
  /\ backups \in [Hooks \X (1 .. MaxRuns) -> Contents]
  /\ installer.at \in {"idle", "stat", "read", "rename", "write", "writing", "chmod"}
  /\ installer.hook \in DOMAIN plan
  /\ exitStatus \in {"none", "0", "1"}
  /\ runs \in 0 .. MaxRuns /\ failures \in 0 .. MaxFailures /\ windows \in BOOLEAN
  /\ authored \in 0 .. MaxUserHooks /\ mistaken \in BOOLEAN

InstallInit ==
  /\ hookFile = [h \in Hooks |-> <<"none">>]
  /\ executable = {}
  /\ backups = [b \in Hooks \X (1 .. MaxRuns) |-> <<"none">>]
  /\ installer = [at |-> "idle", hook |-> 1]
  /\ exitStatus = "none"
  /\ runs = 0 /\ failures = 0
  /\ windows \in BOOLEAN
  /\ authored = 0 /\ mistaken = FALSE

hook == plan[installer.hook]
AtStep(step) == installer.at = step
Continues(step) == installer' = [installer EXCEPT !.at = step] /\ UNCHANGED exitStatus
Exits(code) == installer' = [at |-> "idle", hook |-> 1] /\ exitStatus' = code

\* The user writes a hook where the installer's is, or none: git runs it if it is executable.
UserWrites(h) ==
  /\ AtStep("idle") /\ authored < MaxUserHooks
  /\ hookFile[h] \notin UserHooks
  /\ hookFile' = [hookFile EXCEPT ![h] = <<"user", authored + 1>>]
  /\ executable' = executable \cup {h}
  /\ authored' = authored + 1
  /\ UNCHANGED <<backups, installer, exitStatus, runs, failures, windows, mistaken>>

Run ==
  /\ AtStep("idle") /\ runs < MaxRuns
  /\ runs' = runs + 1
  /\ installer' = [at |-> "stat", hook |-> 1] /\ exitStatus' = "none"
  /\ UNCHANGED <<hookFile, executable, backups, failures, windows, authored, mistaken>>

\* The installer is done with a hook: on to the next one of the plan, or exit code 0.
HookDone == IF installer.hook = Len(plan) THEN Exits("0")
            ELSE installer' = [at |-> "stat", hook |-> installer.hook + 1] /\ UNCHANGED exitStatus

\* stat() reads the file: one that cannot be read is taken for one that is not there.
StatHook ==
  /\ AtStep("stat")
  /\ \/ /\ Continues(IF hookFile[hook] = <<"none">> THEN "write" ELSE "read")
        /\ UNCHANGED <<failures, mistaken>>
     \/ /\ hookFile[hook] # <<"none">> /\ failures < MaxFailures /\ failures' = failures + 1
        /\ mistaken' = TRUE
        /\ Continues("write")
  /\ UNCHANGED <<hookFile, executable, backups, runs, windows, authored>>

ReadHook ==
  /\ AtStep("read")
  /\ Continues(IF hookFile[hook] = <<"shim">> THEN "write" ELSE "rename")
  /\ UNCHANGED <<hookFile, executable, backups, runs, failures, windows, authored, mistaken>>

RenameHook ==
  /\ AtStep("rename")
  /\ backups' = [backups EXCEPT ![<<hook, runs>>] = hookFile[hook]]
  /\ hookFile' = [hookFile EXCEPT ![hook] = <<"none">>]
  /\ executable' = executable \ {hook}
  /\ Continues("write")
  /\ UNCHANGED <<runs, failures, windows, authored, mistaken>>

\* writeFile() truncates the file, or creates one that is not executable, and then writes it.
OpenHook ==
  /\ AtStep("write")
  /\ hookFile' = [hookFile EXCEPT ![hook] = <<"torn">>]
  /\ Continues("writing")
  /\ UNCHANGED <<executable, backups, runs, failures, windows, authored, mistaken>>

WriteHook ==
  /\ AtStep("writing")
  /\ hookFile' = [hookFile EXCEPT ![hook] = <<"shim">>]
  /\ IF windows THEN HookDone ELSE Continues("chmod")
  /\ UNCHANGED <<executable, backups, runs, failures, windows, authored, mistaken>>

ChmodHook ==
  /\ AtStep("chmod")
  /\ executable' = executable \cup {hook}
  /\ HookDone
  /\ UNCHANGED <<hookFile, backups, runs, failures, windows, authored, mistaken>>

\* A step that fails ends the run with code 1, and what is done stays done.
InstallFails ==
  /\ installer.at \in {"read", "rename", "write", "writing", "chmod"}
  /\ failures < MaxFailures /\ failures' = failures + 1
  /\ Exits("1")
  /\ UNCHANGED <<hookFile, executable, backups, runs, windows, authored, mistaken>>

InstallerKilled ==
  /\ installer.at # "idle"
  /\ Exits("none")
  /\ UNCHANGED <<hookFile, executable, backups, runs, failures, windows, authored, mistaken>>

InstallNext ==
  \/ Run \/ StatHook \/ ReadHook \/ RenameHook \/ OpenHook \/ WriteHook \/ ChmodHook
  \/ InstallFails \/ InstallerKilled
  \/ \E h \in Hooks : UserWrites(h)

-----------------------------------------------------------------------------
\* A hook of the user is never lost, whatever fails and however often the installer runs: it is
\* where it was, or in a backup.  (A file that cannot be read and yet be written is taken for none.)
UserHooksKept ==
  ~mistaken =>
    \A k \in 1 .. authored : \/ \E h \in Hooks : hookFile[h] = <<"user", k>>
                             \/ \E b \in DOMAIN backups : backups[b] = <<"user", k>>

\* A run that reports success has left both shims whole and, where that matters, executable,
\* whatever earlier runs had left behind.
SuccessMeansInstalled ==
  exitStatus = "0" =>
    \A h \in Hooks : hookFile[h] \in {<<"shim">>} \cup UserHooks /\ (windows \/ h \in executable)
=============================================================================
