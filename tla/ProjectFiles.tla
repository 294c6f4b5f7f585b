---------------------------- MODULE ProjectFiles ----------------------------
(***************************************************************************)
(* One file of the project that several calls read, change and write at    *)
(* the same time: project.godot, .forgekit/modules_state.json or           *)
(* mcp_active_port.json.  Every call reads the whole file, sets one key    *)
(* (named like the call) and writes the whole file, by the discipline of   *)
(* the function it runs:                                                   *)
(*   updateSettings      a temporary file named after the process          *)
(*   setEnabled          the same, without clean-up                        *)
(*   writeActivePort     a temporary file with a random name               *)
(*   runtime, editor     the Godot side: one fixed temporary name, and the *)
(*                       file itself                                       *)
(* A path names an inode and an open file keeps its inode when the path is *)
(* renamed.  A process may die between any two steps.                      *)
(***************************************************************************)
EXTENDS Naturals, FiniteSets

CONSTANTS
  Writers,        \* the calls
  Processes,
  MaxIoErrors     \* bound: system calls that fail

Role == {"updateSettings", "setEnabled", "writeActivePort", "runtime", "editor"}
Files == {{"updateSettings"}, {"setEnabled"}, {"writeActivePort", "runtime", "editor"}}
NoFile == "none"
Original == "original"
Target == "target"

ASSUME ProjectFilesAssumption ==
  /\ MaxIoErrors \in Nat
  /\ {NoFile, Original} \cap Writers = {}
  /\ Target \notin Processes \cup Writers

VARIABLES
  role, process,  \* of each call
  paths,          \* the inode of each path, or NoFile
  inodes,         \* what each inode holds
  step,           \* of each call: where it is
  seen,           \* of each call: the keys it will write
  open,           \* of each call: the inode it writes to
  ioErrors,
  shared,         \* history: two calls had the same temporary file at the same time
  overlap         \* history: a call began before another had ended

fileVars == <<role, process, paths, inodes, step, seen, open, ioErrors, shared, overlap>>

temp_InPlace(w) == Target
temp(w) ==
  CASE role[w] \in {"updateSettings", "setEnabled"} -> process[w]
    [] role[w] = "writeActivePort" -> w
    [] role[w] = "runtime" -> "tmp"
    [] role[w] = "editor" -> Target
Paths  == {Target, "tmp"} \cup Processes \cup Writers
Inodes == Writers \cup {Original}

\* A file is empty from the moment it is opened for writing until it is written.  "mixed" is
\* what is left when two writes of different length hit the same inode.
EmptyFile    == [status |-> "empty", keys |-> {}]
MixedFile    == [status |-> "mixed", keys |-> {}]
WholeFile(k) == [status |-> "whole", keys |-> k]
FileKeys     == Writers \cup {Original}

Running(w) == step[w] \notin {"idle", "done", "failed", "dead"}
Holds(w)   == step[w] \in {"opened", "written"}
target     == IF paths[Target] = NoFile THEN WholeFile({}) ELSE inodes[paths[Target]]

FilesTypeOK ==
  /\ role \in [Writers -> Role] /\ process \in [Writers -> Processes]
  /\ paths \in [Paths -> Inodes \cup {NoFile}]
  /\ inodes \in [Inodes -> [status : {"empty", "mixed", "whole"}, keys : SUBSET FileKeys]]
  /\ step \in [Writers -> {"idle", "read", "opened", "written", "unlink", "done", "failed", "dead"}]
  /\ seen \in [Writers -> SUBSET FileKeys]
  /\ open \in [Writers -> Inodes \cup {NoFile}]
  /\ ioErrors \in 0 .. MaxIoErrors
  /\ shared \in BOOLEAN /\ overlap \in BOOLEAN

FilesInit ==
  /\ role \in UNION {[Writers -> f] : f \in Files}
  /\ process \in [Writers -> Processes]
  /\ paths = [p \in Paths |-> IF p = Target THEN Original ELSE NoFile]
  /\ inodes = [i \in Inodes |-> IF i = Original THEN WholeFile({Original}) ELSE EmptyFile]
  /\ step = [w \in Writers |-> "idle"]
  /\ seen = [w \in Writers |-> {}]
  /\ open = [w \in Writers |-> NoFile]
  /\ ioErrors = 0
  /\ shared = FALSE /\ overlap = FALSE

-----------------------------------------------------------------------------
FileStep(w, s) == step' = [step EXCEPT ![w] = s]

IoFails  == ioErrors < MaxIoErrors /\ ioErrors' = ioErrors + 1

\* Dead processes make no call, and the steps of a call in Godot are one after the other.
Alive(w) == \A v \in Writers : process[v] = process[w] => step[v] # "dead"
InTurn(w) == role[w] \in {"runtime", "editor"} =>
               \A v \in Writers \ {w} : process[v] = process[w] => ~Running(v)

\* What the call makes of the text it has read: updateSettings() refuses a file it cannot
\* parse, but an empty one has no sections; everybody else starts over.
Understood(w) == role[w] = "updateSettings" => target.status # "mixed"

\* updateSettings() has nothing to do when the value is there already.
Unchanged(w) == role[w] = "updateSettings" /\ w \in target.keys

\* The call begins: the file is read.
ReadTarget(w) ==
  /\ step[w] = "idle" /\ Alive(w) /\ InTurn(w)
  /\ overlap' = (overlap \/ \E v \in Writers \ {w} : Running(v))
  /\ \/ /\ Understood(w) /\ ~Unchanged(w)
        /\ seen' = [seen EXCEPT ![w] = target.keys \cup {w}]
        /\ FileStep(w, "read") /\ UNCHANGED ioErrors
     \/ Understood(w) /\ Unchanged(w) /\ FileStep(w, "done") /\ UNCHANGED <<seen, ioErrors>>
     \/ ~Understood(w) /\ FileStep(w, "failed") /\ UNCHANGED <<seen, ioErrors>>
     \/ \* readFile() fails: an error, or for the port file an empty one
        /\ IoFails
        /\ IF role[w] \in {"updateSettings", "setEnabled"}
           THEN FileStep(w, "failed") /\ UNCHANGED seen
           ELSE FileStep(w, "read") /\ seen' = [seen EXCEPT ![w] = {w}]
  /\ UNCHANGED <<role, process, paths, inodes, open, shared>>

\* open() for writing: the file is created, or truncated.
OpenTemp(w) ==
  /\ step[w] = "read"
  /\ LET p == temp(w)
         i == IF paths[p] = NoFile THEN w ELSE paths[p]
     IN  /\ paths' = [paths EXCEPT ![p] = i]
         /\ inodes' = [inodes EXCEPT ![i] = EmptyFile]
         /\ open' = [open EXCEPT ![w] = i]
         /\ shared' = (shared \/ \E v \in Writers \ {w} : Holds(v) /\ temp(v) = p)
  /\ FileStep(w, "opened")
  /\ UNCHANGED <<role, process, seen, ioErrors, overlap>>

OpenFails(w) ==
  /\ step[w] = "read" /\ IoFails
  /\ FileStep(w, "failed")
  /\ UNCHANGED <<role, process, paths, inodes, seen, open, shared, overlap>>

\* writeFile()
WriteTemp(w) ==
  /\ step[w] = "opened"
  /\ \E c \in IF inodes[open[w]] = EmptyFile THEN {WholeFile(seen[w])} ELSE {WholeFile(seen[w]), MixedFile} :
       inodes' = [inodes EXCEPT ![open[w]] = c]
  /\ FileStep(w, IF role[w] = "editor" THEN "done" ELSE "written")
  /\ UNCHANGED <<role, process, paths, seen, open, ioErrors, shared, overlap>>

\* Only writeActivePort() and the runtime bridge remove the file after a failed write.
WriteFails(w) ==
  /\ step[w] = "opened" /\ role[w] # "editor" /\ IoFails
  /\ FileStep(w, IF role[w] \in {"writeActivePort", "runtime"} THEN "unlink" ELSE "failed")
  /\ UNCHANGED <<role, process, paths, inodes, seen, open, shared, overlap>>

\* rename() moves whatever the temporary path names now.
RenameTemp(w) ==
  /\ step[w] = "written" /\ paths[temp(w)] # NoFile
  /\ paths' = [paths EXCEPT ![Target] = paths[temp(w)], ![temp(w)] = NoFile]
  /\ FileStep(w, "done")
  /\ UNCHANGED <<role, process, inodes, seen, open, ioErrors, shared, overlap>>

RenameFails(w) ==
  /\ step[w] = "written"
  /\ IF paths[temp(w)] = NoFile THEN UNCHANGED ioErrors ELSE IoFails
  /\ FileStep(w, IF role[w] = "setEnabled" THEN "failed" ELSE "unlink")
  /\ UNCHANGED <<role, process, paths, inodes, seen, open, shared, overlap>>

\* unlink(), whose own failure is ignored; then the error is thrown.
UnlinkTemp(w) ==
  /\ step[w] = "unlink"
  /\ \/ paths' = [paths EXCEPT ![temp(w)] = NoFile] /\ UNCHANGED ioErrors
     \/ IoFails /\ UNCHANGED paths
  /\ FileStep(w, "failed")
  /\ UNCHANGED <<role, process, inodes, seen, open, shared, overlap>>

\* The process dies with all its calls.
ProcessDies(p) ==
  /\ \E w \in Writers : process[w] = p /\ Running(w)
  /\ step' = [w \in Writers |-> IF process[w] = p /\ step[w] \notin {"done", "failed"} THEN "dead" ELSE step[w]]
  /\ UNCHANGED <<role, process, paths, inodes, seen, open, ioErrors, shared, overlap>>

FilesNext ==
  \/ \E w \in Writers : \/ ReadTarget(w) \/ OpenTemp(w) \/ OpenFails(w) \/ WriteTemp(w) \/ WriteFails(w)
                        \/ RenameTemp(w) \/ RenameFails(w) \/ UnlinkTemp(w)
  \/ \E p \in Processes : ProcessDies(p)

FilesSpec == FilesInit /\ [][FilesNext]_fileVars

-----------------------------------------------------------------------------
\* The editor has truncated the file that everybody reads, and has not written it, or died before.
Truncated == \E w \in Writers : role[w] = "editor" /\ step[w] \in {"opened", "dead"} /\ open[w] = paths[Target]

\* As long as no two calls used the same temporary name, or wrote the file in place, at the same
\* time: whatever crashes or fails, a reader finds a whole file, except between the moments at
\* which the editor truncates and writes it, or for good if it dies in between, until the next
\* call replaces it.  What calls of one process do to each other's file is SettingsFileWhole.
ReadersSeeWhole == ~shared => target.status = "whole" \/ Truncated

InPlace == \E w \in Writers : role[w] = "editor" /\ step[w] # "idle"

\* Only of calls that follow each other, and read and wrote without an error: nothing is lost, the
\* file holds what it held at first and the change of every call that succeeded.  Calls that
\* overlap lose updates, a read error that is taken for an empty file loses all the rest, and so
\* does a crash of the editor in the middle of its write.
NothingLostInTurn ==
  (~overlap /\ ioErrors = 0 /\ ~(InPlace /\ \E w \in Writers : step[w] = "dead")
            /\ ~(\E w \in Writers : role[w] = "editor" /\ step[w] = "opened")) =>
    {Original} \cup {w \in Writers : step[w] = "done"} \subseteq target.keys

\* As long as no temporary file was shared: a call that throws has changed nothing.
ErrorChangesNothing ==
  ~shared => \A w \in Writers : step[w] \in {"failed", "unlink"} => w \notin target.keys

\* When all calls have ended and no process died, a temporary file is left only after an error: by
\* setEnabled(), which never removes it, by updateSettings() after a failed write or fsync, which
\* the comment of atomicWriteFile() denies, or by whoever saw a second error, of unlink().
NoOrphans ==
  (\A w \in Writers : step[w] \in {"idle", "done", "failed"}) =>
    \A p \in Paths \ {Target} : paths[p] # NoFile =>
      ioErrors > 0 /\ (ioErrors > 1 \/ \E w \in Writers : role[w] \in {"setEnabled", "updateSettings"})

\* What the writers of a project's files keep of it: of calls that share no temporary file, that
\* readers find the file whole unless the editor has it open, and that a call that fails has changed
\* nothing; of calls in turn and without errors, that nothing is lost; and of all, that temporary
\* files are left only after the errors named.
FilesKept == ReadersSeeWhole /\ ErrorChangesNothing /\ NoOrphans /\ NothingLostInTurn

\* atomicWriteFile() "guarantees the reader either sees the full old contents or the full new
\* contents", also for project.godot of calls of one process: false in the code, since the
\* temporary file is named after the process, see the README.
SettingsFileWhole == (\A w \in Writers : role[w] = "updateSettings") => target.status = "whole"
=============================================================================
