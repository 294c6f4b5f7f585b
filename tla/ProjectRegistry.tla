-------------------------- MODULE ProjectRegistry --------------------------
(***************************************************************************)
(* The registry of Godot projects (ProjectRegistry) over its file          *)
(* (FileSystemWorkspacesPersistence), called by the tools project.add,     *)
(* project.remove and project.switch, with crashes and restarts of the MCP *)
(* server.                                                                 *)
(*                                                                         *)
(* A mutation changes the Map in one piece of synchronous code and then    *)
(* awaits the write of a snapshot taken there; register() awaits file      *)
(* system checks first.  Several mutations may be in flight: tool calls    *)
(* are handled concurrently.  Writes go through temporary files of their   *)
(* own, so an unfinished write leaves nothing that is read: only the       *)
(* rename counts, and renames of different writes may happen in any order. *)
(*                                                                         *)
(* The Map is a sequence, in its iteration order.  Ids are numbers in the  *)
(* order in which list() sorts them.  Labels are left out.                 *)
(***************************************************************************)
EXTENDS Naturals, Sequences, FiniteSets, SequencesExt, Ascending

CONSTANTS
  Callers,        \* tool handlers that may run at the same time
  MaxId,          \* bound: workspace ids
  Roots,          \* project roots
  Times,          \* values of the clock: equal and decreasing times occur
  MAX_WORKSPACES

ASSUME RegistryAssumption ==
  /\ MaxId \in Nat \ {0}
  /\ Times \subseteq Nat
  /\ MAX_WORKSPACES \in Nat

Ids  == 1 .. MaxId
None == 0                   \* null

Workspace == [id : Ids, root : Roots, at : Times, active : BOOLEAN]
Snapshots == [active : Ids \cup {None}, list : Seq(Workspace)]
NoFile    == [active |-> None, list |-> <<>>]     \* read back as an empty registry

VARIABLES
  workspaces, activeId, \* the fields of the registry
  stage,                \* of each caller: "idle", "check", "write" or "renamed"
  args,                 \* what each caller mutates: its id, its root unless it removes, and
                        \* whether setActive() follows (make_active of project.add)
  snapshot,             \* what each caller's flush() writes
  disk,                 \* the content of workspaces.json
  running,              \* the server runs
  disturbed             \* history: since the server started, mutations overlapped, a write
                        \* failed or the file could not be read

NoCall == [id |-> 1, root |-> None, activate |-> FALSE]     \* the arguments of a caller that is idle
memory == <<workspaces, activeId>>
vars == <<memory, stage, args, snapshot, disk, running, disturbed>>

\* The file holds what list() returns.
Sorted(list) == \A j, k \in DOMAIN list : j < k => list[j].id < list[k].id

TypeOK ==
  /\ workspaces \in Seq(Workspace)
  /\ activeId \in Ids \cup {None}
  /\ stage \in [Callers -> {"idle", "check", "write", "renamed"}]
  /\ args \in [Callers -> [id : Ids, root : Roots \cup {None}, activate : BOOLEAN]]
  /\ snapshot \in [Callers -> Snapshots]
  /\ disk \in Snapshots /\ Sorted(disk.list)
  /\ running \in BOOLEAN
  /\ disturbed \in BOOLEAN

Init ==
  /\ workspaces = <<>> /\ activeId = None
  /\ stage = [c \in Callers |-> "idle"]
  /\ args = [c \in Callers |-> NoCall]
  /\ snapshot = [c \in Callers |-> NoFile]
  /\ disk = NoFile
  /\ running = TRUE
  /\ disturbed = FALSE

IdsOf(list)  == {w.id : w \in ToSet(list)}
Entry(list, i) == CHOOSE w \in ToSet(list) : w.id = i

\* serialize(): the list is sorted by id.
Serialize_InMapOrder(list, active) == [active |-> active, list |-> list]

Serialize(list, active) ==
  LET ids == Ascending(IdsOf(list))
  IN  [active |-> active, list |-> [k \in DOMAIN ids |-> Entry(list, ids[k])]]

-----------------------------------------------------------------------------
(* flush(): the snapshot is taken at once, the write completes later.      *)

StartFlush_BeforeTheChange(c) ==
  /\ stage' = [stage EXCEPT ![c] = "write"]
  /\ snapshot' = [snapshot EXCEPT ![c] = Serialize(workspaces, activeId)]

StartFlush(c) ==
  /\ stage' = [stage EXCEPT ![c] = "write"]
  /\ snapshot' = [snapshot EXCEPT ![c] = Serialize(workspaces', activeId')]

Begins(c, i, root, activate) ==
  /\ args' = [args EXCEPT ![c] = [id |-> i, root |-> root, activate |-> activate]]
  /\ disturbed' = (disturbed \/ \E d \in Callers \ {c} : stage[d] # "idle")

Returns(c) ==
  /\ stage' = [stage EXCEPT ![c] = "idle"]
  /\ args' = [args EXCEPT ![c] = NoCall]
  /\ snapshot' = [snapshot EXCEPT ![c] = NoFile]

Elsewhere == UNCHANGED <<disk, running>>

-----------------------------------------------------------------------------
(* register(): the checks of the project root are awaited.                 *)

Register(c, i, root, activate) ==
  /\ running /\ stage[c] = "idle"
  /\ Begins(c, i, root, activate)
  /\ stage' = [stage EXCEPT ![c] = "check"]
  /\ UNCHANGED <<memory, snapshot>> /\ Elsewhere

Known(i) == i \in IdsOf(workspaces)

\* ProjectRootAlreadyRegisteredError and WorkspaceLimitExceededError.
MayAdd_BelowOrAtLimit(root) ==
  /\ \A w \in ToSet(workspaces) : w.root # root
  /\ Len(workspaces) <= MAX_WORKSPACES

MayAdd(root) ==
  /\ \A w \in ToSet(workspaces) : w.root # root
  /\ Len(workspaces) < MAX_WORKSPACES

\* setActive(), up to the await.
Activate(c, i) ==
  /\ workspaces' = [k \in DOMAIN workspaces |->
                      [workspaces[k] EXCEPT !.active = (workspaces[k].id = i)]]
  /\ activeId' = i
  /\ StartFlush(c)

\* The mutation returns; addWorkspace() goes on with setActive() if asked to, which
\* throws if the workspace has been removed in the meantime.
Continues(c) ==
  \/ /\ args[c].activate /\ Known(args[c].id)
     /\ Activate(c, args[c].id)
     /\ args' = [args EXCEPT ![c].activate = FALSE]
  \/ /\ args[c].activate => ~Known(args[c].id)
     /\ Returns(c)
     /\ UNCHANGED memory

\* The same id, root and label again: the entry is returned, nothing is written.
RegisterAgain(c) ==
  /\ running /\ stage[c] = "check"
  /\ Known(args[c].id) /\ Entry(workspaces, args[c].id).root = args[c].root
  /\ Continues(c)
  /\ UNCHANGED disturbed /\ Elsewhere

\* A check fails: no such directory, no project.godot, a root in use, the limit, or the
\* id with another root or label.
RegisterRefused(c) ==
  /\ running /\ stage[c] = "check"
  /\ Returns(c)
  /\ UNCHANGED <<memory, disturbed>> /\ Elsewhere

RegisterAdds(c) ==
  /\ running /\ stage[c] = "check"
  /\ ~Known(args[c].id) /\ MayAdd(args[c].root)
  /\ \E t \in Times :
       workspaces' = Append(workspaces,
         [id |-> args[c].id, root |-> args[c].root, at |-> t, active |-> activeId = None])
  /\ activeId' = IF activeId = None THEN args[c].id ELSE activeId
  /\ StartFlush(c)
  /\ UNCHANGED <<args, disturbed>> /\ Elsewhere

-----------------------------------------------------------------------------
(* unregister() and setActive().                                           *)

\* pickNewestActiveCandidate(): the first of those registered last.
Newest(list) ==
  IF list = <<>> THEN None
  ELSE LET latest == {k \in DOMAIN list : \A j \in DOMAIN list : list[j].at <= list[k].at}
       IN  list[CHOOSE k \in latest : \A j \in latest : k <= j].id

\* The remaining entries when `i' has become active.
Promote_FlagForgotten(list, i) == list
Promote(list, i) ==
  [k \in DOMAIN list |-> IF list[k].id = i THEN [list[k] EXCEPT !.active = TRUE] ELSE list[k]]

\* delete() of the Map.
Without(list, i) == RemoveAt(list, CHOOSE k \in DOMAIN list : list[k].id = i)

Unregister(c, i) ==
  /\ running /\ stage[c] = "idle"
  /\ Known(i)
  /\ LET rest == Without(workspaces, i)
         next == IF activeId = i THEN Newest(rest) ELSE activeId IN
     /\ workspaces' = IF activeId = i THEN Promote(rest, next) ELSE rest
     /\ activeId' = next
  /\ Begins(c, i, None, FALSE)
  /\ StartFlush(c)
  /\ Elsewhere

SetActive(c, i) ==
  /\ running /\ stage[c] = "idle"
  /\ Known(i)
  /\ Begins(c, i, Entry(workspaces, i).root, FALSE)
  /\ Activate(c, i)
  /\ Elsewhere

-----------------------------------------------------------------------------
(* The write completes: rename(), then the promise resolves.               *)

Rename(c) ==
  /\ running /\ stage[c] = "write"
  /\ disk' = snapshot[c]
  /\ stage' = [stage EXCEPT ![c] = "renamed"]
  /\ snapshot' = [snapshot EXCEPT ![c] = NoFile]
  /\ UNCHANGED <<memory, args, running, disturbed>>

Resolve(c) ==
  /\ running /\ stage[c] = "renamed"
  /\ Continues(c)
  /\ UNCHANGED disturbed /\ Elsewhere

\* writeFile() or rename() fails: the mutation throws, the Map keeps the change.
WriteFails(c) ==
  /\ running /\ stage[c] = "write"
  /\ disturbed' = TRUE
  /\ Returns(c)
  /\ UNCHANGED memory /\ Elsewhere

Crash ==
  /\ running
  /\ running' = FALSE
  /\ workspaces' = <<>> /\ activeId' = None
  /\ stage' = [c \in Callers |-> "idle"]
  /\ args' = [c \in Callers |-> NoCall]
  /\ snapshot' = [c \in Callers |-> NoFile]
  /\ UNCHANGED <<disk, disturbed>>

\* fromDisk(): hydrate() takes the snapshot as it is.
Restart ==
  /\ ~running
  /\ running' = TRUE
  /\ workspaces' = disk.list /\ activeId' = disk.active
  /\ disturbed' = FALSE
  /\ UNCHANGED <<stage, args, snapshot, disk>>

\* read() fails for another reason than a missing file: the registry starts empty,
\* and its next flush() replaces the file.
RestartUnread ==
  /\ ~running
  /\ running' = TRUE
  /\ workspaces' = <<>> /\ activeId' = None
  /\ disturbed' = TRUE
  /\ UNCHANGED <<stage, args, snapshot, disk>>

-----------------------------------------------------------------------------
Call(c) == \E i \in Ids : \/ \E root \in Roots, activate \in BOOLEAN : Register(c, i, root, activate)
                          \/ Unregister(c, i)
                          \/ SetActive(c, i)
Continue(c) == \/ RegisterAgain(c) \/ RegisterRefused(c) \/ RegisterAdds(c)
               \/ Rename(c) \/ Resolve(c) \/ WriteFails(c)

Next == \/ \E c \in Callers : Call(c) \/ Continue(c)
        \/ Crash
        \/ Restart \/ RestartUnread

Spec == Init /\ [][Next]_vars

-----------------------------------------------------------------------------
(* Properties.                                                             *)

Unique(list) == \A j, k \in DOMAIN list :
                  list[j].id = list[k].id \/ list[j].root = list[k].root => j = k

ActiveAgrees(list, active) ==
  /\ IF list = <<>> THEN active = None ELSE active \in IdsOf(list)
  /\ \A w \in ToSet(list) : w.active <=> w.id = active

\* However calls, removals and restarts interleave, the registry has exactly one
\* active workspace unless it is empty, and the flag of each workspace agrees with
\* active_workspace_id, in memory and in whatever a crash leaves on disk.
OneActive ==
  /\ running => ActiveAgrees(workspaces, activeId)
  /\ ActiveAgrees(disk.list, disk.active)

\* Calls of register() that overlap in their file system checks never add an id or a
\* project root twice, nor exceed the limit.
NoDuplicates == Unique(workspaces) /\ Len(workspaces) <= MAX_WORKSPACES /\ Unique(disk.list)

\* As long as mutations are made one after the other and the file can be read and
\* written, a mutation that has returned is in the file: a crash then loses nothing.
DurableInTurn ==
  running /\ ~disturbed /\ (\A c \in Callers : stage[c] = "idle")
    => disk = Serialize(workspaces, activeId)

\* A mutation that returns is in the file, unless another one has undone it since
\* ("callers can await the mutation and trust that a crash after the return will not
\* lose the change"): false in the code when writes overlap, see the README.
DurableReturn ==
  [][\A c \in Callers :
       Resolve(c) /\ args[c].root # None /\ Known(args[c].id)
         => args[c].id \in IdsOf(disk.list)]_vars
=============================================================================
