---------------------------- MODULE LicenseWatch ----------------------------
(***************************************************************************)
(* The unlocked modules and the directory of license files they come from: *)
(* loadActiveLicenses() at startup, then watchLicenseDir(), whose listener *)
(* loads the licenses again.  Godot writes and removes the files meanwhile.*)
(*                                                                         *)
(* Directory and files are read one await after the other: a listing, then *)
(* each file of it.  A poll compares the size and the time of modification *)
(* of each file with the last poll ("stamp", 0 when there is no file).     *)
(***************************************************************************)
EXTENDS ToolCatalog, FiniteSets

CONSTANTS
  KeyFiles,       \* module ids of license files
  MaxEdits,       \* bound: writes and removals of license files
  MaxUnread       \* bound: readdir(), stat() and readFile() that fail

ASSUME LicenseAssumption == MaxEdits \in Nat /\ MaxUnread \in Nat /\ "forgekit_rpg" \in KeyFiles

VARIABLES
  keys,           \* on disk: the stamp of each file, and whether it holds a license record
  edits, unread,  \* how many there were
  unlocked,       \* what getUnlockedModules() returns
  snapshot,       \* of the watcher: stamps at the last poll
  poll,           \* "off" before startup, "load" at startup, "first" snapshot, then "timer",
                  \* "scan" and "listen" in a tick; "over" when nothing is left to run
  todo,           \* the files still to be read by the load or scan in progress
  found,          \* what it has found: stamps, or for a load 1 and 0
  closed,         \* close() was called
  missed          \* history: since the last load began, a change the watcher cannot see, or a
                  \* listing or a file that this load could not read

licenseVars == <<keys, edits, unread, unlocked, snapshot, poll, todo, found, closed, missed>>

Stamps  == 0 .. MaxEdits + 1
NoFiles == [f \in KeyFiles |-> 0]
Present == {f \in KeyFiles : keys[f].stamp # 0}

\* The modules that the licenses on disk unlock now.
Licensed == unlockedModulesFromLicenses({f \in Present : keys[f].good})

LicenseTypeOK ==
  /\ keys \in [KeyFiles -> [stamp : Stamps, good : BOOLEAN]]
  /\ edits \in 0 .. MaxEdits /\ unread \in 0 .. MaxUnread
  /\ unlocked \subseteq RpgModules
  /\ snapshot \in [KeyFiles -> Stamps] /\ found \in [KeyFiles -> Stamps]
  /\ poll \in {"off", "load", "first", "timer", "scan", "listen", "over"}
  /\ todo \subseteq KeyFiles
  /\ closed \in BOOLEAN /\ missed \in BOOLEAN

LicenseInit ==
  /\ keys \in [KeyFiles -> [stamp : {0, 1}, good : BOOLEAN]]
  /\ edits = 0 /\ unread = 0
  /\ unlocked = {}
  /\ snapshot = NoFiles /\ found = NoFiles
  /\ poll = "off" /\ todo = {}
  /\ closed = FALSE /\ missed = FALSE

\* Godot, or the user: a file appears, changes or goes.  Its size and time may stay the same.
EditKey(f, stamp, good) ==
  /\ edits < MaxEdits
  /\ stamp \in {0, keys[f].stamp, edits + 2}
  /\ keys' = [keys EXCEPT ![f] = [stamp |-> stamp, good |-> good]]
  /\ edits' = edits + 1
  /\ missed' = (missed \/ stamp \in {keys[f].stamp, snapshot[f]} \/ poll \in {"load", "first"})
  /\ UNCHANGED <<unread, unlocked, snapshot, poll, todo, found, closed>>

-----------------------------------------------------------------------------
\* A passing error of readdir(), stat() or readFile(), which each caller catches.
Fails == unread < MaxUnread /\ unread' = unread + 1

\* readdir(): the files there are, or none when it fails.
Listing ==
  /\ found' = NoFiles
  /\ \/ todo' = Present /\ UNCHANGED unread
     \/ Fails /\ todo' = {}

\* The listing of a load: what was missed before is read now, unless the listing fails.
LoadListing == Listing /\ missed' = (unread' # unread)

\* loadActiveLicenses(), called by the server at startup.
StartLoad ==
  /\ poll = "off"
  /\ poll' = "load"
  /\ LoadListing
  /\ UNCHANGED <<keys, edits, unlocked, snapshot, closed>>

\* stat() and readFile() of one file: an entry that has gone, is malformed or cannot be read is
\* skipped.
ReadKey(f) ==
  /\ poll \in {"load", "listen"} /\ f \in todo
  /\ todo' = todo \ {f}
  /\ \/ /\ found' = [found EXCEPT ![f] = IF f \in Present /\ keys[f].good THEN 1 ELSE 0]
        /\ UNCHANGED <<unread, missed>>
     \/ Fails /\ missed' = TRUE /\ UNCHANGED found
  /\ UNCHANGED <<keys, edits, unlocked, snapshot, poll, closed>>

\* The tick is over, in its finally block: the next timer, unless close() was called.
NextTick == poll' = IF closed THEN "over" ELSE "timer"

\* All files are read: at startup watchLicenseDir() follows, with its first snapshot.
Loaded ==
  /\ poll \in {"load", "listen"} /\ todo = {}
  /\ unlocked' = unlockedModulesFromLicenses({f \in KeyFiles : found[f] = 1})
  /\ IF poll = "load" THEN poll' = "first" /\ Listing
                      ELSE NextTick /\ UNCHANGED <<todo, found, unread>>
  /\ UNCHANGED <<keys, edits, snapshot, closed, missed>>

\* The timer of the poll.
Tick ==
  /\ poll = "timer"
  /\ poll' = "scan"
  /\ Listing
  /\ UNCHANGED <<keys, edits, unlocked, snapshot, closed, missed>>

\* snapshotKeyFiles(): stat() of one file, which is skipped when it fails.
StatKey(f) ==
  /\ poll \in {"first", "scan"} /\ f \in todo
  /\ todo' = todo \ {f}
  /\ \/ found' = [found EXCEPT ![f] = keys[f].stamp] /\ UNCHANGED unread
     \/ Fails /\ UNCHANGED found
  /\ UNCHANGED <<keys, edits, unlocked, snapshot, poll, closed, missed>>

\* snapshotsEqual(): if not, the listener is called, and the tick awaits it.
Compared_ByName ==
  /\ poll \in {"first", "scan"} /\ todo = {}
  /\ snapshot' = found
  /\ LET same == \A f \in KeyFiles : (found[f] = 0) = (snapshot[f] = 0) IN
     \/ (poll = "first" \/ same) /\ NextTick /\ UNCHANGED <<todo, found, unread, missed>>
     \/ poll = "scan" /\ ~same /\ poll' = "listen" /\ LoadListing
  /\ UNCHANGED <<keys, edits, unlocked, closed>>

Compared ==
  /\ poll \in {"first", "scan"} /\ todo = {}
  /\ snapshot' = found
  /\ \/ (poll = "first" \/ found = snapshot) /\ NextTick /\ UNCHANGED <<todo, found, unread, missed>>
     \/ poll = "scan" /\ found # snapshot /\ poll' = "listen" /\ LoadListing
  /\ UNCHANGED <<keys, edits, unlocked, closed>>

\* close(): the timer is cleared; a tick in progress goes on.
CloseWatcher ==
  /\ ~closed /\ poll \in {"timer", "scan", "listen"}
  /\ closed' = TRUE
  /\ poll' = IF poll = "timer" THEN "over" ELSE poll
  /\ UNCHANGED <<keys, edits, unread, unlocked, snapshot, todo, found, missed>>

LicenseStep ==
  \/ StartLoad \/ Loaded \/ Tick \/ Compared
  \/ \E f \in KeyFiles : ReadKey(f) \/ StatKey(f)

LicenseNext ==
  \/ LicenseStep \/ CloseWatcher
  \/ \E f \in KeyFiles, stamp \in Stamps, good \in BOOLEAN : EditKey(f, stamp, good)

-----------------------------------------------------------------------------
\* Changes reach the server: once the files rest, the unlocked modules are those of the files,
\* also when a poll could not read the directory or a file of it.  Five things stay unnoticed, but
\* only until the next change that a poll sees is loaded: a change that left size and time alone;
\* one that put them back to what the last poll saw (a file that came, was loaded because another
\* one changed, and went); one between the load at startup and the end of the first snapshot; a
\* listing that failed in a load; and a file that a load could not read.
LicensesFollow == <>[](closed \/ missed \/ unlocked = Licensed)
=============================================================================
