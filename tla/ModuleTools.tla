---------------------------- MODULE ModuleTools ----------------------------
(***************************************************************************)
(* modules.check_compatibility: it finds a module by scanning addons/, and *)
(* compares the core version it asks for with the last tag of git.  The    *)
(* version is looked up once: resolveCoreVersionFromGit() keeps the        *)
(* promise, so calls made meanwhile wait for the same git process, and     *)
(* forgets it when git fails.  Modules and tags may change at any time.    *)
(*                                                                         *)
(* A version is the sequence of its numbers, with or without a suffix      *)
(* (-rc1, +build); <<>> stands for a text that is no version.              *)
(***************************************************************************)
EXTENDS Integers, Sequences, SequencesExt, FiniteSets

CONSTANTS
  Dirs,           \* directories in addons/, in the order of their names
  ModuleDirs,     \* those called forgekit_<something> but not forgekit_core
  ModuleIds,
  Versions,       \* of the core, and asked for by modules: [nums, suffix]
  MaxChecks,      \* bound: calls
  MaxChanges      \* bound: changes of addons/ and of the tags

Checks == 1 .. MaxChecks
Absent == [id |-> "absent"]
NoVersion == [nums |-> <<>>, suffix |-> FALSE]

ASSUME ModuleToolsAssumption ==
  /\ MaxChecks \in Nat /\ MaxChanges \in Nat
  /\ ModuleDirs \subseteq ToSet(Dirs) /\ ModuleIds # {}
  /\ NoVersion \in Versions /\ Versions \subseteq [nums : Seq(Nat), suffix : BOOLEAN]

VARIABLES
  manifests,      \* what each directory holds: a manifest, or Absent
  tag,            \* the version git describes; when there is none git fails
  changes,
  checks,         \* of each call: [at, id, min, git]
  cache,          \* of core_version.ts: whether it is empty, a promise, or a version
  gits,           \* git processes running
  tags,           \* history: every version git could have described so far
  verdict         \* of each call: "none", "error", or the result

moduleVars == <<manifests, tag, changes, checks, cache, gits, tags, verdict>>

Manifest == [id : ModuleIds, min : Versions]
Check    == [at : {"idle", "scan", "resolve", "wait", "done"}, id : ModuleIds, min : Versions]

ModuleToolsTypeOK ==
  /\ manifests \in [ToSet(Dirs) -> Manifest \cup {Absent}]
  /\ tag \in Versions /\ tags \subseteq Versions
  /\ changes \in 0 .. MaxChanges
  /\ checks \in [Checks -> Check]
  /\ cache \in [state : {"empty", "pending", "kept"}, version : Versions]
  /\ gits \subseteq Checks
  /\ \A c \in Checks : verdict[c].kind \in {"none", "error", "result"}

NoVerdict == [kind |-> "none"]
NoEntry     == [state |-> "empty", version |-> NoVersion]
Promised   == [state |-> "pending", version |-> NoVersion]
Kept(v)   == [state |-> "kept", version |-> v]

ModuleToolsInit ==
  /\ manifests \in [ToSet(Dirs) -> Manifest \cup {Absent}]
  /\ tag \in Versions /\ tags = {tag}
  /\ changes = 0
  /\ checks = [c \in Checks |-> [at |-> "idle", id |-> CHOOSE i \in ModuleIds : TRUE, min |-> NoVersion]]
  /\ cache = NoEntry /\ gits = {}
  /\ verdict = [c \in Checks |-> NoVerdict]

\* A module is installed or removed; a version is released.
InstallModule(d, m) ==
  /\ changes < MaxChanges
  /\ manifests' = [manifests EXCEPT ![d] = m]
  /\ changes' = changes + 1
  /\ UNCHANGED <<tag, checks, cache, gits, tags, verdict>>

Release(v) ==
  /\ changes < MaxChanges
  /\ tag' = v /\ tags' = tags \cup {v}
  /\ changes' = changes + 1
  /\ UNCHANGED <<manifests, checks, cache, gits, verdict>>

-----------------------------------------------------------------------------
\* scanModules(): where in Dirs the modules with a manifest are, and those that have the id.
scanModules == {k \in DOMAIN Dirs : Dirs[k] \in ModuleDirs /\ manifests[Dirs[k]] # Absent}
find(id)    == {k \in scanModules : manifests[Dirs[k]].id = id}

\* parseSemver(): three numbers, whatever the suffix; compareSemver() goes from left to right.
parseSemver(v) == IF Len(v.nums) = 3 THEN v.nums ELSE <<>>
compareSemver(a, b) ==
  LET differs == {i \in 1 .. 3 : a[i] # b[i]}
      first   == CHOOSE i \in differs : \A j \in differs : i <= j
  IN  IF differs = {} THEN 0 ELSE IF a[first] < b[first] THEN -1 ELSE 1

compatible_Newer(core, min) ==
  /\ parseSemver(min) # <<>> /\ parseSemver(core) # <<>>
  /\ compareSemver(parseSemver(core), parseSemver(min)) > 0

compatible(core, min) ==
  /\ parseSemver(min) # <<>> /\ parseSemver(core) # <<>>
  /\ compareSemver(parseSemver(core), parseSemver(min)) >= 0

Verdict(c, core) == [kind |-> "result", core |-> core, min |-> checks[c].min,
                    compatible |-> compatible(core, checks[c].min)]

CheckEnds(c, v) ==
  /\ checks' = [checks EXCEPT ![c].at = "done"]
  /\ verdict' = [verdict EXCEPT ![c] = v]

\* checkCompatibility() of module id
StartCheck(c, id) ==
  /\ checks[c].at = "idle"
  /\ checks' = [checks EXCEPT ![c] = [@ EXCEPT !.at = "scan", !.id = id]]
  /\ UNCHANGED <<manifests, tag, changes, cache, gits, tags, verdict>>

Scanned(c) ==
  /\ checks[c].at = "scan"
  /\ \/ find(checks[c].id) = {} /\ CheckEnds(c, [kind |-> "error"])       \* MODULE_NOT_FOUND
     \/ \E k \in find(checks[c].id) :                                     \* the first one
          /\ \A j \in find(checks[c].id) : k <= j
          /\ checks' = [checks EXCEPT ![c].at = "resolve", ![c].min = manifests[Dirs[k]].min]
          /\ UNCHANGED verdict
  /\ UNCHANGED <<manifests, tag, changes, cache, gits, tags>>

\* resolveCoreVersionFromGit(): the version in the cache, the promise there, or a new process.
Resolve(c) ==
  /\ checks[c].at = "resolve"
  /\ \/ /\ cache.state = "kept"
        /\ CheckEnds(c, Verdict(c, cache.version)) /\ UNCHANGED <<cache, gits>>
     \/ /\ cache.state # "kept"
        /\ checks' = [checks EXCEPT ![c].at = "wait"]
        /\ gits' = IF cache = NoEntry THEN gits \cup {c} ELSE gits
        /\ cache' = Promised
        /\ UNCHANGED verdict
  /\ UNCHANGED <<manifests, tag, changes, tags>>

\* git describe ends well, in front of everybody who waits for the promise.
Waiting == {c \in Checks : checks[c].at = "wait"}
SettleAll(ends) ==
  /\ checks' = [c \in Checks |-> IF c \in Waiting THEN [checks[c] EXCEPT !.at = "done"] ELSE checks[c]]
  /\ verdict' = [c \in Checks |-> IF c \in Waiting THEN ends[c] ELSE verdict[c]]

GitDescribes(c) ==
  /\ c \in gits
  /\ gits' = gits \ {c}
  /\ cache' = Kept(tag)
  /\ SettleAll([w \in Waiting |-> Verdict(w, tag)])
  /\ UNCHANGED <<manifests, tag, changes, tags>>

\* It fails, prints nothing, or cannot be started: CORE_VERSION_UNAVAILABLE, and the entry is deleted.
GitFails(c) ==
  /\ c \in gits
  /\ gits' = gits \ {c}
  /\ cache' = NoEntry
  /\ SettleAll([w \in Waiting |-> [kind |-> "error"]])
  /\ UNCHANGED <<manifests, tag, changes, tags>>

ModuleToolsNext ==
  \/ \E d \in ToSet(Dirs), m \in Manifest \cup {Absent} : InstallModule(d, m)
  \/ \E v \in Versions : Release(v)
  \/ \E c \in Checks, id \in ModuleIds : StartCheck(c, id)
  \/ \E c \in Checks : Scanned(c) \/ Resolve(c) \/ GitDescribes(c) \/ GitFails(c)

-----------------------------------------------------------------------------
\* However many calls come in at once, one git process works for all of them, and nobody waits
\* for a process that has ended.
OneGit == Cardinality(gits) <= 1 /\ (Waiting # {} => gits # {}) /\ (cache = Promised <=> gits # {})

\* A verdict is right about the versions it names: the core is not earlier, by the first number
\* in which they differ, than what the module asks for.  The installed version was one git
\* described at some time, but need not be the latest: it is never looked up again.
Earlier(a, b) ==
  \/ a[1] < b[1]
  \/ a[1] = b[1] /\ a[2] < b[2]
  \/ a[1] = b[1] /\ a[2] = b[2] /\ a[3] < b[3]
VerdictTrue ==
  \A c \in Checks : verdict[c].kind = "result" =>
    LET r == verdict[c] IN
      /\ r.core \in tags
      /\ r.compatible <=> (Len(r.min.nums) = 3 /\ Len(r.core.nums) = 3 /\ ~Earlier(r.core.nums, r.min.nums))

\* Both: a check that is made is answered once, and rightly.
CompatibilityTold == OneGit /\ VerdictTrue
=============================================================================
