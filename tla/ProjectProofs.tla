--------------------------- MODULE ProjectProofs ---------------------------
(***************************************************************************)
(* What is proved of Godot projects.  Of their registry, for any callers,  *)
(* ids, roots, clock and limit: its Map and its file are always            *)
(* consistent, and mutations made in turn are durable.  Of the settings in *)
(* a project's own file, for files of any length and any patches: what was *)
(* set is what is read back.                                               *)
(***************************************************************************)
EXTENDS ProjectRegistry, GodotIni, AscendingProofs, FiniteSetTheorems, SequenceTheorems, TLAPS

-----------------------------------------------------------------------------
(* The registry.                                                           *)

\* A Map or a file that makes sense.
Consistent(list, active) ==
  /\ list \in Seq(Workspace) /\ active \in Ids \cup {None}
  /\ Unique(list) /\ Len(list) <= MAX_WORKSPACES
  /\ ActiveAgrees(list, active)

GoodFile(f) == f \in Snapshots /\ Sorted(f.list) /\ Consistent(f.list, f.active)

\* What is in flight while nothing disturbs: one mutation, whose snapshot or whose file holds
\* what is in the Map.
Current == Serialize(workspaces, activeId)
InTurn ==
  running /\ ~disturbed =>
    /\ \A c, d \in Callers : stage[c] # "idle" /\ stage[d] # "idle" => c = d
    /\ \A c \in Callers : stage[c] = "write" => snapshot[c] = Current
    /\ (\A c \in Callers : stage[c] # "write") => disk = Current

\* Only register() checks anything, and it was called with a root.
Checking == \A c \in Callers : stage[c] = "check" => args[c].root \in Roots

RegistryInv ==
  /\ TypeOK /\ Checking
  /\ Consistent(workspaces, activeId)
  /\ GoodFile(disk)
  /\ \A c \in Callers : GoodFile(snapshot[c])
  /\ ~running => \A c \in Callers : stage[c] = "idle"
  /\ InTurn

-----------------------------------------------------------------------------
(* Lists of workspaces.                                                    *)

LEMMA Constants == None \notin Ids /\ Ids = 1 .. MaxId /\ MaxId \in Nat \ {0} /\ MAX_WORKSPACES \in Nat /\ Times \subseteq Nat
  BY RegistryAssumption DEF Ids, None

LEMMA IdsOfList ==
  ASSUME NEW list \in Seq(Workspace)
  PROVE  /\ IdsOf(list) = {list[k].id : k \in DOMAIN list}
         /\ IdsOf(list) \in SUBSET (1 .. MaxId)
         /\ \A k \in DOMAIN list : list[k] \in Workspace /\ list[k].id \in Ids /\ list[k].at \in Nat
<1>1. \A k \in DOMAIN list : list[k] \in Workspace
  OBVIOUS
<1>2. \A k \in DOMAIN list : list[k].id \in Ids /\ list[k].at \in Nat
  BY <1>1, Constants DEF Workspace
<1>3. IdsOf(list) = {list[k].id : k \in DOMAIN list}
  BY DEF IdsOf, ToSet
<1> QED
  BY <1>1, <1>2, <1>3 DEF Ids

\* The entry of an id.
LEMMA EntryIs ==
  ASSUME NEW list \in Seq(Workspace), Unique(list), NEW k \in DOMAIN list
  PROVE  Entry(list, list[k].id) = list[k]
<1>1. list[k] \in ToSet(list)
  BY DEF ToSet
<1>2. \A w \in ToSet(list) : w.id = list[k].id => w = list[k]
  BY DEF ToSet, Unique
<1> QED
  BY <1>1, <1>2 DEF Entry

LEMMA KnownEntry ==
  ASSUME NEW list \in Seq(Workspace), Unique(list), NEW i \in IdsOf(list)
  PROVE  \E k \in DOMAIN list : list[k].id = i /\ Entry(list, i) = list[k]
<1>1. PICK k \in DOMAIN list : list[k].id = i
  BY IdsOfList
<1> QED
  BY <1>1, EntryIs

\* There are not more ids than entries.
LEMMA FewIds ==
  ASSUME NEW list \in Seq(Workspace)
  PROVE  Cardinality(IdsOf(list)) <= Len(list)
<1> DEFINE f == [k \in 1 .. Len(list) |-> list[k].id]
<1>1. f \in Surjection(1 .. Len(list), IdsOf(list))
  <2>1. \A k \in 1 .. Len(list) : f[k] \in IdsOf(list)
    BY IdsOfList
  <2>2. \A x \in IdsOf(list) : \E k \in 1 .. Len(list) : f[k] = x
    BY IdsOfList
  <2> QED
    BY <2>1, <2>2 DEF Surjection
<1>2. ExistsSurjection(1 .. Len(list), IdsOf(list))
  BY <1>1 DEF ExistsSurjection
<1> QED
  BY <1>2, FS_SurjCardinalityBound

\* serialize() writes the entries of the Map, sorted.
LEMMA SerializeSorts ==
  ASSUME NEW list, NEW active, Consistent(list, active)
  PROVE  GoodFile(Serialize(list, active))
<1> DEFINE ids == Ascending(IdsOf(list))
           r == [k \in DOMAIN ids |-> Entry(list, ids[k])]
<1>0. list \in Seq(Workspace) /\ Unique(list) /\ active \in Ids \cup {None}
  BY DEF Consistent
<1>1. Serialize(list, active) = [active |-> active, list |-> r]
  BY DEF Serialize
<1>2. /\ ids \in Seq(IdsOf(list)) /\ Len(ids) = Cardinality(IdsOf(list))
      /\ IsAscending(ids) /\ ToSet(ids) = IdsOf(list)
  BY <1>0, IdsOfList, AscendingEnumerates, Constants
<1> HIDE DEF ids
<1>3. DOMAIN ids = 1 .. Len(ids) /\ Len(ids) \in Nat /\ \A k \in DOMAIN ids : ids[k] \in IdsOf(list)
  BY <1>2
<1>4. \A k \in DOMAIN ids : \E j \in DOMAIN list : r[k] = list[j] /\ r[k].id = ids[k]
  <2> SUFFICES ASSUME NEW k \in DOMAIN ids
               PROVE  \E j \in DOMAIN list : r[k] = list[j] /\ r[k].id = ids[k]
    OBVIOUS
  <2>1. r[k] = Entry(list, ids[k]) /\ ids[k] \in IdsOf(list)
    BY <1>3
  <2> QED
    BY <1>0, <2>1, KnownEntry
<1>5. r \in Seq(Workspace) /\ Len(r) = Len(ids) /\ DOMAIN r = DOMAIN ids
  <2>1. \A k \in DOMAIN ids : r[k] \in Workspace
    BY <1>0, <1>4, IdsOfList
  <2>2. r \in [1 .. Len(ids) -> Workspace]
    BY <1>3, <2>1
  <2> QED
    BY <1>3, <2>2
<1> HIDE DEF r
<1>6. \A k \in DOMAIN ids : ids[k] \in Nat
  BY <1>0, <1>3, IdsOfList
<1>7. Sorted(r)
  BY <1>2, <1>4, <1>5 DEF Sorted, IsAscending
<1>8. \A j, k \in DOMAIN ids : ids[j] = ids[k] => j = k
  BY <1>2, <1>3, <1>6 DEF IsAscending
<1>9. Unique(r)
  <2> SUFFICES ASSUME NEW j \in DOMAIN ids, NEW k \in DOMAIN ids, r[j].id = r[k].id \/ r[j].root = r[k].root
               PROVE  j = k
    BY <1>5 DEF Unique
  <2>1. PICK m \in DOMAIN list, n \in DOMAIN list : r[j] = list[m] /\ r[k] = list[n]
    BY <1>4
  <2>2. m = n
    BY <1>0, <2>1 DEF Unique
  <2> QED
    BY <1>4, <1>8, <2>1, <2>2
<1>10. Len(r) <= MAX_WORKSPACES
  <2>1. Len(r) <= Len(list)
    BY <1>0, <1>2, <1>5, FewIds
  <2>2. Len(list) <= MAX_WORKSPACES /\ Len(list) \in Nat /\ Len(r) \in Nat
    BY <1>0, <1>5 DEF Consistent
  <2> QED
    BY <2>1, <2>2, Constants
<1>11. ActiveAgrees(r, active)
  <2>1. r = <<>> <=> list = <<>>
    <3>1. r = <<>> => IdsOf(list) = {}
      BY <1>2, <1>3, <1>5 DEF ToSet
    <3>2. IdsOf(list) = {} => list = <<>>
      <4>1. DOMAIN list = {} => list = <<>>
        BY <1>0
      <4>2. \A k \in DOMAIN list : list[k].id \in IdsOf(list)
        BY <1>0, IdsOfList
      <4> QED
        BY <4>1, <4>2
    <3>3. list = <<>> => IdsOf(list) = {}
      BY DEF IdsOf, ToSet
    <3>4. IdsOf(list) = {} => r = <<>>
      BY <1>3, <1>5
    <3> QED
      BY <3>1, <3>2, <3>3, <3>4
  <2>2. ToSet(r) \subseteq ToSet(list)
    BY <1>4, <1>5 DEF ToSet
  <2>3. IdsOf(list) \subseteq IdsOf(r)
    <3>1. \A k \in DOMAIN ids : r[k].id = ids[k] /\ r[k].id \in IdsOf(r)
      BY <1>4, <1>5, IdsOfList
    <3>2. \A i \in IdsOf(list) : \E k \in DOMAIN ids : ids[k] = i
      BY <1>2 DEF ToSet
    <3> QED
      BY <3>1, <3>2
  <2> QED
    BY <2>1, <2>2, <2>3 DEF Consistent, ActiveAgrees
<1>12. [active |-> active, list |-> r] \in Snapshots
  BY <1>0, <1>5 DEF Snapshots
<1> QED
  BY <1>0, <1>1, <1>5, <1>7, <1>9, <1>10, <1>11, <1>12 DEF GoodFile, Consistent

\* A file that has been read is written again as it was.
LEMMA SerializeAgain ==
  ASSUME NEW f, GoodFile(f)
  PROVE  Serialize(f.list, f.active) = f
<1> DEFINE list == f.list
           s == [k \in DOMAIN list |-> list[k].id]
<1>0. /\ list \in Seq(Workspace) /\ Unique(list) /\ Sorted(list)
      /\ f \in [active : Ids \cup {None}, list : Seq(Workspace)]
  BY DEF GoodFile, Consistent, Snapshots
<1>1. s \in Seq(1 .. MaxId) /\ DOMAIN s = DOMAIN list
  <2>1. \A k \in DOMAIN list : list[k].id \in Ids
    BY <1>0, IdsOfList
  <2>2. s \in [1 .. Len(list) -> Ids] /\ Len(list) \in Nat /\ DOMAIN list = 1 .. Len(list)
    BY <1>0, <2>1
  <2> HIDE DEF s, list
  <2>3. s \in Seq(Ids)
    BY <2>2
  <2> QED
    BY <2>2, <2>3, Constants
<1>2. IsAscending(s)
  BY <1>0 DEF IsAscending, Sorted
<1>3. ToSet(s) = IdsOf(list)
  BY <1>0, IdsOfList DEF ToSet
<1>4. s = Ascending(IdsOf(list))
  BY <1>1, <1>2, <1>3, AscendingUnique, Constants
<1>5. [k \in DOMAIN s |-> Entry(list, s[k])] = list
  <2>1. \A k \in DOMAIN list : Entry(list, s[k]) = list[k]
    BY <1>0, EntryIs
  <2>2. list = [k \in DOMAIN list |-> list[k]]
    BY <1>0
  <2> QED
    BY <1>1, <2>1, <2>2
<1>6. Serialize(list, f.active) = [active |-> f.active, list |-> list]
  BY <1>4, <1>5 DEF Serialize
<1> QED
  BY <1>0, <1>6

\* Among finitely many numbers there is a greatest.
LEMMA GreatestNumber ==
  ASSUME NEW n \in Nat \ {0}, NEW f, \A k \in 1 .. n : f[k] \in Nat
  PROVE  \E k \in 1 .. n : \A j \in 1 .. n : f[j] <= f[k]
<1> DEFINE Bad == {m \in 1 .. n : ~\E k \in 1 .. m : \A j \in 1 .. m : f[j] <= f[k]}
<1>1. CASE n \notin Bad
  BY <1>1
<1>2. CASE n \in Bad
  <2>0. Bad \in SUBSET Nat /\ Bad # {}
    BY <1>2
  <2>1. PICK m \in Bad : \A i \in Bad : m <= i
    BY <2>0, LeastNatural
  <2>2. m \in 1 .. n /\ ~\E k \in 1 .. m : \A j \in 1 .. m : f[j] <= f[k]
    BY <2>1
  <2>3. CASE m = 1
    <3>1. \A j \in 1 .. 1 : f[j] <= f[1]
      OBVIOUS
    <3> QED
      BY <2>2, <2>3, <3>1
  <2>4. CASE m # 1
    <3>1. m - 1 \in 1 .. n /\ m - 1 \notin Bad
      <4>1. m - 1 \in 1 .. n /\ m - 1 < m
        BY <2>2, <2>4
      <4>2. ~(m <= m - 1)
        BY <2>2
      <4> QED
        BY <2>1, <4>1, <4>2
    <3>2. PICK k \in 1 .. m - 1 : \A j \in 1 .. m - 1 : f[j] <= f[k]
      BY <3>1
    <3>3. /\ k \in 1 .. m /\ m \in 1 .. m /\ f[k] \in Nat /\ f[m] \in Nat
          /\ \A j \in 1 .. m : f[j] \in Nat /\ (j \in 1 .. m - 1 \/ j = m)
      BY <2>2
    <3>4. CASE f[m] <= f[k]
      BY <2>2, <3>2, <3>3, <3>4
    <3>5. CASE ~(f[m] <= f[k])
      <4>1. \A j \in 1 .. m : f[j] <= f[m]
        BY <3>2, <3>3, <3>5
      <4> QED
        BY <2>2, <3>3, <4>1
    <3> QED
      BY <3>4, <3>5
  <2> QED
    BY <2>3, <2>4
<1> QED
  BY <1>1, <1>2

\* pickNewestActiveCandidate() finds an entry if there is one.
LEMMA NewestExists ==
  ASSUME NEW list \in Seq(Workspace)
  PROVE  /\ list = <<>> => Newest(list) = None
         /\ list # <<>> => Newest(list) \in IdsOf(list)
<1>1. CASE list = <<>>
  BY <1>1 DEF Newest
<1>2. CASE list # <<>>
  <2> DEFINE n == Len(list)
             f == [k \in 1 .. n |-> list[k].at]
             latest == {k \in DOMAIN list : \A j \in DOMAIN list : list[j].at <= list[k].at}
  <2>1. n \in Nat \ {0} /\ DOMAIN list = 1 .. n
    BY <1>2
  <2>2. \A k \in 1 .. n : f[k] \in Nat
    BY <2>1, IdsOfList
  <2>3. PICK k \in 1 .. n : \A j \in 1 .. n : f[j] <= f[k]
    BY <2>1, <2>2, GreatestNumber
  <2>4. k \in latest
    BY <2>1, <2>3
  <2>5. latest \in SUBSET Nat /\ latest # {}
    BY <2>1, <2>4
  <2>6. \E m \in latest : \A j \in latest : m <= j
    BY <2>5, LeastNatural
  <2>7. (CHOOSE m \in latest : \A j \in latest : m <= j) \in DOMAIN list
    BY <2>6
  <2>8. Newest(list) = list[CHOOSE m \in latest : \A j \in latest : m <= j].id
    BY <1>2 DEF Newest
  <2> QED
    BY <1>2, <2>7, <2>8, IdsOfList
<1> QED
  BY <1>1, <1>2

\* delete() takes out one entry and keeps the rest.
LEMMA WithoutOne ==
  ASSUME NEW list \in Seq(Workspace), Unique(list), NEW i \in IdsOf(list)
  PROVE  /\ Without(list, i) \in Seq(Workspace)
         /\ Unique(Without(list, i))
         /\ Len(Without(list, i)) <= Len(list)
         /\ \A w \in ToSet(Without(list, i)) : w \in ToSet(list) /\ w.id # i
         /\ \A w \in ToSet(list) : w.id # i => w \in ToSet(Without(list, i))
<1> DEFINE p == CHOOSE k \in DOMAIN list : list[k].id = i
           r == Without(list, i)
           n == Len(list)
<1>1. p \in 1 .. n /\ list[p].id = i /\ n \in Nat /\ DOMAIN list = 1 .. n
  BY IdsOfList
<1>2. r = SubSeq(list, 1, p - 1) \o SubSeq(list, p + 1, n)
  BY DEF Without, RemoveAt
<1> HIDE DEF p, r
<1>3. /\ r \in Seq(Workspace) /\ Len(r) = n - 1
      /\ \A k \in 1 .. n - 1 : r[k] = IF k < p THEN list[k] ELSE list[k + 1]
  <2> DEFINE a == SubSeq(list, 1, p - 1)
             b == SubSeq(list, p + 1, n)
  <2>1. a \in Seq(Workspace) /\ Len(a) = p - 1 /\ \A k \in 1 .. p - 1 : a[k] = list[k]
    BY <1>1
  <2>2. b \in Seq(Workspace) /\ Len(b) = n - p /\ \A k \in 1 .. n - p : b[k] = list[k + p]
    <3>1. \A k \in p + 1 .. n : list[k] \in Workspace
      BY <1>1
    <3>2. /\ b \in Seq(Workspace)
          /\ Len(b) = IF p + 1 <= n THEN n - (p + 1) + 1 ELSE 0
          /\ \A k \in 1 .. n - (p + 1) + 1 : b[k] = list[(p + 1) + k - 1]
      BY <1>1, <3>1, SubSeqProperties
    <3> HIDE DEF b
    <3>3. Len(b) = n - p
      <4>0. p \in Nat /\ n \in Nat /\ p <= n
        BY <1>1
      <4> HIDE DEF n
      <4>1. CASE p = n
        <5>1. ~(p + 1 <= n) /\ n - p = 0
          BY <4>0, <4>1
        <5> QED
          BY <3>2, <5>1
      <4>2. CASE p # n
        <5>1. p + 1 <= n /\ n - (p + 1) + 1 = n - p
          BY <4>0, <4>2
        <5> QED
          BY <3>2, <5>1
      <4> QED
        BY <4>1, <4>2
    <3>4. \A k \in 1 .. n - p : k \in 1 .. n - (p + 1) + 1 /\ (p + 1) + k - 1 = k + p
      BY <1>1
    <3> QED
      BY <3>2, <3>3, <3>4
  <2>3. r = a \o b
    BY <1>2
  <2> HIDE DEF a, b
  <2>4. r \in Seq(Workspace) /\ Len(r) = n - 1
    <3>1. r \in Seq(Workspace) /\ Len(r) = Len(a) + Len(b)
      BY <2>1, <2>2, <2>3, ConcatProperties
    <3> QED
      BY <1>1, <2>1, <2>2, <3>1
  <2>5. \A k \in 1 .. n - 1 : r[k] = IF k < p THEN a[k] ELSE b[k - (p - 1)]
    BY <1>1, <2>1, <2>2, <2>3, ConcatProperties
  <2>6. ASSUME NEW k \in 1 .. n - 1
        PROVE  r[k] = IF k < p THEN list[k] ELSE list[k + 1]
    <3>1. CASE k < p
      <4>1. k \in 1 .. p - 1
        BY <1>1, <3>1
      <4> QED
        BY <2>1, <2>5, <3>1, <4>1
    <3>2. CASE ~(k < p)
      <4>1. k - (p - 1) \in 1 .. n - p /\ (k - (p - 1)) + p = k + 1
        BY <1>1, <3>2
      <4> QED
        BY <2>2, <2>5, <3>2, <4>1
    <3> QED
      BY <3>1, <3>2
  <2> QED
    BY <2>4, <2>6
<1>4. DOMAIN r = 1 .. n - 1
  BY <1>3
<1> DEFINE at(k) == IF k < p THEN k ELSE k + 1
<1>5. \A k \in 1 .. n - 1 : at(k) \in DOMAIN list /\ at(k) # p /\ r[k] = list[at(k)]
  <2> SUFFICES ASSUME NEW k \in 1 .. n - 1
               PROVE  at(k) \in DOMAIN list /\ at(k) # p /\ r[k] = list[at(k)]
    OBVIOUS
  <2>1. CASE k < p
    BY <1>1, <1>3, <2>1
  <2>2. CASE ~(k < p)
    BY <1>1, <1>3, <2>2
  <2> QED
    BY <2>1, <2>2
<1>6. \A j, k \in 1 .. n - 1 : at(j) = at(k) => j = k
  BY <1>1
<1>7. \A m \in DOMAIN list : m # p => \E k \in 1 .. n - 1 : at(k) = m
  <2> SUFFICES ASSUME NEW m \in DOMAIN list, m # p
               PROVE  \E k \in 1 .. n - 1 : at(k) = m
    OBVIOUS
  <2>1. CASE m < p
    <3>1. m \in 1 .. n - 1 /\ at(m) = m
      BY <1>1, <2>1
    <3> QED
      BY <3>1
  <2>2. CASE ~(m < p)
    <3>1. m - 1 \in 1 .. n - 1 /\ at(m - 1) = m
      BY <1>1, <2>2
    <3> QED
      BY <3>1
  <2> QED
    BY <2>1, <2>2
<1> HIDE DEF at
<1>8. Unique(r)
  <2> SUFFICES ASSUME NEW j \in 1 .. n - 1, NEW k \in 1 .. n - 1, r[j].id = r[k].id \/ r[j].root = r[k].root
               PROVE  j = k
    BY <1>4 DEF Unique
  <2>1. at(j) = at(k)
    BY <1>5 DEF Unique
  <2> QED
    BY <1>6, <2>1
<1>9. \A k \in 1 .. n - 1 : r[k] \in ToSet(list) /\ r[k].id # i
  <2> SUFFICES ASSUME NEW k \in 1 .. n - 1
               PROVE  r[k] \in ToSet(list) /\ r[k].id # i
    OBVIOUS
  <2>1. at(k) \in DOMAIN list /\ at(k) # p /\ r[k] = list[at(k)]
    BY <1>5
  <2>2. list[at(k)].id # list[p].id
    BY <1>1, <2>1 DEF Unique
  <2> QED
    BY <1>1, <2>1, <2>2 DEF ToSet
<1>10. \A w \in ToSet(list) : w.id # i => w \in ToSet(r)
  <2> SUFFICES ASSUME NEW m \in DOMAIN list, list[m].id # i
               PROVE  list[m] \in ToSet(r)
    BY DEF ToSet
  <2>1. PICK k \in 1 .. n - 1 : at(k) = m
    BY <1>1, <1>7
  <2>2. r[k] = list[m]
    BY <1>5, <2>1
  <2> QED
    BY <1>4, <2>2 DEF ToSet
<1>11. Len(r) <= n
  BY <1>1, <1>3
<1> QED
  BY <1>3, <1>4, <1>8, <1>9, <1>10, <1>11 DEF ToSet, r

-----------------------------------------------------------------------------
(* What a mutation does to a Map that is consistent.                       *)

LEMMA EmptyConsistent == Consistent(<<>>, None) /\ GoodFile(NoFile)
<1>1. Consistent(<<>>, None)
  BY Constants DEF Consistent, Unique, ActiveAgrees, ToSet
<1>2. NoFile \in Snapshots /\ NoFile.list = <<>> /\ NoFile.active = None
  BY DEF NoFile, Snapshots
<1>3. Sorted(NoFile.list)
  BY <1>2 DEF Sorted
<1> QED
  BY <1>1, <1>2, <1>3 DEF GoodFile

LEMMA ActivatedConsistent ==
  ASSUME NEW list, NEW active, Consistent(list, active), NEW i \in IdsOf(list)
  PROVE  Consistent([k \in DOMAIN list |-> [list[k] EXCEPT !.active = (list[k].id = i)]], i)
<1> DEFINE r == [k \in DOMAIN list |-> [list[k] EXCEPT !.active = (list[k].id = i)]]
<1>0. list \in Seq(Workspace) /\ Unique(list) /\ Len(list) <= MAX_WORKSPACES
  BY DEF Consistent
<1>1. \A k \in DOMAIN list : /\ r[k] \in Workspace /\ r[k].id = list[k].id /\ r[k].root = list[k].root
                             /\ r[k].active = (list[k].id = i)
  <2> SUFFICES ASSUME NEW k \in DOMAIN list
               PROVE  /\ r[k] \in Workspace /\ r[k].id = list[k].id /\ r[k].root = list[k].root
                      /\ r[k].active = (list[k].id = i)
    OBVIOUS
  <2>1. list[k] \in Workspace
    BY <1>0, IdsOfList
  <2>2. r[k] = [list[k] EXCEPT !.active = (list[k].id = i)]
    OBVIOUS
  <2> HIDE DEF r
  <2> QED
    BY <2>1, <2>2 DEF Workspace
<1>2. r \in Seq(Workspace) /\ Len(r) = Len(list) /\ DOMAIN r = DOMAIN list
  <2>1. DOMAIN list = 1 .. Len(list) /\ Len(list) \in Nat
    BY <1>0
  <2>2. r \in [1 .. Len(list) -> Workspace]
    BY <1>1, <2>1
  <2> QED
    BY <2>1, <2>2
<1> HIDE DEF r
<1>3. Unique(r)
  BY <1>0, <1>1, <1>2 DEF Unique
<1>4. i \in Ids /\ i # None
  BY <1>0, IdsOfList, Constants
<1>5. r # <<>> /\ i \in IdsOf(r)
  <2>1. PICK k \in DOMAIN list : list[k].id = i
    BY <1>0, IdsOfList
  <2> QED
    BY <1>1, <1>2, <2>1, IdsOfList
<1>6. \A w \in ToSet(r) : w.active <=> w.id = i
  BY <1>1, <1>2 DEF ToSet
<1> QED
  BY <1>0, <1>2, <1>3, <1>4, <1>5, <1>6 DEF Consistent, ActiveAgrees, r

LEMMA AddedConsistent ==
  ASSUME NEW list, NEW active, Consistent(list, active),
         NEW i \in Ids, i \notin IdsOf(list),
         NEW root \in Roots, \A w \in ToSet(list) : w.root # root,
         Len(list) < MAX_WORKSPACES, NEW t \in Times
  PROVE  Consistent(Append(list, [id |-> i, root |-> root, at |-> t, active |-> active = None]),
                    IF active = None THEN i ELSE active)
<1> DEFINE e == [id |-> i, root |-> root, at |-> t, active |-> active = None]
           r == Append(list, e)
           n == Len(list)
<1>0. /\ list \in Seq(Workspace) /\ Unique(list) /\ ActiveAgrees(list, active) /\ active \in Ids \cup {None}
      /\ n \in Nat /\ DOMAIN list = 1 .. n
  BY DEF Consistent
<1>1. e \in Workspace /\ e.id = i /\ e.root = root /\ (e.active <=> active = None)
  BY DEF Workspace
<1> HIDE DEF e
<1>2. r \in Seq(Workspace) /\ Len(r) = n + 1 /\ DOMAIN r = 1 .. n + 1
  BY <1>0, <1>1
<1>3. r[n + 1] = e /\ \A k \in 1 .. n : r[k] = list[k]
  BY <1>0, <1>1
<1>4. \A k \in DOMAIN list : list[k].id # i /\ list[k].root # root
  BY <1>0, IdsOfList DEF ToSet
<1> HIDE DEF r
<1>5. Unique(r)
  <2> SUFFICES ASSUME NEW j \in 1 .. n + 1, NEW k \in 1 .. n + 1, r[j].id = r[k].id \/ r[j].root = r[k].root
               PROVE  j = k
    BY <1>2 DEF Unique
  <2>1. /\ j \in 1 .. n \/ j = n + 1
        /\ k \in 1 .. n \/ k = n + 1
    BY <1>0
  <2>2. ASSUME j \in 1 .. n, k \in 1 .. n PROVE j = k
    BY <1>0, <1>3, <2>2 DEF Unique
  <2>3. ~(j \in 1 .. n /\ k = n + 1) /\ ~(k \in 1 .. n /\ j = n + 1)
    BY <1>0, <1>1, <1>3, <1>4
  <2> QED
    BY <2>1, <2>2, <2>3
<1>6. \A w \in ToSet(r) : w \in ToSet(list) \/ w = e
  <2>1. \A k \in 1 .. n + 1 : k \in 1 .. n \/ k = n + 1
    BY <1>0
  <2> QED
    BY <1>0, <1>2, <1>3, <2>1 DEF ToSet
<1> DEFINE new == IF active = None THEN i ELSE active
<1>7. ActiveAgrees(r, new)
  <2>1. r # <<>>
    BY <1>0, <1>2
  <2>0. IdsOf(list) \subseteq IdsOf(r) /\ i \in IdsOf(r)
    <3>1. \A k \in 1 .. n : list[k].id \in IdsOf(r)
      BY <1>0, <1>2, <1>3, IdsOfList
    <3>2. n + 1 \in DOMAIN r /\ r[n + 1].id = i
      BY <1>0, <1>1, <1>2, <1>3
    <3> QED
      BY <1>0, <1>2, <3>1, <3>2, IdsOfList
  <2>2. \A w \in ToSet(r) : w.active <=> w.id = new
    <3>1. CASE active = None
      <4>1. ToSet(list) = {}
        <5>1. active \notin IdsOf(list)
          BY <1>0, <3>1, IdsOfList, Constants
        <5> QED
          BY <1>0, <5>1 DEF ActiveAgrees, ToSet
      <4> QED
        BY <1>1, <1>6, <3>1, <4>1
    <3>2. CASE active # None
      <4>1. \A w \in ToSet(list) : w.active <=> w.id = active
        BY <1>0 DEF ActiveAgrees
      <4>3. active # i
        BY <1>0, <3>2 DEF ActiveAgrees
      <4> QED
        BY <1>1, <1>6, <3>2, <4>1, <4>3
    <3> QED
      BY <3>1, <3>2
  <2>3. new \in IdsOf(r)
    BY <1>0, <2>0 DEF ActiveAgrees
  <2> QED
    BY <2>1, <2>2, <2>3 DEF ActiveAgrees
<1>8. Len(r) <= MAX_WORKSPACES /\ new \in Ids \cup {None}
  BY <1>0, <1>2, Constants
<1> QED
  BY <1>2, <1>5, <1>7, <1>8 DEF Consistent, e, r

LEMMA PromotedConsistent ==
  ASSUME NEW list \in Seq(Workspace), Unique(list), Len(list) <= MAX_WORKSPACES,
         \A w \in ToSet(list) : ~w.active, NEW i, i = Newest(list)
  PROVE  Consistent(Promote(list, i), i)
<1> DEFINE r == Promote(list, i)
<1>1. \A k \in DOMAIN list : /\ r[k] \in Workspace /\ r[k].id = list[k].id /\ r[k].root = list[k].root
                             /\ r[k].active = (list[k].id = i)
  <2> SUFFICES ASSUME NEW k \in DOMAIN list
               PROVE  /\ r[k] \in Workspace /\ r[k].id = list[k].id /\ r[k].root = list[k].root
                      /\ r[k].active = (list[k].id = i)
    OBVIOUS
  <2>1. list[k] \in Workspace /\ ~list[k].active
    BY IdsOfList DEF ToSet
  <2>2. r[k] = IF list[k].id = i THEN [list[k] EXCEPT !.active = TRUE] ELSE list[k]
    BY DEF Promote
  <2> HIDE DEF r
  <2>3. list[k].active = FALSE
    BY <2>1 DEF Workspace
  <2>4. CASE list[k].id = i
    BY <2>1, <2>2, <2>4 DEF Workspace
  <2>5. CASE list[k].id # i
    BY <2>1, <2>2, <2>3, <2>5
  <2> QED
    BY <2>4, <2>5
<1>2. r \in Seq(Workspace) /\ Len(r) = Len(list) /\ DOMAIN r = DOMAIN list
  <2>1. DOMAIN list = 1 .. Len(list) /\ Len(list) \in Nat
    OBVIOUS
  <2>2. r \in [1 .. Len(list) -> Workspace]
    BY <1>1, <2>1 DEF Promote
  <2> QED
    BY <2>1, <2>2
<1> HIDE DEF r
<1>3. Unique(r)
  BY <1>1, <1>2 DEF Unique
<1>4. IdsOf(r) = IdsOf(list)
  <2>1. IdsOf(r) = {r[k].id : k \in DOMAIN list} /\ IdsOf(list) = {list[k].id : k \in DOMAIN list}
    BY <1>2, IdsOfList
  <2> QED
    BY <1>1, <2>1
<1>5. \A w \in ToSet(r) : w.active <=> w.id = i
  BY <1>1, <1>2 DEF ToSet
<1>6. r = <<>> <=> list = <<>>
  BY <1>2
<1>7. IF r = <<>> THEN i = None ELSE i \in IdsOf(r)
  BY <1>4, <1>6, NewestExists
<1>8. i \in Ids \cup {None}
  BY <1>4, <1>7, IdsOfList DEF Ids
<1> QED
  BY <1>2, <1>3, <1>5, <1>7, <1>8 DEF Consistent, ActiveAgrees, r

LEMMA RemovedConsistent ==
  ASSUME NEW list, NEW active, Consistent(list, active), NEW i \in IdsOf(list),
         NEW rest, rest = Without(list, i),
         NEW next, next = IF active = i THEN Newest(rest) ELSE active
  PROVE  Consistent(IF active = i THEN Promote(rest, next) ELSE rest, next)
<1>0. /\ list \in Seq(Workspace) /\ Unique(list) /\ Len(list) <= MAX_WORKSPACES
      /\ ActiveAgrees(list, active) /\ active \in Ids \cup {None}
  BY DEF Consistent
<1>1. /\ rest \in Seq(Workspace) /\ Unique(rest) /\ Len(rest) <= Len(list)
      /\ \A w \in ToSet(rest) : w \in ToSet(list) /\ w.id # i
      /\ \A w \in ToSet(list) : w.id # i => w \in ToSet(rest)
  BY <1>0, WithoutOne
<1>2. Len(rest) <= MAX_WORKSPACES
  <2>1. Len(rest) \in Nat /\ Len(list) \in Nat
    BY <1>0, <1>1
  <2> QED
    BY <1>0, <1>1, <2>1, Constants
<1>3. CASE active = i
  <2>1. \A w \in ToSet(rest) : ~w.active
    BY <1>0, <1>1, <1>3 DEF ActiveAgrees
  <2> QED
    BY <1>1, <1>2, <1>3, <2>1, PromotedConsistent
<1>4. CASE active # i
  <2>1. list # <<>> /\ active \in IdsOf(list)
    <3>1. list # <<>>
      BY DEF IdsOf, ToSet
    <3> QED
      BY <1>0, <3>1 DEF ActiveAgrees
  <2>2. active \in IdsOf(rest)
    BY <1>1, <1>4, <2>1 DEF IdsOf
  <2>3. rest # <<>>
    BY <2>2 DEF IdsOf, ToSet
  <2>4. \A w \in ToSet(rest) : w.active <=> w.id = active
    BY <1>0, <1>1 DEF ActiveAgrees
  <2> QED
    BY <1>0, <1>1, <1>2, <1>4, <2>2, <2>3, <2>4 DEF Consistent, ActiveAgrees
<1> QED
  BY <1>3, <1>4

-----------------------------------------------------------------------------
(* The steps of a caller.                                                  *)

LEMMA Alone ==
  ASSUME RegistryInv, running, ~disturbed, NEW c \in Callers, stage[c] # "idle"
  PROVE  \A d \in Callers \ {c} : stage[d] = "idle"
  BY DEF RegistryInv, InTurn

\* flush() begins on a Map that is consistent.
LEMMA FlushInv ==
  ASSUME RegistryInv, NEW c \in Callers, running, StartFlush(c), Elsewhere,
         Consistent(workspaces', activeId'),
         args' \in [Callers -> [id : Ids, root : Roots \cup {None}, activate : BOOLEAN]],
         disturbed' \in BOOLEAN,
         \A d \in Callers \ {c} : args'[d] = args[d],
         ~disturbed' => \A d \in Callers \ {c} : stage[d] = "idle"
  PROVE  RegistryInv'
<1>1. /\ stage \in [Callers -> {"idle", "check", "write", "renamed"}]
      /\ snapshot \in [Callers -> Snapshots]
      /\ \A d \in Callers : GoodFile(snapshot[d])
      /\ disk \in Snapshots /\ Sorted(disk.list) /\ GoodFile(disk)
  BY DEF RegistryInv, TypeOK
<1>2. /\ stage' = [stage EXCEPT ![c] = "write"]
      /\ snapshot' = [snapshot EXCEPT ![c] = Current']
      /\ running' = running /\ disk' = disk
  BY DEF StartFlush, Elsewhere, Current
<1>3. GoodFile(Current')
  BY SerializeSorts DEF Current
<1>4. Current' \in Snapshots
  BY <1>3 DEF GoodFile
<1>5. \A d \in Callers : /\ stage'[d] = IF d = c THEN "write" ELSE stage[d]
                         /\ snapshot'[d] = IF d = c THEN Current' ELSE snapshot[d]
  BY <1>1, <1>2
<1>6. TypeOK'
  <2>1. workspaces' \in Seq(Workspace) /\ activeId' \in Ids \cup {None}
    BY DEF Consistent
  <2>2. stage' \in [Callers -> {"idle", "check", "write", "renamed"}]
    BY <1>1, <1>2
  <2>3. snapshot' \in [Callers -> Snapshots]
    BY <1>1, <1>2, <1>4
  <2> QED
    BY <1>1, <1>2, <2>1, <2>2, <2>3 DEF TypeOK
<1>7. \A d \in Callers : GoodFile(snapshot'[d])
  BY <1>1, <1>3, <1>5
<1>8. InTurn'
  <2> SUFFICES ASSUME ~disturbed'
               PROVE  /\ \A d, e \in Callers : stage'[d] # "idle" /\ stage'[e] # "idle" => d = e
                      /\ \A d \in Callers : stage'[d] = "write" => snapshot'[d] = Current'
                      /\ (\A d \in Callers : stage'[d] # "write") => disk' = Current'
    BY DEF InTurn
  <2>1. \A d \in Callers \ {c} : stage'[d] = "idle"
    BY <1>5
  <2> QED
    BY <1>5, <2>1
<1>9. Checking'
  <2> SUFFICES ASSUME NEW d \in Callers, stage'[d] = "check"
               PROVE  args'[d].root \in Roots
    BY DEF Checking
  <2>1. d # c /\ stage[d] = "check"
    BY <1>5
  <2> QED
    BY <2>1 DEF RegistryInv, Checking
<1> QED
  BY <1>1, <1>2, <1>6, <1>7, <1>8, <1>9 DEF RegistryInv

\* A call returns, with the Map and the file as they are.
LEMMA ReturnInv ==
  ASSUME RegistryInv, NEW c \in Callers, running, Returns(c), UNCHANGED memory, Elsewhere,
         disturbed' \in BOOLEAN,
         ~disturbed' => ~disturbed /\ stage[c] \in {"check", "renamed"}
  PROVE  RegistryInv'
<1>1. /\ stage \in [Callers -> {"idle", "check", "write", "renamed"}]
      /\ args \in [Callers -> [id : Ids, root : Roots \cup {None}, activate : BOOLEAN]]
      /\ snapshot \in [Callers -> Snapshots]
      /\ \A d \in Callers : GoodFile(snapshot[d])
  BY DEF RegistryInv, TypeOK
<1>2. /\ stage' = [stage EXCEPT ![c] = "idle"] /\ args' = [args EXCEPT ![c] = NoCall]
      /\ snapshot' = [snapshot EXCEPT ![c] = NoFile]
      /\ UNCHANGED <<workspaces, activeId, running, disk>>
  BY DEF Returns, Elsewhere, memory
<1>3. args[c].id \in Ids /\ NoCall \in [id : Ids, root : Roots \cup {None}, activate : BOOLEAN]
  BY <1>1, Constants DEF NoCall
<1>4. \A d \in Callers : /\ stage'[d] = IF d = c THEN "idle" ELSE stage[d]
                         /\ snapshot'[d] = IF d = c THEN NoFile ELSE snapshot[d]
  BY <1>1, <1>2
<1>5. TypeOK'
  <2>1. stage' \in [Callers -> {"idle", "check", "write", "renamed"}]
    BY <1>1, <1>2
  <2>2. args' \in [Callers -> [id : Ids, root : Roots \cup {None}, activate : BOOLEAN]]
    BY <1>1, <1>2, <1>3
  <2>3. NoFile \in Snapshots
    BY EmptyConsistent DEF GoodFile
  <2>4. snapshot' \in [Callers -> Snapshots]
    BY <1>1, <1>2, <2>3
  <2> QED
    BY <1>2, <2>1, <2>2, <2>4 DEF TypeOK, RegistryInv
<1>6. \A d \in Callers : GoodFile(snapshot'[d])
  BY <1>1, <1>4, EmptyConsistent
<1>7. InTurn'
  <2> SUFFICES ASSUME ~disturbed'
               PROVE  /\ \A d, e \in Callers : stage'[d] # "idle" /\ stage'[e] # "idle" => d = e
                      /\ \A d \in Callers : stage'[d] = "write" => snapshot'[d] = Current'
                      /\ disk' = Current'
    BY DEF InTurn
  <2>1. \A d \in Callers \ {c} : stage[d] = "idle"
    BY Alone
  <2>2. \A d \in Callers : stage'[d] = "idle"
    BY <1>4, <2>1
  <2>3. \A d \in Callers : stage[d] # "write"
    BY <2>1
  <2>4. disk = Current
    BY <2>3 DEF RegistryInv, InTurn
  <2>5. Current' = Current
    BY <1>2 DEF Current
  <2> QED
    BY <1>2, <2>2, <2>4, <2>5
<1>8. Checking'
  <2> SUFFICES ASSUME NEW d \in Callers, stage'[d] = "check"
               PROVE  args'[d].root \in Roots
    BY DEF Checking
  <2>1. d # c /\ stage[d] = "check" /\ args'[d] = args[d]
    BY <1>1, <1>2, <1>4
  <2> QED
    BY <2>1 DEF RegistryInv, Checking
<1> QED
  BY <1>2, <1>5, <1>6, <1>7, <1>8 DEF RegistryInv

LEMMA Begun ==
  ASSUME RegistryInv, NEW c \in Callers, NEW i \in Ids, NEW root \in Roots \cup {None},
         NEW activate \in BOOLEAN, Begins(c, i, root, activate)
  PROVE  /\ args' \in [Callers -> [id : Ids, root : Roots \cup {None}, activate : BOOLEAN]]
         /\ disturbed' \in BOOLEAN
         /\ \A d \in Callers : args'[d] = IF d = c THEN [id |-> i, root |-> root, activate |-> activate] ELSE args[d]
         /\ ~disturbed' => ~disturbed /\ \A d \in Callers \ {c} : stage[d] = "idle"
<1>1. args \in [Callers -> [id : Ids, root : Roots \cup {None}, activate : BOOLEAN]] /\ disturbed \in BOOLEAN
  BY DEF RegistryInv, TypeOK
<1>2. [id |-> i, root |-> root, activate |-> activate] \in [id : Ids, root : Roots \cup {None}, activate : BOOLEAN]
  OBVIOUS
<1>3. args' = [args EXCEPT ![c] = [id |-> i, root |-> root, activate |-> activate]]
  BY DEF Begins
<1>4. args' \in [Callers -> [id : Ids, root : Roots \cup {None}, activate : BOOLEAN]]
  BY <1>1, <1>2, <1>3
<1>5. disturbed' = (disturbed \/ \E d \in Callers \ {c} : stage[d] # "idle")
  BY DEF Begins
<1>6. \A d \in Callers : args'[d] = IF d = c THEN [id |-> i, root |-> root, activate |-> activate] ELSE args[d]
  BY <1>1, <1>3
<1> QED
  BY <1>1, <1>4, <1>5, <1>6

LEMMA ActivateInv ==
  ASSUME RegistryInv, NEW c \in Callers, running, NEW i, Known(i), Activate(c, i), Elsewhere,
         args' \in [Callers -> [id : Ids, root : Roots \cup {None}, activate : BOOLEAN]],
         disturbed' \in BOOLEAN,
         \A d \in Callers \ {c} : args'[d] = args[d],
         ~disturbed' => \A d \in Callers \ {c} : stage[d] = "idle"
  PROVE  RegistryInv'
<1>1. Consistent(workspaces, activeId) /\ i \in IdsOf(workspaces)
  BY DEF RegistryInv, Known
<1>2. Consistent(workspaces', activeId')
  BY <1>1, ActivatedConsistent DEF Activate
<1>3. StartFlush(c)
  BY DEF Activate
<1> QED
  BY <1>2, <1>3, FlushInv

LEMMA ContinuesInv ==
  ASSUME RegistryInv, NEW c \in Callers, running, stage[c] \in {"check", "renamed"},
         Continues(c), UNCHANGED disturbed, Elsewhere
  PROVE  RegistryInv'
<1>1. disturbed' \in BOOLEAN /\ disturbed' = disturbed
  BY DEF RegistryInv, TypeOK
<1>2. CASE args[c].activate /\ Known(args[c].id) /\ Activate(c, args[c].id) /\ args' = [args EXCEPT ![c].activate = FALSE]
  <2>1. args \in [Callers -> [id : Ids, root : Roots \cup {None}, activate : BOOLEAN]]
    BY DEF RegistryInv, TypeOK
  <2>2. [args[c] EXCEPT !.activate = FALSE] \in [id : Ids, root : Roots \cup {None}, activate : BOOLEAN]
    BY <2>1
  <2>3. args' = [args EXCEPT ![c] = [args[c] EXCEPT !.activate = FALSE]]
    BY <1>2
  <2>4. args' \in [Callers -> [id : Ids, root : Roots \cup {None}, activate : BOOLEAN]]
    BY <2>1, <2>2, <2>3
  <2>5. ~disturbed' => \A d \in Callers \ {c} : stage[d] = "idle"
    BY <1>1, Alone
  <2>6. \A d \in Callers \ {c} : args'[d] = args[d]
    BY <2>1, <2>3
  <2> QED
    BY <1>1, <1>2, <2>4, <2>5, <2>6, ActivateInv
<1>3. CASE Returns(c) /\ UNCHANGED memory
  BY <1>1, <1>3, ReturnInv
<1> QED
  BY <1>2, <1>3 DEF Continues

LEMMA RegisterInv ==
  ASSUME RegistryInv, NEW c \in Callers, NEW i \in Ids, NEW root \in Roots, NEW activate \in BOOLEAN,
         Register(c, i, root, activate)
  PROVE  RegistryInv'
<1>1. /\ stage' = [stage EXCEPT ![c] = "check"]
      /\ UNCHANGED <<workspaces, activeId, snapshot, disk, running>>
      /\ running /\ stage[c] = "idle"
  BY DEF Register, Elsewhere, memory
<1>2. /\ args' \in [Callers -> [id : Ids, root : Roots \cup {None}, activate : BOOLEAN]]
      /\ disturbed' \in BOOLEAN
      /\ \A d \in Callers : args'[d] = IF d = c THEN [id |-> i, root |-> root, activate |-> activate] ELSE args[d]
      /\ ~disturbed' => ~disturbed /\ \A d \in Callers \ {c} : stage[d] = "idle"
  BY Begun DEF Register
<1>3. stage \in [Callers -> {"idle", "check", "write", "renamed"}]
  BY DEF RegistryInv, TypeOK
<1>4. stage' \in [Callers -> {"idle", "check", "write", "renamed"}]
  BY <1>1, <1>3
<1>5. \A d \in Callers : stage'[d] = IF d = c THEN "check" ELSE stage[d]
  BY <1>1, <1>3
<1>6. TypeOK'
  BY <1>1, <1>2, <1>4 DEF RegistryInv, TypeOK
<1>7. InTurn'
  <2> SUFFICES ASSUME ~disturbed'
               PROVE  /\ \A d, e \in Callers : stage'[d] # "idle" /\ stage'[e] # "idle" => d = e
                      /\ \A d \in Callers : stage'[d] # "write"
                      /\ disk' = Current'
    BY DEF InTurn
  <2>1. ~disturbed /\ \A d \in Callers : stage[d] = "idle"
    BY <1>1, <1>2
  <2>2. disk = Current
    BY <1>1, <2>1 DEF RegistryInv, InTurn
  <2>3. Current' = Current
    BY <1>1 DEF Current
  <2> QED
    BY <1>1, <1>5, <2>1, <2>2, <2>3
<1>8. Checking'
  BY <1>2, <1>5 DEF RegistryInv, Checking
<1> QED
  BY <1>1, <1>6, <1>7, <1>8 DEF RegistryInv

LEMMA RegisterAddsInv ==
  ASSUME RegistryInv, NEW c \in Callers, RegisterAdds(c)
  PROVE  RegistryInv'
<1>1. /\ running /\ stage[c] = "check" /\ StartFlush(c) /\ UNCHANGED <<args, disturbed>> /\ Elsewhere
      /\ args[c].id \notin IdsOf(workspaces) /\ MayAdd(args[c].root)
  BY DEF RegisterAdds, Known
<1>2. PICK t \in Times :
        workspaces' = Append(workspaces,
          [id |-> args[c].id, root |-> args[c].root, at |-> t, active |-> activeId = None])
  BY DEF RegisterAdds
<1>3. activeId' = IF activeId = None THEN args[c].id ELSE activeId
  BY DEF RegisterAdds
<1>4. args \in [Callers -> [id : Ids, root : Roots \cup {None}, activate : BOOLEAN]] /\ disturbed \in BOOLEAN
  BY DEF RegistryInv, TypeOK
<1>5. args[c].id \in Ids /\ args[c].root \in Roots
  BY <1>1, <1>4 DEF RegistryInv, Checking
<1>6. Consistent(workspaces', activeId')
  BY <1>1, <1>2, <1>3, <1>5, AddedConsistent DEF RegistryInv, MayAdd
<1>7. ~disturbed' => \A d \in Callers \ {c} : stage[d] = "idle"
  BY <1>1, Alone
<1> QED
  BY <1>1, <1>4, <1>6, <1>7, FlushInv

LEMMA UnregisterInv ==
  ASSUME RegistryInv, NEW c \in Callers, NEW i \in Ids, Unregister(c, i)
  PROVE  RegistryInv'
<1> DEFINE rest == Without(workspaces, i)
           next == IF activeId = i THEN Newest(rest) ELSE activeId
<1>1. /\ running /\ Begins(c, i, None, FALSE) /\ StartFlush(c) /\ Elsewhere
      /\ i \in IdsOf(workspaces)
      /\ workspaces' = IF activeId = i THEN Promote(rest, next) ELSE rest
      /\ activeId' = next
  BY DEF Unregister, Known
<1>2. Consistent(workspaces', activeId')
  BY <1>1, RemovedConsistent DEF RegistryInv
<1>3. /\ args' \in [Callers -> [id : Ids, root : Roots \cup {None}, activate : BOOLEAN]]
      /\ disturbed' \in BOOLEAN
      /\ \A d \in Callers \ {c} : args'[d] = args[d]
      /\ ~disturbed' => \A d \in Callers \ {c} : stage[d] = "idle"
  BY <1>1, Begun
<1> QED
  BY <1>1, <1>2, <1>3, FlushInv

LEMMA SetActiveInv ==
  ASSUME RegistryInv, NEW c \in Callers, NEW i \in Ids, SetActive(c, i)
  PROVE  RegistryInv'
<1>1. running /\ Known(i) /\ Begins(c, i, Entry(workspaces, i).root, FALSE) /\ Activate(c, i) /\ Elsewhere
  BY DEF SetActive
<1>2. Entry(workspaces, i).root \in Roots
  <2>1. workspaces \in Seq(Workspace) /\ Unique(workspaces) /\ i \in IdsOf(workspaces)
    BY <1>1 DEF RegistryInv, Consistent, Known
  <2>2. PICK k \in DOMAIN workspaces : Entry(workspaces, i) = workspaces[k]
    BY <2>1, KnownEntry
  <2>3. workspaces[k] \in Workspace
    BY <2>1, <2>2
  <2> QED
    BY <2>2, <2>3 DEF Workspace
<1>3. /\ args' \in [Callers -> [id : Ids, root : Roots \cup {None}, activate : BOOLEAN]]
      /\ disturbed' \in BOOLEAN
      /\ \A d \in Callers \ {c} : args'[d] = args[d]
      /\ ~disturbed' => \A d \in Callers \ {c} : stage[d] = "idle"
  BY <1>1, <1>2, Begun
<1> QED
  BY <1>1, <1>3, ActivateInv

LEMMA RenameInv ==
  ASSUME RegistryInv, NEW c \in Callers, Rename(c)
  PROVE  RegistryInv'
<1>1. /\ running /\ stage[c] = "write"
      /\ disk' = snapshot[c]
      /\ stage' = [stage EXCEPT ![c] = "renamed"] /\ snapshot' = [snapshot EXCEPT ![c] = NoFile]
      /\ UNCHANGED <<workspaces, activeId, args, running, disturbed>>
  BY DEF Rename, memory
<1>2. /\ stage \in [Callers -> {"idle", "check", "write", "renamed"}]
      /\ snapshot \in [Callers -> Snapshots]
      /\ \A d \in Callers : GoodFile(snapshot[d])
  BY DEF RegistryInv, TypeOK
<1>3. \A d \in Callers : /\ stage'[d] = IF d = c THEN "renamed" ELSE stage[d]
                         /\ snapshot'[d] = IF d = c THEN NoFile ELSE snapshot[d]
  BY <1>1, <1>2
<1>4. GoodFile(disk') /\ \A d \in Callers : GoodFile(snapshot'[d])
  BY <1>1, <1>2, <1>3, EmptyConsistent
<1>5. TypeOK'
  <2>1. stage' \in [Callers -> {"idle", "check", "write", "renamed"}]
    BY <1>1, <1>2
  <2>2. NoFile \in Snapshots
    BY EmptyConsistent DEF GoodFile
  <2>3. snapshot' \in [Callers -> Snapshots]
    BY <1>1, <1>2, <2>2
  <2> QED
    BY <1>1, <1>4, <2>1, <2>3 DEF RegistryInv, TypeOK, GoodFile
<1>6. InTurn'
  <2> SUFFICES ASSUME ~disturbed'
               PROVE  /\ \A d, e \in Callers : stage'[d] # "idle" /\ stage'[e] # "idle" => d = e
                      /\ \A d \in Callers : stage'[d] # "write"
                      /\ disk' = Current'
    BY DEF InTurn
  <2>1. \A d \in Callers \ {c} : stage[d] = "idle"
    BY <1>1, Alone
  <2>2. snapshot[c] = Current
    BY <1>1 DEF RegistryInv, InTurn
  <2>3. Current' = Current
    BY <1>1 DEF Current
  <2> QED
    BY <1>1, <1>3, <2>1, <2>2, <2>3
<1>7. Checking'
  BY <1>1, <1>3 DEF RegistryInv, Checking
<1> QED
  BY <1>1, <1>4, <1>5, <1>6, <1>7 DEF RegistryInv

LEMMA CrashInv ==
  ASSUME RegistryInv, Crash
  PROVE  RegistryInv'
<1>1. /\ running' = FALSE /\ workspaces' = <<>> /\ activeId' = None
      /\ stage' = [c \in Callers |-> "idle"] /\ args' = [c \in Callers |-> NoCall]
      /\ snapshot' = [c \in Callers |-> NoFile] /\ UNCHANGED <<disk, disturbed>>
  BY DEF Crash
<1>2. NoFile \in Snapshots /\ NoCall \in [id : Ids, root : Roots \cup {None}, activate : BOOLEAN]
  BY EmptyConsistent, Constants DEF GoodFile, NoCall
<1>3. Consistent(workspaces', activeId') /\ \A c \in Callers : GoodFile(snapshot'[c])
  BY <1>1, EmptyConsistent
<1>4. TypeOK'
  BY <1>1, <1>2, <1>3 DEF RegistryInv, TypeOK, Consistent
<1> QED
  BY <1>1, <1>3, <1>4 DEF RegistryInv, InTurn, Checking

LEMMA RestartInv ==
  ASSUME RegistryInv, Restart
  PROVE  RegistryInv'
<1>1. /\ ~running /\ running' = TRUE /\ workspaces' = disk.list /\ activeId' = disk.active
      /\ disturbed' = FALSE /\ UNCHANGED <<stage, args, snapshot, disk>>
  BY DEF Restart
<1>2. GoodFile(disk) /\ \A c \in Callers : stage[c] = "idle"
  BY <1>1 DEF RegistryInv
<1>3. Consistent(workspaces', activeId')
  BY <1>1, <1>2 DEF GoodFile
<1>4. Current' = disk
  BY <1>1, <1>2, SerializeAgain DEF Current
<1>5. TypeOK'
  BY <1>1, <1>3 DEF RegistryInv, TypeOK, Consistent
<1>6. InTurn'
  BY <1>1, <1>2, <1>4 DEF InTurn
<1> QED
  BY <1>1, <1>2, <1>3, <1>5, <1>6 DEF RegistryInv, Checking

LEMMA RestartUnreadInv ==
  ASSUME RegistryInv, RestartUnread
  PROVE  RegistryInv'
<1>1. /\ running' = TRUE /\ workspaces' = <<>> /\ activeId' = None
      /\ disturbed' = TRUE /\ UNCHANGED <<stage, args, snapshot, disk>>
  BY DEF RestartUnread
<1>2. Consistent(workspaces', activeId')
  BY <1>1, EmptyConsistent
<1>3. TypeOK'
  BY <1>1, <1>2 DEF RegistryInv, TypeOK, Consistent
<1> QED
  BY <1>1, <1>2, <1>3 DEF RegistryInv, InTurn, Checking

LEMMA StutterInv ==
  ASSUME RegistryInv, UNCHANGED vars
  PROVE  RegistryInv'
<1>1. UNCHANGED <<workspaces, activeId, stage, args, snapshot, disk, running, disturbed>>
  BY DEF vars, memory
<1>2. TypeOK' /\ InTurn'
  BY <1>1 DEF RegistryInv, TypeOK, InTurn, Current
<1> QED
  BY <1>1, <1>2 DEF RegistryInv, Checking

-----------------------------------------------------------------------------

LEMMA InitInv == Init => RegistryInv
<1> SUFFICES ASSUME Init PROVE RegistryInv
  OBVIOUS
<1>1. NoFile \in Snapshots /\ NoCall \in [id : Ids, root : Roots \cup {None}, activate : BOOLEAN]
  BY EmptyConsistent, Constants DEF GoodFile, NoCall
<1>2. Consistent(workspaces, activeId) /\ GoodFile(disk) /\ \A c \in Callers : GoodFile(snapshot[c])
  BY EmptyConsistent DEF Init
<1>3. TypeOK
  BY <1>1, <1>2 DEF Init, TypeOK, Consistent, GoodFile
<1>4. disk = Current
  <2>1. disk.list = workspaces /\ disk.active = activeId
    BY DEF Init, NoFile
  <2> QED
    BY <1>2, <2>1, SerializeAgain DEF Current
<1> QED
  BY <1>2, <1>3, <1>4 DEF RegistryInv, InTurn, Init, Checking

LEMMA StepInv == RegistryInv /\ [Next]_vars => RegistryInv'
<1> SUFFICES ASSUME RegistryInv, [Next]_vars PROVE RegistryInv'
  OBVIOUS
<1>1. ASSUME NEW c \in Callers, Call(c) PROVE RegistryInv'
  BY <1>1, RegisterInv, UnregisterInv, SetActiveInv DEF Call
<1>2. ASSUME NEW c \in Callers, Continue(c) PROVE RegistryInv'
  <2>1. CASE RegisterAgain(c)
    BY <2>1, ContinuesInv DEF RegisterAgain
  <2>2. CASE RegisterRefused(c)
    <3>1. disturbed' \in BOOLEAN /\ disturbed' = disturbed /\ UNCHANGED memory
      BY <2>2 DEF RegisterRefused, RegistryInv, TypeOK
    <3> QED
      BY <2>2, <3>1, ReturnInv DEF RegisterRefused
  <2>3. CASE RegisterAdds(c)
    BY <2>3, RegisterAddsInv
  <2>4. CASE Rename(c)
    BY <2>4, RenameInv
  <2>5. CASE Resolve(c)
    BY <2>5, ContinuesInv DEF Resolve
  <2>6. CASE WriteFails(c)
    <3>1. disturbed' = TRUE
      BY <2>6 DEF WriteFails
    <3> QED
      BY <2>6, <3>1, ReturnInv DEF WriteFails
  <2> QED
    BY <1>2, <2>1, <2>2, <2>3, <2>4, <2>5, <2>6 DEF Continue
<1> QED
  BY <1>1, <1>2, CrashInv, RestartInv, RestartUnreadInv, StutterInv DEF Next

LEMMA RegistryInvAlways == Spec => []RegistryInv
  BY InitInv, StepInv, PTL DEF Spec

\* The registry keeps its types, and the file is sorted by id.
THEOREM TypeCorrect == Spec => []TypeOK
<1>1. RegistryInv => TypeOK
  BY DEF RegistryInv
<1> QED
  BY <1>1, RegistryInvAlways, PTL

\* For any calls that overlap, crashes and restarts: a registry that is not empty has exactly
\* one active workspace, in memory and in the file.
THEOREM OneIsActive == Spec => []OneActive
<1>1. RegistryInv => OneActive
  BY DEF RegistryInv, OneActive, Consistent, GoodFile
<1> QED
  BY <1>1, RegistryInvAlways, PTL

\* No id and no root is registered twice, and the limit is kept.
THEOREM NothingTwice == Spec => []NoDuplicates
<1>1. RegistryInv => NoDuplicates
  BY DEF RegistryInv, NoDuplicates, Consistent, GoodFile
<1> QED
  BY <1>1, RegistryInvAlways, PTL

\* Mutations made one after the other are in the file when they have returned.
THEOREM ReturnedIsDurable == Spec => []DurableInTurn
<1>1. RegistryInv => DurableInTurn
  BY DEF RegistryInv, DurableInTurn, InTurn, Current
<1> QED
  BY <1>1, RegistryInvAlways, PTL

-----------------------------------------------------------------------------
(* Project settings: what was set is what is read back, for files of any   *)
(* length and any patches.                                                 *)

KeyLines == {KeyLine(k, v) : k \in KeyNames, v \in Values}
Sections == [name : SectionNames, keys : Seq(KeyLines), trailing : Nat]
Inis     == [ok : BOOLEAN, preamble : Seq(Lines), sections : Seq(Sections)]

\* A file that could be parsed: sections are there once, and so are the keys of each.  It is readable
\* when no key is one that KEY_RE refuses.
KeysOnce(s) == \A i, j \in DOMAIN s.keys : s.keys[i].name = s.keys[j].name => i = j
KeysNamed(s) == \A i \in DOMAIN s.keys : s.keys[i].name \notin Refused
Tidy(ini) ==
  /\ ini \in Inis /\ ini.ok
  /\ \A i, j \in DOMAIN ini.sections : ini.sections[i].name = ini.sections[j].name => i = j
  /\ \A i \in DOMAIN ini.sections : KeysOnce(ini.sections[i])
  /\ \A i \in DOMAIN ini.preamble : ini.preamble[i].kind # "section"
Readable(ini) == Tidy(ini) /\ \A i \in DOMAIN ini.sections : KeysNamed(ini.sections[i])

LineFold    == INSTANCE FoldLemmas WITH op <- parseLine
SectionFold == INSTANCE FoldLemmas WITH op <- addSection
EntryFold   == INSTANCE FoldLemmas WITH op <- addEntries
PatchFold   == INSTANCE FoldLemmas WITH op <- applyPatch

LEMMA LinesAreFolded == \A ini, lines : FoldLeft(parseLine, ini, lines) = LineFold!Fold(ini, lines)
BY DEF LineFold!Fold, FoldLeft, MapThenFoldSet, LineFold!Largest, Max
LEMMA SectionsAreFolded == \A out, secs : FoldLeft(addSection, out, secs) = SectionFold!Fold(out, secs)
BY DEF SectionFold!Fold, FoldLeft, MapThenFoldSet, SectionFold!Largest, Max
LEMMA EntriesAreFolded == \A out, secs : FoldLeft(addEntries, out, secs) = EntryFold!Fold(out, secs)
BY DEF EntryFold!Fold, FoldLeft, MapThenFoldSet, EntryFold!Largest, Max
LEMMA PatchIsFolded == \A ini, patch : FoldLeft(applyPatch, ini, patch) = PatchFold!Fold(ini, patch)
BY DEF PatchFold!Fold, FoldLeft, MapThenFoldSet, PatchFold!Largest, Max

LEMMA LinesAre ==
  /\ KeyLines \subseteq Lines /\ Blank \in Lines
  /\ \A n \in SectionNames : Header(n) \in Lines /\ Header(n).kind = "section" /\ Header(n).name = n
  /\ Blank.kind = "blank"
  /\ \A l \in Lines : /\ l.kind = "key" => l \in KeyLines
                      /\ l.kind = "section" => l.name \in SectionNames /\ l = Header(l.name)
                      /\ l.kind \in {"section", "key", "blank", "comment", "malformed"}
  /\ \A l \in KeyLines : l.kind = "key" /\ l.name \in KeyNames /\ l.value \in Values
                         /\ l = KeyLine(l.name, l.value)
<1>1. KeyLines \subseteq Lines /\ Blank \in Lines
  BY DEF Lines, KeyLines
<1>2. \A n \in SectionNames : Header(n) \in Lines /\ Header(n).kind = "section" /\ Header(n).name = n
  BY DEF Lines, Header
<1>3. \A l \in KeyLines : l.kind = "key" /\ l.name \in KeyNames /\ l.value \in Values /\ l = KeyLine(l.name, l.value)
  BY DEF KeyLines, KeyLine
<1>4. ASSUME NEW l \in Lines
      PROVE  /\ l.kind = "key" => l \in KeyLines
             /\ l.kind = "section" => l.name \in SectionNames /\ l = Header(l.name)
             /\ l.kind \in {"section", "key", "blank", "comment", "malformed"}
  <2>1. CASE l \in {Header(n) : n \in SectionNames}
    BY <2>1 DEF Header
  <2>2. CASE l \in KeyLines
    BY <2>2, <1>3
  <2>3. CASE l \in {Blank, Comment, Malformed}
    BY <2>3 DEF Blank, Comment, Malformed
  <2> QED BY <2>1, <2>2, <2>3 DEF Lines, KeyLines
<1>5. Blank.kind = "blank"
  BY DEF Blank
<1> QED BY <1>1, <1>2, <1>3, <1>4, <1>5

-----------------------------------------------------------------------------
\* What a line does to a file with sections.
Opened(ini) == ini \in Inis /\ ini.ok /\ ini.sections # <<>>

LEMMA LastIs ==
  ASSUME NEW ini, Opened(ini)
  PROVE  /\ Len(ini.sections) \in Nat \ {0} /\ Last(ini.sections) = ini.sections[Len(ini.sections)]
         /\ Last(ini.sections) \in Sections /\ Len(ini.sections) \in DOMAIN ini.sections
BY DEF Opened, Inis, Last

LEMMA LastChangedIs ==
  ASSUME NEW ini, Opened(ini), NEW s \in Sections
  PROVE  /\ Opened(lastChanged(ini, s))
         /\ lastChanged(ini, s).preamble = ini.preamble
         /\ lastChanged(ini, s).sections = [ini.sections EXCEPT ![Len(ini.sections)] = s]
<1>1. Len(ini.sections) \in DOMAIN ini.sections /\ ini \in Inis /\ ini.ok /\ ini.sections # <<>>
  BY LastIs DEF Opened
<1> DEFINE secs == [ini.sections EXCEPT ![Len(ini.sections)] = s]
<1>2. secs \in Seq(Sections) /\ secs # <<>>
  <2>1. ini.sections \in Seq(Sections)
    BY <1>1 DEF Inis
  <2>2. secs \in Seq(Sections) /\ Len(secs) = Len(ini.sections)
    BY <1>1, <2>1
  <2> QED BY <1>1, <2>1, <2>2
<1>3. lastChanged(ini, s) = [ini EXCEPT !.sections = secs]
  BY DEF lastChanged
<1> HIDE DEF secs
<1>4. [ini EXCEPT !.sections = secs] \in Inis /\ [ini EXCEPT !.sections = secs].ok
      /\ [ini EXCEPT !.sections = secs].sections = secs /\ [ini EXCEPT !.sections = secs].preamble = ini.preamble
  BY <1>1, <1>2 DEF Inis
<1> QED BY <1>2, <1>3, <1>4 DEF Opened, secs

With(ini, s) == [ini EXCEPT !.sections = Append(@, s)]

\* The lines of a file that was written as it was meant are read as what they are.
LEMMA LinesAreRead == \A l \in Lines : readAs(l) = l
BY MisreadAssumption DEF readAs

LEMMA LineHeader ==
  ASSUME NEW ini \in Inis, ini.ok, NEW n \in SectionNames
  PROVE  parseLine(ini, Header(n)) =
           IF named(ini.sections, n) # {} THEN ParseError ELSE With(ini, Section(n))
<1>1. Header(n).kind = "section" /\ Header(n).name = n /\ readAs(Header(n)) = Header(n)
  BY LinesAre, LinesAreRead
<1> QED BY <1>1 DEF parseLine, KEY_RE, With

LEMMA LineBlank ==
  ASSUME NEW ini, Opened(ini)
  PROVE  parseLine(ini, Blank) = lastChanged(ini, [Last(ini.sections) EXCEPT !.trailing = @ + 1])
<1>1. Blank.kind = "blank" /\ readAs(Blank) = Blank
  BY LinesAre, LinesAreRead
<1> QED BY <1>1 DEF parseLine, KEY_RE, Opened

LEMMA LineKey ==
  ASSUME NEW ini, Opened(ini), NEW l \in KeyLines
  PROVE  parseLine(ini, l) =
           IF l.name \notin Refused /\ named(Last(ini.sections).keys, l.name) = {}
           THEN lastChanged(ini, [Last(ini.sections) EXCEPT !.trailing = 0, !.keys = Append(@, l)])
           ELSE ParseError
<1>1. l.kind = "key" /\ readAs(l) = l
  BY LinesAre, LinesAreRead
<1> QED BY <1>1 DEF parseLine, KEY_RE, Opened

LEMMA LineOther ==
  ASSUME NEW ini \in Inis, NEW l \in Lines
  PROVE  /\ ~ini.ok => parseLine(ini, l) = ini
         /\ (ini.ok /\ l.kind # "section" /\ ini.sections = <<>>)
               => parseLine(ini, l) = [ini EXCEPT !.preamble = Append(@, l)]
         /\ (Opened(ini) /\ l.kind = "blank") =>
               parseLine(ini, l) = lastChanged(ini, [Last(ini.sections) EXCEPT !.trailing = @ + 1])
         /\ (Opened(ini) /\ l.kind = "comment") =>
               parseLine(ini, l) = lastChanged(ini, [Last(ini.sections) EXCEPT !.trailing = 0])
         /\ (Opened(ini) /\ l.kind = "malformed") => parseLine(ini, l) = ParseError
<1>0. readAs(l) = l
  BY LinesAreRead
<1>1. ~ini.ok => parseLine(ini, l) = ini
  BY <1>0 DEF parseLine
<1>2. (ini.ok /\ l.kind # "section" /\ ini.sections = <<>>)
         => parseLine(ini, l) = [ini EXCEPT !.preamble = Append(@, l)]
  BY <1>0 DEF parseLine
<1>3. (Opened(ini) /\ l.kind = "blank") =>
         parseLine(ini, l) = lastChanged(ini, [Last(ini.sections) EXCEPT !.trailing = @ + 1])
  BY <1>0 DEF parseLine, Opened, KEY_RE
<1>4. (Opened(ini) /\ l.kind = "comment") =>
         parseLine(ini, l) = lastChanged(ini, [Last(ini.sections) EXCEPT !.trailing = 0])
  BY <1>0 DEF parseLine, Opened, KEY_RE
<1>5. (Opened(ini) /\ l.kind = "malformed") => parseLine(ini, l) = ParseError
  BY <1>0 DEF parseLine, Opened, KEY_RE
<1> QED BY <1>1, <1>2, <1>3, <1>4, <1>5

LEMMA ErrorIs == ParseError \in Inis /\ ~ParseError.ok /\ ParseError.sections = <<>>
<1>1. <<>> \in Seq(Lines) /\ <<>> \in Seq(Sections)
  OBVIOUS
<1> QED BY <1>1 DEF ParseError, Inis

-----------------------------------------------------------------------------
\* What is read is readable.
SectionOK(s) == s \in Sections /\ KeysOnce(s) /\ KeysNamed(s)

LEMMA LastChangedStaysReadable ==
  ASSUME NEW ini, Readable(ini), ini.sections # <<>>,
         NEW s, SectionOK(s), s.name = Last(ini.sections).name
  PROVE  Readable(lastChanged(ini, s))
<1> DEFINE n == Len(ini.sections)
           new == lastChanged(ini, s)
<1>1. Opened(ini) /\ s \in Sections
  BY DEF Readable, Tidy, Opened, SectionOK
<1>2. n \in DOMAIN ini.sections /\ Last(ini.sections) = ini.sections[n]
  BY <1>1, LastIs
<1>3. Opened(new) /\ new.preamble = ini.preamble /\ new.sections = [ini.sections EXCEPT ![n] = s]
  BY <1>1, LastChangedIs
<1> HIDE DEF new, n
<1>4. DOMAIN new.sections = DOMAIN ini.sections
      /\ \A i \in DOMAIN new.sections : new.sections[i] = IF i = n THEN s ELSE ini.sections[i]
  BY <1>3
<1>5. \A i \in DOMAIN new.sections : new.sections[i].name = ini.sections[i].name
  BY <1>2, <1>4
<1>6. Tidy(new)
  BY <1>3, <1>4, <1>5 DEF Readable, Tidy, Opened, SectionOK
<1>7. \A i \in DOMAIN new.sections : KeysNamed(new.sections[i])
  BY <1>4 DEF Readable, SectionOK
<1> QED BY <1>6, <1>7 DEF Readable, new

LEMMA SectionIs ==
  ASSUME NEW n \in SectionNames
  PROVE  SectionOK(Section(n)) /\ Section(n).name = n /\ Section(n).keys = <<>> /\ Section(n).trailing = 0
<1>1. <<>> \in Seq(KeyLines) /\ DOMAIN <<>> = {}
  OBVIOUS
<1> QED BY <1>1 DEF SectionOK, Section, Sections, KeysOnce, KeysNamed

\* A section more.
LEMMA SectionAdded ==
  ASSUME NEW ini \in Inis, NEW s \in Sections
  PROVE  LET new == With(ini, s) IN
         /\ new \in Inis /\ new.ok = ini.ok /\ new.preamble = ini.preamble
         /\ new.sections = Append(ini.sections, s) /\ new.sections # <<>> /\ Last(new.sections) = s
         /\ Len(new.sections) = Len(ini.sections) + 1
         /\ DOMAIN new.sections = DOMAIN ini.sections \cup {Len(ini.sections) + 1}
         /\ \A i \in DOMAIN new.sections : new.sections[i] = IF i \in DOMAIN ini.sections THEN ini.sections[i] ELSE s
<1> DEFINE secs == Append(ini.sections, s)
<1>1. ini.sections \in Seq(Sections)
  BY DEF Inis
<1>2. secs \in Seq(Sections) /\ Len(secs) = Len(ini.sections) + 1 /\ secs # <<>> /\ Last(secs) = s
      /\ DOMAIN secs = DOMAIN ini.sections \cup {Len(ini.sections) + 1}
      /\ \A i \in DOMAIN secs : secs[i] = IF i \in DOMAIN ini.sections THEN ini.sections[i] ELSE s
  BY <1>1 DEF Last
<1> HIDE DEF secs
<1>3. [ini EXCEPT !.sections = secs] \in Inis /\ [ini EXCEPT !.sections = secs].ok = ini.ok
      /\ [ini EXCEPT !.sections = secs].sections = secs /\ [ini EXCEPT !.sections = secs].preamble = ini.preamble
  BY <1>2 DEF Inis
<1> QED BY <1>2, <1>3 DEF secs, With

LEMMA AddedStaysTidy ==
  ASSUME NEW ini, Tidy(ini), NEW s \in Sections, KeysOnce(s), named(ini.sections, s.name) = {}
  PROVE  Tidy(With(ini, s))
<1> DEFINE new == With(ini, s)
<1>1. /\ new \in Inis /\ new.ok = ini.ok /\ new.preamble = ini.preamble
      /\ DOMAIN new.sections = DOMAIN ini.sections \cup {Len(ini.sections) + 1}
      /\ \A i \in DOMAIN new.sections : new.sections[i] = IF i \in DOMAIN ini.sections THEN ini.sections[i] ELSE s
  <2>1. ini \in Inis
    BY DEF Tidy
  <2> QED BY <2>1, SectionAdded
<1>2. \A i \in DOMAIN ini.sections : ini.sections[i].name # s.name
  BY DEF named
<1> HIDE DEF new
<1>3. ASSUME NEW i \in DOMAIN new.sections, NEW j \in DOMAIN new.sections, new.sections[i].name = new.sections[j].name
      PROVE  i = j
  BY <1>1, <1>2, <1>3 DEF Tidy
<1>4. \A i \in DOMAIN new.sections : KeysOnce(new.sections[i])
  BY <1>1 DEF Tidy
<1>5. Tidy(new)
  BY <1>1, <1>3, <1>4 DEF Tidy
<1> QED BY <1>5 DEF new

LEMMA AddedStaysReadable ==
  ASSUME NEW ini, Readable(ini), NEW s, SectionOK(s), named(ini.sections, s.name) = {}
  PROVE  Readable(With(ini, s))
<1> DEFINE new == With(ini, s)
<1>1. Tidy(new)
  BY AddedStaysTidy DEF Readable, SectionOK
<1>2. \A i \in DOMAIN new.sections : new.sections[i] = IF i \in DOMAIN ini.sections THEN ini.sections[i] ELSE s
  BY SectionAdded DEF Readable, Tidy, SectionOK
<1> HIDE DEF new
<1>3. \A i \in DOMAIN new.sections : KeysNamed(new.sections[i])
  BY <1>2 DEF Readable, SectionOK
<1>4. Readable(new)
  BY <1>1, <1>3 DEF Readable
<1> QED BY <1>4 DEF new

\* A key more.
WithKey(s, l, t) == [s EXCEPT !.trailing = t, !.keys = Append(@, l)]

LEMMA KeyAdded ==
  ASSUME NEW s \in Sections, NEW l \in KeyLines, named(s.keys, l.name) = {}, KeysOnce(s), NEW t \in Nat
  PROVE  LET new == WithKey(s, l, t) IN
         /\ new \in Sections /\ KeysOnce(new) /\ new.name = s.name /\ new.trailing = t
         /\ new.keys = Append(s.keys, l)
         /\ DOMAIN new.keys = DOMAIN s.keys \cup {Len(s.keys) + 1}
         /\ \A i \in DOMAIN new.keys : new.keys[i] = IF i \in DOMAIN s.keys THEN s.keys[i] ELSE l
         /\ KeysNamed(new) <=> KeysNamed(s) /\ l.name \notin Refused
<1> DEFINE keys == Append(s.keys, l)
           new == [s EXCEPT !.trailing = t, !.keys = keys]
<1>1. s.keys \in Seq(KeyLines)
  BY DEF Sections
<1>2. keys \in Seq(KeyLines) /\ DOMAIN keys = DOMAIN s.keys \cup {Len(s.keys) + 1} /\ Len(s.keys) + 1 \notin DOMAIN s.keys
      /\ \A i \in DOMAIN keys : keys[i] = IF i \in DOMAIN s.keys THEN s.keys[i] ELSE l
  BY <1>1
<1>3. \A i \in DOMAIN s.keys : s.keys[i].name # l.name
  BY DEF named
<1> HIDE DEF keys
<1>4. new \in Sections /\ new.name = s.name /\ new.trailing = t /\ new.keys = keys
  BY <1>2 DEF Sections
<1> HIDE DEF new
<1>5. KeysOnce(new)
  <2> SUFFICES ASSUME NEW i \in DOMAIN keys, NEW j \in DOMAIN keys, keys[i].name = keys[j].name PROVE i = j
    BY <1>4 DEF KeysOnce
  <2> QED BY <1>2, <1>3 DEF KeysOnce
<1>6. KeysNamed(new) <=> KeysNamed(s) /\ l.name \notin Refused
  <2>1. KeysNamed(new) <=> \A i \in DOMAIN keys : keys[i].name \notin Refused
    BY <1>4 DEF KeysNamed
  <2> QED BY <1>2, <2>1 DEF KeysNamed
<1> QED BY <1>2, <1>4, <1>5, <1>6 DEF new, keys, WithKey

LEMMA LineKeepsReadable ==
  ASSUME NEW ini \in Inis, ini.ok => Readable(ini), NEW l \in Lines
  PROVE  parseLine(ini, l) \in Inis /\ (parseLine(ini, l).ok => Readable(parseLine(ini, l)))
<1>1. CASE ~ini.ok
  BY <1>1, LineOther
<1>2. CASE ini.ok /\ l.kind = "section"
  <2>1. l.name \in SectionNames /\ l = Header(l.name)
    BY <1>2, LinesAre
  <2>2. parseLine(ini, l) = IF named(ini.sections, l.name) # {} THEN ParseError
                            ELSE With(ini, Section(l.name))
    BY <1>2, <2>1, LineHeader
  <2>3. CASE named(ini.sections, l.name) # {}
    BY <2>2, <2>3, ErrorIs
  <2>4. CASE named(ini.sections, l.name) = {}
    <3>1. SectionOK(Section(l.name)) /\ Section(l.name).name = l.name
      BY <2>1, SectionIs
    <3>2. Readable(With(ini, Section(l.name)))
      BY <1>2, <2>4, <3>1, AddedStaysReadable
    <3> QED BY <2>2, <2>4, <3>2 DEF Readable, Tidy
  <2> QED BY <2>3, <2>4
<1>3. CASE ini.ok /\ l.kind # "section" /\ ini.sections = <<>>
  <2> DEFINE pre == Append(ini.preamble, l)
             new == [ini EXCEPT !.preamble = pre]
  <2>1. parseLine(ini, l) = new
    BY <1>3, LineOther
  <2>2. ini.preamble \in Seq(Lines)
    BY DEF Inis
  <2>3. pre \in Seq(Lines) /\ \A i \in DOMAIN pre : pre[i] = l \/ (i \in DOMAIN ini.preamble /\ pre[i] = ini.preamble[i])
    BY <2>2
  <2> HIDE DEF pre
  <2>4. new \in Inis /\ new.ok = ini.ok /\ new.sections = ini.sections /\ new.preamble = pre
    BY <2>3 DEF Inis
  <2> HIDE DEF new
  <2>5. Readable(new)
    BY <1>3, <2>3, <2>4 DEF Readable, Tidy
  <2> QED BY <2>1, <2>4, <2>5
<1>4. CASE Opened(ini) /\ l.kind # "section"
  <2> DEFINE s == Last(ini.sections)
  <2>1. Readable(ini) /\ ini.sections # <<>> /\ l.kind \in {"key", "blank", "comment", "malformed"}
    BY <1>4, LinesAre DEF Opened
  <2>2. SectionOK(s)
    BY <1>4, <2>1, LastIs DEF SectionOK, Readable, Tidy
  <2>3. \A p : Readable(p) => p \in Inis
    BY DEF Readable, Tidy
  <2> HIDE DEF s
  <2>4. ASSUME NEW t \in Nat
        PROVE  Readable(lastChanged(ini, [s EXCEPT !.trailing = t]))
    <3>1. [s EXCEPT !.trailing = t] \in Sections /\ [s EXCEPT !.trailing = t].name = s.name
          /\ [s EXCEPT !.trailing = t].keys = s.keys
      BY <2>2 DEF SectionOK, Sections
    <3>2. SectionOK([s EXCEPT !.trailing = t])
      BY <2>2, <3>1 DEF SectionOK, KeysOnce, KeysNamed
    <3> QED BY <2>1, <3>1, <3>2, LastChangedStaysReadable DEF s
  <2>5. CASE l.kind = "blank"
    <3>1. s.trailing + 1 \in Nat
      BY <2>2 DEF SectionOK, Sections
    <3>2. parseLine(ini, l) = lastChanged(ini, [s EXCEPT !.trailing = @ + 1])
      BY <1>4, <2>5, LineOther DEF s
    <3> QED BY <2>3, <2>4, <3>1, <3>2
  <2>6. CASE l.kind = "comment"
    <3>2. parseLine(ini, l) = lastChanged(ini, [s EXCEPT !.trailing = 0])
      BY <1>4, <2>6, LineOther DEF s
    <3> QED BY <2>3, <2>4, <3>2
  <2>7. CASE l.kind = "malformed"
    BY <1>4, <2>7, LineOther, ErrorIs
  <2>8. CASE l.kind = "key"
    <3>1. l \in KeyLines
      BY <2>8, LinesAre
    <3>2. parseLine(ini, l) = IF l.name \notin Refused /\ named(s.keys, l.name) = {}
                              THEN lastChanged(ini, [s EXCEPT !.trailing = 0, !.keys = Append(@, l)]) ELSE ParseError
      BY <1>4, <3>1, LineKey DEF s
    <3>3. ASSUME l.name \notin Refused, named(s.keys, l.name) = {}
          PROVE  Readable(lastChanged(ini, [s EXCEPT !.trailing = 0, !.keys = Append(@, l)]))
      <4> DEFINE n == 0
                 new == WithKey(s, l, n)
      <4>1. SectionOK(new) /\ new.name = s.name
        <5>1. n \in Nat /\ s \in Sections /\ KeysOnce(s) /\ KeysNamed(s)
          BY <2>2 DEF SectionOK
        <5> HIDE DEF n
        <5>2. new \in Sections /\ KeysOnce(new) /\ new.name = s.name /\ KeysNamed(new)
          BY <3>1, <3>3, <5>1, KeyAdded
        <5> QED BY <5>2 DEF SectionOK
      <4> HIDE DEF new
      <4>2. Readable(lastChanged(ini, new))
        BY <2>1, <4>1, LastChangedStaysReadable DEF s
      <4> QED BY <4>2 DEF new, WithKey
    <3> QED BY <2>3, <3>2, <3>3, ErrorIs
  <2> QED BY <2>1, <2>5, <2>6, <2>7, <2>8
<1> QED BY <1>1, <1>2, <1>3, <1>4 DEF Opened

LEMMA NothingIsReadable == Readable(Ini(<<>>, <<>>)) /\ Ini(<<>>, <<>>).preamble = <<>> /\ Ini(<<>>, <<>>).sections = <<>>
<1>1. <<>> \in Seq(Lines) /\ <<>> \in Seq(Sections) /\ DOMAIN <<>> = {}
  OBVIOUS
<1> QED BY <1>1 DEF Ini, Readable, Tidy, Inis

LEMMA ParsedIsReadable ==
  ASSUME NEW lines \in Seq(Lines)
  PROVE  parseGodotIni(lines) \in Inis /\ (parseGodotIni(lines).ok => Readable(parseGodotIni(lines)))
<1> DEFINE S == {ini \in Inis : ini.ok => Readable(ini)}
           n == Len(lines)
<1>1. Ini(<<>>, <<>>) \in S
  BY NothingIsReadable DEF Readable, Tidy
<1>2. n \in Nat /\ DOMAIN lines = 1 .. n /\ \A k \in 1 .. n : lines[k] \in Lines
  OBVIOUS
<1>3. \A k \in 1 .. n : \A x \in S : parseLine(x, lines[k]) \in S
  BY <1>2, LineKeepsReadable
<1> HIDE DEF S, n
<1>4. LineFold!Fold(Ini(<<>>, <<>>), lines) \in S
  BY <1>1, <1>2, <1>3, LineFold!FoldKeeps
<1> QED BY <1>4, LinesAreFolded DEF parseGodotIni, S

-----------------------------------------------------------------------------
\* What is written is read.
Rewritten(s) == [s EXCEPT !.trailing = IF s.keys = <<>> THEN s.trailing + 1 ELSE s.trailing]
Start == Ini(<<>>, <<>>)
Reread(ini) == Ini(ini.preamble, [i \in DOMAIN ini.sections |-> Rewritten(ini.sections[i])])

LEMMA WithChanged ==
  ASSUME NEW x \in Inis, x.ok, NEW s \in Sections, NEW s2 \in Sections
  PROVE  /\ Opened(With(x, s)) /\ Last(With(x, s).sections) = s
         /\ lastChanged(With(x, s), s2) = With(x, s2)
<1>1. /\ With(x, s) \in Inis /\ With(x, s).ok /\ With(x, s).sections = Append(x.sections, s)
      /\ With(x, s).sections # <<>> /\ Last(With(x, s).sections) = s
      /\ Len(With(x, s).sections) = Len(x.sections) + 1
  BY SectionAdded
<1>2. x.sections \in Seq(Sections)
  BY DEF Inis
<1> DEFINE n == Len(x.sections) + 1
<1>3. [Append(x.sections, s) EXCEPT ![n] = s2] = Append(x.sections, s2)
  <2> DEFINE a == x.sections
             c == Append(a, s2)
             d == [Append(a, s) EXCEPT ![n] = s2]
  <2>1. /\ a \in Seq(Sections) /\ Append(a, s) \in Seq(Sections) /\ Len(Append(a, s)) = Len(a) + 1
        /\ DOMAIN Append(a, s) = 1 .. Len(a) + 1 /\ Append(a, s)[Len(a) + 1] = s
        /\ \A i \in 1 .. Len(a) : Append(a, s)[i] = a[i]
    BY <1>2
  <2>2. /\ c = [i \in 1 .. Len(a) + 1 |-> c[i]] /\ c[Len(a) + 1] = s2 /\ \A i \in 1 .. Len(a) : c[i] = a[i]
    BY <1>2
  <2>3. /\ DOMAIN d = 1 .. Len(a) + 1 /\ d = [i \in DOMAIN d |-> d[i]] /\ d[Len(a) + 1] = s2
        /\ \A i \in 1 .. Len(a) : d[i] = a[i]
    <3> DEFINE e == Append(a, s)
               m == Len(a)
    <3>1. /\ m \in Nat /\ n = m + 1 /\ DOMAIN e = 1 .. m + 1 /\ \A i \in 1 .. m : e[i] = a[i]
      BY <2>1
    <3> HIDE DEF e, m
    <3>2. /\ DOMAIN [e EXCEPT ![m + 1] = s2] = 1 .. m + 1 /\ [e EXCEPT ![m + 1] = s2][m + 1] = s2
          /\ \A i \in 1 .. m : [e EXCEPT ![m + 1] = s2][i] = a[i]
      BY <3>1
    <3>3. [e EXCEPT ![m + 1] = s2] = [i \in DOMAIN [e EXCEPT ![m + 1] = s2] |-> [e EXCEPT ![m + 1] = s2][i]]
      OBVIOUS
    <3>4. d = [e EXCEPT ![m + 1] = s2]
      BY <3>1 DEF e
    <3> HIDE DEF d
    <3> QED BY <3>2, <3>3, <3>4 DEF m
  <2> HIDE DEF c, d
  <2>4. \A i \in 1 .. Len(a) + 1 : c[i] = d[i]
    <3>1. \A i \in 1 .. Len(a) + 1 : i \in 1 .. Len(a) \/ i = Len(a) + 1
      BY <1>2
    <3> QED BY <2>2, <2>3, <3>1
  <2>5. c = d
    BY <2>2, <2>3, <2>4
  <2> QED BY <2>5 DEF c, d
<1>4. lastChanged(With(x, s), s2) = [With(x, s) EXCEPT !.sections = [Append(x.sections, s) EXCEPT ![n] = s2]]
  BY <1>1 DEF lastChanged
<1>5. [With(x, s) EXCEPT !.sections = Append(x.sections, s2)] = With(x, s2)
  BY DEF With, Inis
<1> QED BY <1>1, <1>3, <1>4, <1>5 DEF Opened

LEMMA ConcatIs ==
  ASSUME NEW T, NEW a \in Seq(T), NEW b \in Seq(T)
  PROVE  /\ a \o b \in Seq(T) /\ Len(a) \in Nat /\ Len(b) \in Nat /\ Len(a \o b) = Len(a) + Len(b)
         /\ DOMAIN a = 1 .. Len(a) /\ DOMAIN b = 1 .. Len(b) /\ DOMAIN (a \o b) = 1 .. Len(a) + Len(b)
         /\ \A i \in 1 .. Len(a) : (a \o b)[i] = a[i]
         /\ \A i \in 1 .. Len(b) : (a \o b)[Len(a) + i] = b[i]
OBVIOUS

LEMMA SectionWritten ==
  ASSUME NEW s \in Sections
  PROVE  LET out == serializeSection(s)
             m   == Len(s.keys) IN
         /\ out \in Seq(Lines) /\ m \in Nat /\ Len(out) = 2 + m + s.trailing
         /\ out[1] = Header(s.name) /\ out[2] = Blank
         /\ \A j \in 1 .. m : out[2 + j] = s.keys[j]
         /\ \A j \in 1 .. s.trailing : out[2 + m + j] = Blank
<1> DEFINE head == <<Header(s.name), Blank>>
           keys == s.keys
           tail == [i \in 1 .. s.trailing |-> Blank]
<1>1. keys \in Seq(KeyLines) /\ s.name \in SectionNames /\ s.trailing \in Nat
  BY DEF Sections
<1>2. keys \in Seq(Lines)
  BY <1>1, LinesAre
<1>3. Header(s.name) \in Lines /\ Blank \in Lines
  BY <1>1, LinesAre
<1>4. head \in Seq(Lines) /\ Len(head) = 2 /\ head[1] = Header(s.name) /\ head[2] = Blank
  BY <1>3
<1>5. tail \in Seq(Lines) /\ Len(tail) = s.trailing /\ \A j \in 1 .. s.trailing : tail[j] = Blank
  BY <1>1, <1>3
<1>6. serializeSection(s) = (head \o keys) \o tail
  BY DEF serializeSection
<1> HIDE DEF head, keys, tail
<1>7. /\ head \o keys \in Seq(Lines) /\ Len(head \o keys) = 2 + Len(keys)
      /\ (head \o keys)[1] = Header(s.name) /\ (head \o keys)[2] = Blank
      /\ \A j \in 1 .. Len(keys) : (head \o keys)[2 + j] = keys[j]
  <2> DEFINE c == head \o keys
             m == Len(head)
             n == Len(keys)
  <2>1. /\ c \in Seq(Lines) /\ n \in Nat /\ Len(c) = m + n /\ \A i \in 1 .. m : c[i] = head[i]
        /\ \A i \in 1 .. n : c[m + i] = keys[i]
    BY <1>2, <1>4, ConcatIs
  <2>2. m = 2 /\ head[1] = Header(s.name) /\ head[2] = Blank
    BY <1>4
  <2> HIDE DEF c, m, n
  <2>3. /\ c \in Seq(Lines) /\ Len(c) = 2 + n /\ c[1] = head[1] /\ c[2] = head[2]
        /\ \A i \in 1 .. n : c[2 + i] = keys[i]
    BY <2>1, <2>2
  <2> QED BY <2>2, <2>3 DEF c, n
<1> DEFINE first == head \o keys
<1> HIDE DEF first
<1>8. /\ first \o tail \in Seq(Lines) /\ Len(first \o tail) = 2 + Len(keys) + s.trailing
      /\ (first \o tail)[1] = Header(s.name) /\ (first \o tail)[2] = Blank
      /\ \A j \in 1 .. Len(keys) : (first \o tail)[2 + j] = keys[j]
      /\ \A j \in 1 .. s.trailing : (first \o tail)[2 + Len(keys) + j] = Blank
  <2> DEFINE n == Len(keys)
  <2>1. n \in Nat /\ first \in Seq(Lines) /\ Len(first) = 2 + n /\ first[1] = Header(s.name) /\ first[2] = Blank
        /\ \A j \in 1 .. n : first[2 + j] = keys[j]
    BY <1>2, <1>7 DEF first
  <2> HIDE DEF n
  <2>2. /\ 1 \in 1 .. 2 + n /\ 2 \in 1 .. 2 + n /\ \A j \in 1 .. n : 2 + j \in 1 .. 2 + n
    BY <2>1
  <2>3. /\ first \o tail \in Seq(Lines) /\ Len(first \o tail) = 2 + n + s.trailing
        /\ \A i \in 1 .. 2 + n : (first \o tail)[i] = first[i]
        /\ \A i \in 1 .. s.trailing : (first \o tail)[2 + n + i] = tail[i]
    <3> DEFINE c == first \o tail
               m == Len(first)
               k == Len(tail)
    <3>0. first \in Seq(Lines) /\ tail \in Seq(Lines)
      BY <1>5, <2>1
    <3>1. /\ c \in Seq(Lines) /\ Len(c) = m + k /\ \A i \in 1 .. m : c[i] = first[i]
          /\ \A i \in 1 .. k : c[m + i] = tail[i]
      BY <3>0, ConcatIs
    <3>2. m = 2 + n /\ k = s.trailing
      BY <1>5, <2>1
    <3> HIDE DEF c, m, k
    <3> QED BY <3>1, <3>2 DEF c
  <2> QED BY <1>5, <2>1, <2>2, <2>3 DEF n
<1>9. Len(keys) \in Nat
  BY <1>1
<1> QED BY <1>6, <1>8, <1>9 DEF first, keys

\* A section as it is read back, line after line.
LEMMA SectionRead ==
  ASSUME NEW x \in Inis, x.ok, NEW s, SectionOK(s), named(x.sections, s.name) = {}
  PROVE  LineFold!Fold(x, serializeSection(s)) = With(x, Rewritten(s))
<1> DEFINE Part(j, t) == [name |-> s.name, keys |-> [i \in 1 .. j |-> s.keys[i]], trailing |-> t]
           m == Len(s.keys)
           r == s.trailing
           out == serializeSection(s)
<1>1. /\ s \in Sections /\ s.name \in SectionNames /\ s.keys \in Seq(KeyLines) /\ m \in Nat /\ r \in Nat
      /\ DOMAIN s.keys = 1 .. m
  BY DEF SectionOK, Sections
<1>2. /\ out \in Seq(Lines) /\ Len(out) = 2 + m + r /\ out[1] = Header(s.name) /\ out[2] = Blank
      /\ \A j \in 1 .. m : out[2 + j] = s.keys[j]
      /\ \A j \in 1 .. r : out[2 + m + j] = Blank
  BY <1>1, SectionWritten
<1>3. ASSUME NEW j \in 0 .. m, NEW t \in Nat
      PROVE  Part(j, t) \in Sections /\ Part(j, t).name = s.name /\ Part(j, t).trailing = t
             /\ Part(j, t).keys = [i \in 1 .. j |-> s.keys[i]]
  <2>1. [i \in 1 .. j |-> s.keys[i]] \in Seq(KeyLines)
    BY <1>1
  <2> QED BY <1>1, <2>1 DEF Sections
<1>4. Part(0, 0) = Section(s.name)
  BY DEF Section
<1>5. s.keys = [i \in 1 .. m |-> s.keys[i]]
  BY <1>1
<1> HIDE DEF out, m, r
<1>6. parseLine(x, out[1]) = With(x, Part(0, 0))
  BY <1>1, <1>2, <1>4, LineHeader
<1>7. ASSUME NEW j \in 0 .. m, NEW t \in Nat
      PROVE  parseLine(With(x, Part(j, t)), Blank) = With(x, Part(j, t + 1))
  <2> DEFINE p == Part(j, t)
             q == Part(j, t + 1)
  <2>1. t + 1 \in Nat
    OBVIOUS
  <2>2. p \in Sections /\ q \in Sections
    BY <1>3, <2>1
  <2>5. [p EXCEPT !.trailing = @ + 1] = q
    <3> DEFINE ks == [i \in 1 .. j |-> s.keys[i]]
    <3> HIDE DEF ks
    <3>1. p = [name |-> s.name, keys |-> ks, trailing |-> t] /\ q = [name |-> s.name, keys |-> ks, trailing |-> t + 1]
      BY DEF ks
    <3> HIDE DEF p, q
    <3> QED BY <3>1
  <2> HIDE DEF p, q
  <2>3. Opened(With(x, p)) /\ Last(With(x, p).sections) = p /\ lastChanged(With(x, p), q) = With(x, q)
    BY <2>2, WithChanged
  <2>4. parseLine(With(x, p), Blank) = lastChanged(With(x, p), [p EXCEPT !.trailing = @ + 1])
    BY <2>3, LineBlank
  <2> QED BY <2>3, <2>4, <2>5 DEF p, q
<1>8. ASSUME NEW j \in 0 .. m, j + 1 \in 1 .. m, NEW t \in Nat
      PROVE  parseLine(With(x, Part(j, t)), s.keys[j + 1]) = With(x, Part(j + 1, 0))
  <2> DEFINE l == s.keys[j + 1]
             p == Part(j, t)
             q == Part(j + 1, 0)
  <2>1. l \in KeyLines /\ l.name \notin Refused
    BY <1>1, <1>8 DEF SectionOK, KeysNamed
  <2>2. \A i \in 1 .. j : s.keys[i].name # l.name
    BY <1>1, <1>8 DEF SectionOK, KeysOnce
  <2>3. j + 1 \in 0 .. m /\ 0 \in Nat
    BY <1>1, <1>8
  <2>4. p \in Sections /\ q \in Sections /\ p.keys = [i \in 1 .. j |-> s.keys[i]] /\ p.name = s.name
        /\ q = [name |-> s.name, keys |-> [i \in 1 .. j + 1 |-> s.keys[i]], trailing |-> 0]
        /\ p = [name |-> s.name, keys |-> p.keys, trailing |-> t]
    BY <1>3, <2>3
  <2>5. named(p.keys, l.name) = {}
    BY <2>2, <2>4 DEF named
  <2>6. Append(p.keys, l) = [i \in 1 .. j + 1 |-> s.keys[i]]
    <3> DEFINE c == [i \in 1 .. j |-> s.keys[i]]
    <3>1. c \in Seq(KeyLines) /\ Len(c) = j
      BY <1>1
    <3>2. Append(c, l) = [i \in 1 .. j + 1 |-> IF i = j + 1 THEN l ELSE c[i]]
      BY <3>1
    <3>3. \A i \in 1 .. j + 1 : (IF i = j + 1 THEN l ELSE c[i]) = s.keys[i]
      OBVIOUS
    <3> QED BY <2>4, <3>2, <3>3
  <2>7. [p EXCEPT !.trailing = 0, !.keys = Append(@, l)] = q
    <3> DEFINE z == 0
               w == WithKey(p, l, z)
    <3>1. KeysOnce(p)
      <4>1. \A i, i2 \in DOMAIN s.keys : s.keys[i].name = s.keys[i2].name => i = i2
        BY DEF SectionOK, KeysOnce
      <4>2. \A i \in 1 .. j : i \in DOMAIN s.keys
        BY <1>1
      <4>3. DOMAIN p.keys = 1 .. j /\ \A i \in 1 .. j : p.keys[i] = s.keys[i]
        BY <2>4
      <4> HIDE DEF p
      <4> QED BY <4>1, <4>2, <4>3 DEF KeysOnce
    <3>2. z \in Nat
      OBVIOUS
    <3>3. q.name = s.name /\ q.trailing = z /\ q.keys = Append(p.keys, l)
      BY <2>4, <2>6
    <3> HIDE DEF z, p, q, l
    <3>4. w \in Sections /\ w.name = p.name /\ w.trailing = z /\ w.keys = Append(p.keys, l)
      BY <2>1, <2>4, <2>5, <3>1, <3>2, KeyAdded
    <3> HIDE DEF w
    <3>5. w = q
      BY <2>4, <3>3, <3>4 DEF Sections
    <3> QED BY <3>5 DEF w, z, WithKey
  <2> HIDE DEF p, q, l
  <2>8. Opened(With(x, p)) /\ Last(With(x, p).sections) = p /\ lastChanged(With(x, p), q) = With(x, q)
    BY <2>4, WithChanged
  <2>9. parseLine(With(x, p), l) = lastChanged(With(x, p), [p EXCEPT !.trailing = 0, !.keys = Append(@, l)])
    BY <2>1, <2>5, <2>8, LineKey
  <2> QED BY <2>7, <2>8, <2>9 DEF p, q, l
<1>9. Part(m, IF m = 0 THEN 1 + r ELSE r) = Rewritten(s)
  <2>1. s.keys = <<>> <=> m = 0
    BY <1>1, <1>5
  <2>2. [name |-> s.name, keys |-> s.keys, trailing |-> IF m = 0 THEN 1 + r ELSE r] = Rewritten(s)
    BY <1>1, <2>1 DEF Rewritten, r, Sections
  <2> QED BY <1>5, <2>2
<1> DEFINE n == 2 + m + r
           After(k) == IF k = 0 THEN x
                       ELSE IF k = 1 THEN With(x, Part(0, 0))
                       ELSE IF k <= 2 + m THEN With(x, Part(k - 2, IF k = 2 THEN 1 ELSE 0))
                       ELSE With(x, Part(m, IF m = 0 THEN 1 + (k - 2 - m) ELSE k - 2 - m))
           S == [k \in 0 .. n |-> {After(k)}]
<1> HIDE DEF Part
<1>10. ASSUME NEW k \in 1 .. n
       PROVE  parseLine(After(k - 1), out[k]) = After(k)
  <2>1. CASE k = 1
    BY <1>6, <2>1
  <2>2. CASE k = 2
    <3>1. 0 \in 0 .. m /\ 0 \in Nat /\ 2 <= 2 + m
      BY <1>1
    <3>2. parseLine(With(x, Part(0, 0)), Blank) = With(x, Part(0, 0 + 1))
      BY <1>7, <3>1
    <3>3. After(1) = With(x, Part(0, 0)) /\ After(2) = With(x, Part(0, 1)) /\ 2 - 1 = 1 /\ 0 + 1 = 1
      BY <3>1
    <3> HIDE DEF After
    <3> QED BY <1>2, <2>2, <3>2, <3>3
  <2>3. CASE k > 2 /\ k <= 2 + m
    <3> DEFINE j == k - 3
               t == IF k - 1 = 2 THEN 1 ELSE 0
    <3>1. j \in 0 .. m /\ j + 1 \in 1 .. m /\ t \in Nat /\ k = 2 + (j + 1) /\ j + 1 = k - 2 /\ (k - 1) - 2 = j
      BY <1>1, <2>3
    <3>2. After(k - 1) = With(x, Part(j, t)) /\ After(k) = With(x, Part(j + 1, 0))
      BY <1>1, <2>3, <3>1
    <3> HIDE DEF After, j, t
    <3>3. out[k] = s.keys[j + 1]
      BY <1>2, <3>1
    <3> QED BY <1>8, <3>1, <3>2, <3>3
  <2>4. CASE k > 2 + m
    <3> DEFINE j == k - 2 - m
               t == IF m = 0 THEN 1 + (j - 1) ELSE j - 1
    <3>0. /\ j \in 1 .. r /\ k = 2 + m + j /\ m \in 0 .. m /\ (k - 1) - 2 - m = j - 1
          /\ k # 0 /\ k # 1 /\ k # 2 /\ k - 1 # 0 /\ k - 1 # 1
      <4>1. k \in Nat /\ k <= 2 + m + r
        BY <1>1
      <4>2. m \in Nat /\ r \in Nat
        BY <1>1
      <4> QED BY <4>1, <4>2, <2>4
    <3>1. t \in Nat /\ t + 1 = (IF m = 0 THEN 1 + j ELSE j)
      <4> HIDE DEF j
      <4> QED BY <1>1, <3>0
    <3>2. After(k) = With(x, Part(m, t + 1))
      BY <2>4, <3>0, <3>1
    <3>3. After(k - 1) = With(x, Part(m, t))
      <4>1. CASE k - 1 <= 2 + m
        <5>1. j = 1 /\ k - 1 = 2 + m /\ (k - 1) - 2 = m /\ (k - 1 = 2 <=> m = 0) /\ t = IF m = 0 THEN 1 ELSE 0
          BY <1>1, <2>4, <3>0, <4>1
        <5> QED BY <3>0, <4>1, <5>1
      <4>2. CASE ~(k - 1 <= 2 + m)
        BY <3>0, <4>2
      <4> QED BY <4>1, <4>2
    <3> HIDE DEF After, t, j
    <3>4. out[k] = Blank
      BY <1>2, <3>0
    <3> QED BY <1>7, <3>0, <3>1, <3>2, <3>3, <3>4
  <2> QED BY <1>1, <2>1, <2>2, <2>3, <2>4
<1>11. n \in Nat /\ DOMAIN out = 1 .. n /\ S[0] = {After(0)} /\ After(0) = x /\ S[n] = {After(n)}
       /\ \A k \in 1 .. n : S[k - 1] = {After(k - 1)} /\ S[k] = {After(k)}
  <2>1. n \in Nat /\ 0 \in 0 .. n /\ n \in 0 .. n /\ \A k \in 1 .. n : k - 1 \in 0 .. n /\ k \in 0 .. n
    BY <1>1
  <2>2. DOMAIN out = 1 .. n
    BY <1>2
  <2>3. After(0) = x
    OBVIOUS
  <2> HIDE DEF After, n
  <2> QED BY <2>1, <2>2, <2>3
<1>12. After(n) = With(x, Part(m, IF m = 0 THEN 1 + r ELSE r))
  <2>1. CASE r = 0
    <3>1. n = 2 + m /\ n # 0 /\ n # 1 /\ n - 2 = m /\ (n = 2 <=> m = 0) /\ n <= 2 + m
      BY <1>1, <2>1
    <3>2. (IF n = 2 THEN 1 ELSE 0) = (IF m = 0 THEN 1 + r ELSE r)
      BY <2>1, <3>1
    <3> HIDE DEF n
    <3> QED BY <3>1, <3>2
  <2>2. CASE r # 0
    <3>1. n # 0 /\ n # 1 /\ ~(n <= 2 + m) /\ n - 2 - m = r
      BY <1>1, <2>2
    <3> HIDE DEF n
    <3> QED BY <3>1
  <2> QED BY <2>1, <2>2
<1> HIDE DEF S, After, n
<1>13. LineFold!Fold(x, out) \in S[n]
  <2>1. x \in S[0] /\ \A k \in 1 .. n : \A y \in S[k - 1] : parseLine(y, out[k]) \in S[k]
    BY <1>10, <1>11
  <2> QED BY <1>11, <2>1, LineFold!FoldPasses
<1>14. LineFold!Fold(x, out) = After(n)
  BY <1>11, <1>13
<1> QED BY <1>9, <1>12, <1>14 DEF out

LEMMA IniIs ==
  ASSUME NEW pre \in Seq(Lines), NEW secs \in Seq(Sections)
  PROVE  Ini(pre, secs) \in Inis /\ Ini(pre, secs).ok /\ Ini(pre, secs).preamble = pre /\ Ini(pre, secs).sections = secs
BY DEF Ini, Inis

LEMMA PreambleRead ==
  ASSUME NEW pre \in Seq(Lines), \A i \in DOMAIN pre : pre[i].kind # "section"
  PROVE  LineFold!Fold(Start, pre) = Ini(pre, <<>>)
<1> DEFINE n == Len(pre)
           Part(k) == [i \in 1 .. k |-> pre[i]]
           S == [k \in 0 .. n |-> {Ini(Part(k), <<>>)}]
<1>1. n \in Nat /\ DOMAIN pre = 1 .. n /\ \A k \in 0 .. n : Part(k) \in Seq(Lines) /\ Len(Part(k)) = k
  OBVIOUS
<1>2. Part(0) = <<>> /\ Part(n) = pre
  OBVIOUS
<1>3. ASSUME NEW k \in 1 .. n
      PROVE  parseLine(Ini(Part(k - 1), <<>>), pre[k]) = Ini(Part(k), <<>>)
  <2>1. k - 1 \in 0 .. n /\ pre[k] \in Lines /\ pre[k].kind # "section" /\ <<>> \in Seq(Sections)
    BY <1>1
  <2>2. Append(Part(k - 1), pre[k]) = Part(k)
    OBVIOUS
  <2> DEFINE x == Ini(Part(k - 1), <<>>)
  <2>3. x \in Inis /\ x.ok /\ x.preamble = Part(k - 1) /\ x.sections = <<>>
    BY <1>1, <2>1, IniIs
  <2> DEFINE more == Append(x.preamble, pre[k])
             new == [x EXCEPT !.preamble = more]
  <2>4. more = Part(k)
    BY <2>2, <2>3
  <2> HIDE DEF x, Part
  <2>5. parseLine(x, pre[k]) = new
    BY <2>1, <2>3, LineOther
  <2> HIDE DEF more
  <2>6. Part(k) \in Seq(Lines)
    BY <1>1
  <2>7. new \in Inis /\ new.ok /\ new.preamble = Part(k) /\ new.sections = <<>>
    BY <2>3, <2>4, <2>6 DEF Inis
  <2>8. \A y \in Inis : y.ok => y = Ini(y.preamble, y.sections)
    BY DEF Inis, Ini
  <2> HIDE DEF new
  <2>9. new = Ini(Part(k), <<>>)
    BY <2>7, <2>8
  <2> QED BY <2>5, <2>9 DEF x
<1>4. S[0] = {Ini(Part(0), <<>>)} /\ S[n] = {Ini(Part(n), <<>>)}
      /\ \A k \in 1 .. n : S[k - 1] = {Ini(Part(k - 1), <<>>)} /\ S[k] = {Ini(Part(k), <<>>)}
  <2>1. 0 \in 0 .. n /\ n \in 0 .. n /\ \A k \in 1 .. n : k - 1 \in 0 .. n /\ k \in 0 .. n
    BY <1>1
  <2> HIDE DEF n, Part
  <2> QED BY <2>1
<1>5. Start \in S[0]
  BY <1>2, <1>4 DEF Start
<1> HIDE DEF S, Part, n
<1>6. LineFold!Fold(Start, pre) \in S[n]
  <2>1. n \in Nat /\ DOMAIN pre = 1 .. n /\ \A k \in 1 .. n : \A y \in S[k - 1] : parseLine(y, pre[k]) \in S[k]
    <3>1. ASSUME NEW k \in 1 .. n, NEW y \in S[k - 1]
          PROVE  parseLine(y, pre[k]) \in S[k]
      <4>1. y = Ini(Part(k - 1), <<>>) /\ S[k] = {Ini(Part(k), <<>>)}
        BY <1>4
      <4> QED BY <1>3, <4>1
    <3> QED BY <1>1, <3>1
  <2> QED BY <1>5, <2>1, LineFold!FoldPasses
<1> QED BY <1>2, <1>4, <1>6

LEMMA RewrittenIs ==
  ASSUME NEW s \in Sections
  PROVE  Rewritten(s) \in Sections /\ Rewritten(s).name = s.name /\ Rewritten(s).keys = s.keys
         /\ (s.keys # <<>> => Rewritten(s) = s)
<1>1. s.trailing \in Nat /\ s.trailing + 1 \in Nat
  BY DEF Sections
<1> QED BY <1>1 DEF Rewritten, Sections

LEMMA RereadIs ==
  ASSUME NEW ini \in Inis
  PROVE  /\ Reread(ini) \in Inis /\ Reread(ini).ok /\ Reread(ini).preamble = ini.preamble
         /\ Reread(ini).sections = [i \in DOMAIN ini.sections |-> Rewritten(ini.sections[i])]
         /\ DOMAIN Reread(ini).sections = DOMAIN ini.sections /\ Len(Reread(ini).sections) = Len(ini.sections)
<1> DEFINE secs == [i \in DOMAIN ini.sections |-> Rewritten(ini.sections[i])]
<1>1. ini.sections \in Seq(Sections) /\ ini.preamble \in Seq(Lines)
  BY DEF Inis
<1>2. \A i \in 1 .. Len(ini.sections) : Rewritten(ini.sections[i]) \in Sections
  BY <1>1, RewrittenIs
<1>3. secs \in Seq(Sections) /\ Len(secs) = Len(ini.sections) /\ DOMAIN secs = DOMAIN ini.sections
  BY <1>1, <1>2
<1> HIDE DEF secs
<1>4. Reread(ini) = Ini(ini.preamble, secs)
  BY DEF Reread, secs
<1> QED BY <1>1, <1>3, <1>4, IniIs DEF secs

\* A file as it is read back, section after section.
LEMMA FileRead ==
  ASSUME NEW ini, Readable(ini)
  PROVE  serializeGodotIni(ini) \in Seq(Lines) /\ parseGodotIni(serializeGodotIni(ini)) = Reread(ini)
<1> DEFINE secs == ini.sections
           n == Len(secs)
           re == [i \in DOMAIN secs |-> Rewritten(secs[i])]
           Part(k) == Ini(ini.preamble, [i \in 1 .. k |-> re[i]])
           S == [k \in 0 .. n |-> {out \in Seq(Lines) : LineFold!Fold(Start, out) = Part(k)}]
<1>1. secs \in Seq(Sections) /\ ini.preamble \in Seq(Lines) /\ ini \in Inis /\ n \in Nat /\ DOMAIN secs = 1 .. n
  BY DEF Readable, Tidy, Inis
<1>2. \A i \in 1 .. n : SectionOK(secs[i])
  BY <1>1 DEF Readable, Tidy, SectionOK
<1>3. \A i \in 1 .. n : re[i] \in Sections /\ re[i].name = secs[i].name
  BY <1>1, RewrittenIs
<1>4. \A k \in 0 .. n : [i \in 1 .. k |-> re[i]] \in Seq(Sections)
  BY <1>3
<1>5. [i \in 1 .. 0 |-> re[i]] = <<>> /\ [i \in 1 .. n |-> re[i]] = re /\ Part(n) = Reread(ini)
  <2>1. [i \in 1 .. 0 |-> re[i]] = <<>>
    OBVIOUS
  <2>2. [i \in 1 .. n |-> re[i]] = re
    BY <1>1
  <2>3. Reread(ini) = Ini(ini.preamble, re)
    BY DEF Reread
  <2> HIDE DEF re, n
  <2> QED BY <2>1, <2>2, <2>3
<1>6. ini.preamble \in S[0]
  <2>1. LineFold!Fold(Start, ini.preamble) = Ini(ini.preamble, <<>>)
    BY <1>1, PreambleRead DEF Readable, Tidy
  <2>2. 0 \in 0 .. n
    BY <1>1
  <2> HIDE DEF n
  <2> QED BY <1>1, <1>5, <2>1, <2>2
<1> HIDE DEF re, n
<1>7. ASSUME NEW k \in 1 .. n, NEW out \in S[k - 1]
      PROVE  addSection(out, secs[k]) \in S[k]
  <2> DEFINE s == secs[k]
             x == Part(k - 1)
             more == serializeSection(s)
             before == [i \in 1 .. k - 1 |-> re[i]]
  <2>1. k \in 0 .. n /\ k - 1 \in 0 .. n /\ k \in 1 .. n
    BY <1>1
  <2>2. out \in Seq(Lines) /\ LineFold!Fold(Start, out) = x
    BY <2>1
  <2>3. SectionOK(s) /\ s \in Sections
    BY <1>2 DEF SectionOK
  <2>4. more \in Seq(Lines)
    BY <2>3, SectionWritten
  <2>5. before \in Seq(Sections) /\ Len(before) = k - 1 /\ DOMAIN before = 1 .. k - 1
    BY <1>4, <2>1
  <2>6. x \in Inis /\ x.ok /\ x.sections = before
    BY <1>1, <2>5, IniIs
  <2>7. named(x.sections, s.name) = {}
    <3>0. \A i, j \in DOMAIN secs : secs[i].name = secs[j].name => i = j
      BY DEF Readable, Tidy
    <3>1. ASSUME NEW i \in 1 .. k - 1 PROVE secs[i].name # secs[k].name /\ i \in 1 .. n
      <4>1. i \in 1 .. n /\ i # k
        BY <1>1, <2>1
      <4> QED BY <1>1, <2>1, <3>0, <4>1
    <3>2. \A i \in 1 .. k - 1 : before[i].name # s.name
      BY <1>3, <3>1
    <3> HIDE DEF before, s, x
    <3> QED BY <2>5, <2>6, <3>2 DEF named
  <2>8. LineFold!Fold(x, more) = With(x, Rewritten(s))
    BY <2>3, <2>6, <2>7, SectionRead
  <2>9. With(x, Rewritten(s)) = Part(k)
    <3>1. Rewritten(s) = re[k]
      BY <1>1 DEF re
    <3>2. Append(before, re[k]) = [i \in 1 .. k |-> re[i]]
      <4>1. Append(before, re[k]) = [i \in 1 .. k |-> IF i = k THEN re[k] ELSE before[i]]
        <5>1. Len(before) + 1 = k
          BY <2>5
        <5> HIDE DEF before
        <5> QED BY <2>5, <5>1
      <4> QED BY <4>1
    <3>3. With(x, re[k]) = Ini(ini.preamble, Append(before, re[k]))
      <4> DEFINE new == With(x, re[k])
      <4>1. x.preamble = ini.preamble /\ re[k] \in Sections
        BY <1>1, <1>3, <2>5, IniIs
      <4> HIDE DEF x
      <4>2. new \in Inis /\ new.ok /\ new.preamble = ini.preamble /\ new.sections = Append(before, re[k])
        BY <2>6, <4>1, SectionAdded
      <4>3. \A y \in Inis : y.ok => y = Ini(y.preamble, y.sections)
        BY DEF Inis, Ini
      <4> HIDE DEF new, before
      <4>4. new = Ini(ini.preamble, Append(before, re[k]))
        BY <4>2, <4>3
      <4> QED BY <4>4 DEF new, x
    <3> QED BY <3>1, <3>2, <3>3
  <2> DEFINE m == Len(out)
             r == Len(more)
  <2>10. m \in Nat /\ r \in Nat /\ LineFold!Joined(out, m, more, r, out \o more) /\ out \o more \in Seq(Lines)
    <3> HIDE DEF more
    <3> QED BY <2>2, <2>4, ConcatIs DEF LineFold!Joined
  <2> HIDE DEF m, r, more, x
  <2>11. LineFold!Fold(Start, out \o more) = LineFold!Fold(LineFold!Fold(Start, out), more)
    BY <2>10, LineFold!FoldParts
  <2>12. addSection(out, s) = out \o more
    BY DEF addSection, more
  <2> HIDE DEF s
  <2>13. addSection(out, s) \in Seq(Lines) /\ LineFold!Fold(Start, addSection(out, s)) = Part(k)
    BY <2>2, <2>8, <2>9, <2>10, <2>11, <2>12
  <2> HIDE DEF Part
  <2>14. addSection(out, s) \in S[k]
    BY <2>1, <2>13
  <2> QED BY <2>14 DEF s
<1>8. S[n] = {out \in Seq(Lines) : LineFold!Fold(Start, out) = Part(n)}
  <2>1. n \in 0 .. n
    BY <1>1
  <2> HIDE DEF Part
  <2> QED BY <2>1
<1> HIDE DEF S, Part, secs
<1>9. SectionFold!Fold(ini.preamble, secs) \in S[n]
  BY <1>1, <1>6, <1>7, SectionFold!FoldPasses
<1>10. SectionFold!Fold(ini.preamble, secs) = serializeGodotIni(ini)
  BY SectionsAreFolded DEF serializeGodotIni, secs
<1> QED BY <1>5, <1>8, <1>9, <1>10, LinesAreFolded DEF parseGodotIni, Start

\* A key that KEY_RE refuses makes a file that cannot be read again.
LEMMA OpenStaysOpen ==
  ASSUME NEW x, Opened(x), NEW l \in Lines
  PROVE  ~parseLine(x, l).ok \/ parseLine(x, l).sections # <<>>
<1> DEFINE s == Last(x.sections)
<1>1. x \in Inis /\ x.ok /\ s \in Sections
  BY LastIs DEF Opened
<1>2. \A r \in Sections : lastChanged(x, r).sections # <<>>
  BY LastChangedIs DEF Opened
<1>3. CASE l.kind = "section"
  <2>1. l.name \in SectionNames /\ l = Header(l.name)
    BY <1>3, LinesAre
  <2>2. parseLine(x, l) = ParseError \/ parseLine(x, l) = With(x, Section(l.name))
    BY <1>1, <2>1, LineHeader
  <2>3. Section(l.name) \in Sections
    BY <2>1, SectionIs DEF SectionOK
  <2> QED BY <1>1, <2>2, <2>3, ErrorIs, SectionAdded
<1> HIDE DEF s
<1>4. ASSUME NEW r \in Nat
      PROVE  [s EXCEPT !.trailing = r] \in Sections
  BY <1>1 DEF Sections
<1>5. CASE l.kind = "blank"
  <2>1. s.trailing + 1 \in Nat /\ parseLine(x, l) = lastChanged(x, [s EXCEPT !.trailing = @ + 1])
    <3>1. s.trailing + 1 \in Nat
      BY <1>1 DEF Sections
    <3>2. parseLine(x, l) = lastChanged(x, [s EXCEPT !.trailing = @ + 1])
      BY <1>1, <1>5, LineOther DEF s
    <3> QED BY <3>1, <3>2
  <2>2. parseLine(x, l) = lastChanged(x, [s EXCEPT !.trailing = s.trailing + 1])
    BY <1>1, <2>1 DEF Sections
  <2> QED BY <1>2, <1>4, <2>1, <2>2
<1>6. CASE l.kind = "comment"
  BY <1>1, <1>2, <1>4, <1>6, LineOther DEF s
<1>7. CASE l.kind = "malformed"
  BY <1>1, <1>7, LineOther, ErrorIs
<1>8. CASE l.kind = "key"
  <2>1. l \in KeyLines
    BY <1>8, LinesAre
  <2>2. parseLine(x, l) = ParseError \/ parseLine(x, l) = lastChanged(x, [s EXCEPT !.trailing = 0, !.keys = Append(@, l)])
    BY <2>1, LineKey DEF s
  <2>3. [s EXCEPT !.trailing = 0, !.keys = Append(@, l)] \in Sections
    <3>1. Append(s.keys, l) \in Seq(KeyLines)
      BY <1>1, <2>1 DEF Sections
    <3> QED BY <1>1, <3>1 DEF Sections
  <2> QED BY <1>2, <2>2, <2>3, ErrorIs
<1> QED BY <1>3, <1>5, <1>6, <1>7, <1>8, LinesAre

LEMMA RefusedKeyIsNotRead ==
  ASSUME NEW lines \in Seq(Lines), NEW j \in DOMAIN lines, NEW k \in DOMAIN lines, j < k,
         lines[j].kind = "section", lines[k].kind = "key", lines[k].name \in Refused
  PROVE  ~parseGodotIni(lines).ok
<1> DEFINE n == Len(lines)
           Held(x, m) == x \in Inis /\ (x.ok => Readable(x)) /\ (m >= j => ~x.ok \/ x.sections # <<>>) /\ (m >= k => ~x.ok)
           S == [m \in 0 .. n |-> {x \in Inis : Held(x, m)}]
<1>1. n \in Nat /\ DOMAIN lines = 1 .. n /\ j \in 1 .. n /\ k \in 1 .. n /\ \A m \in 1 .. n : lines[m] \in Lines
  OBVIOUS
<1>2. Held(Start, 0)
  BY <1>1, NothingIsReadable DEF Start, Readable, Tidy
<1> HIDE DEF n
<1>3. ASSUME NEW m \in 1 .. n, NEW x, Held(x, m - 1)
      PROVE  Held(parseLine(x, lines[m]), m)
  <2> DEFINE l == lines[m]
             y == parseLine(x, l)
  <2> SUFFICES Held(y, m)
    OBVIOUS
  <2>1. l \in Lines /\ x \in Inis
    BY <1>1, <1>3
  <2>2. y \in Inis /\ (y.ok => Readable(y))
    BY <1>3, <2>1, LineKeepsReadable
  <2>3. CASE ~x.ok
    BY <1>3, <2>1, <2>2, <2>3, LineOther
  <2>4. CASE x.ok /\ m = j
    <3>1. l.name \in SectionNames /\ l = Header(l.name)
      BY <2>1, <2>4, LinesAre
    <3>2. y = ParseError \/ y = With(x, Section(l.name))
      BY <2>1, <2>4, <3>1, LineHeader
    <3>3. Section(l.name) \in Sections
      BY <3>1, SectionIs DEF SectionOK
    <3>4. ~y.ok \/ y.sections # <<>>
      BY <2>1, <3>2, <3>3, ErrorIs, SectionAdded
    <3> HIDE DEF y
    <3> QED BY <1>1, <2>2, <2>4, <3>4
  <2>5. CASE x.ok /\ m > j
    <3>1. Opened(x)
      BY <1>1, <1>3, <2>1, <2>5 DEF Opened
    <3>2. ~y.ok \/ y.sections # <<>>
      BY <2>1, <3>1, OpenStaysOpen
    <3>3. CASE m = k
      <4>1. l \in KeyLines /\ l.name \in Refused
        BY <2>1, <3>3, LinesAre
      <4>2. y = ParseError
        BY <3>1, <4>1, LineKey
      <4> HIDE DEF y
      <4> QED BY <2>2, <4>2, ErrorIs
    <3>4. CASE m # k
      <4>1. m >= k => m - 1 >= k
        BY <1>1, <3>4
      <4> HIDE DEF y, l
      <4> QED BY <1>3, <2>2, <2>5, <3>2, <4>1
    <3> QED BY <3>3, <3>4
  <2>6. CASE x.ok /\ m < j
    <3>1. ~(m >= j) /\ ~(m >= k)
      BY <1>1, <2>6
    <3> HIDE DEF y
    <3> QED BY <2>2, <3>1
  <2> QED BY <1>1, <2>3, <2>4, <2>5, <2>6
<1>4. \A x : Held(x, 0) => x \in S[0]
  BY <1>1
<1>5. \A x \in S[n] : Held(x, n)
  BY <1>1
<1>6. ASSUME NEW m \in 1 .. n, NEW x \in S[m - 1]
      PROVE  parseLine(x, lines[m]) \in S[m]
  <2>1. m \in 0 .. n /\ m - 1 \in 0 .. n
    BY <1>1
  <2>2. Held(x, m - 1)
    BY <2>1
  <2>3. Held(parseLine(x, lines[m]), m)
    BY <1>3, <2>2
  <2> QED BY <2>1, <2>3
<1>7. n >= k
  BY <1>1
<1> HIDE DEF S
<1>8. LineFold!Fold(Start, lines) \in S[n]
  BY <1>1, <1>2, <1>4, <1>6, LineFold!FoldPasses
<1> QED BY <1>5, <1>7, <1>8, LinesAreFolded DEF parseGodotIni, Start

\* Each section is somewhere in what is written.
LEMMA SectionIsWritten ==
  ASSUME NEW ini \in Inis, NEW i \in DOMAIN ini.sections
  PROVE  /\ serializeGodotIni(ini) \in Seq(Lines)
         /\ \E off \in Nat :
              /\ off + Len(serializeSection(ini.sections[i])) <= Len(serializeGodotIni(ini))
              /\ \A p \in 1 .. Len(serializeSection(ini.sections[i])) :
                    serializeGodotIni(ini)[off + p] = serializeSection(ini.sections[i])[p]
<1> DEFINE secs == ini.sections
           n == Len(secs)
           part == serializeSection(secs[i])
           At(out, off) == off + Len(part) <= Len(out) /\ \A p \in 1 .. Len(part) : out[off + p] = part[p]
           S == [k \in 0 .. n |-> {out \in Seq(Lines) : k >= i => \E off \in Nat : At(out, off)}]
<1>1. secs \in Seq(Sections) /\ ini.preamble \in Seq(Lines) /\ n \in Nat /\ DOMAIN secs = 1 .. n /\ i \in 1 .. n
  BY DEF Inis
<1>2. \A k \in 1 .. n : serializeSection(secs[k]) \in Seq(Lines)
  <2>1. \A k \in 1 .. n : secs[k] \in Sections
    BY <1>1
  <2> QED BY <2>1, SectionWritten
<1>3. part \in Seq(Lines) /\ Len(part) \in Nat
  BY <1>1, <1>2
<1> HIDE DEF part, secs, n
<1>4. ini.preamble \in S[0]
  <2>1. 0 \in 0 .. n /\ ~(0 >= i)
    BY <1>1
  <2> QED BY <1>1, <2>1
<1>5. ASSUME NEW k \in 1 .. n, NEW out \in S[k - 1]
      PROVE  addSection(out, secs[k]) \in S[k]
  <2> DEFINE more == serializeSection(secs[k])
             new == out \o more
             m == Len(out)
  <2>1. k \in 0 .. n /\ k - 1 \in 0 .. n
    BY <1>1
  <2>2. out \in Seq(Lines) /\ (k - 1 >= i => \E off \in Nat : At(out, off))
    BY <2>1
  <2>3. more \in Seq(Lines)
    BY <1>2
  <2> HIDE DEF more
  <2>4. /\ new \in Seq(Lines) /\ m \in Nat /\ Len(more) \in Nat /\ Len(new) = m + Len(more)
        /\ \A p \in 1 .. m : new[p] = out[p]
        /\ \A p \in 1 .. Len(more) : new[m + p] = more[p]
    BY <2>2, <2>3, ConcatIs
  <2> HIDE DEF new
  <2>5. CASE k = i
    <3>1. more = part
      BY <2>5 DEF more, part
    <3>2. At(new, m)
      BY <2>4, <3>1
    <3> HIDE DEF m
    <3> QED BY <2>1, <2>4, <3>2 DEF new, addSection, more
  <2>6. CASE k - 1 >= i
    <3>1. PICK off \in Nat : At(out, off)
      BY <2>2, <2>6
    <3>2. \A p \in 1 .. Len(part) : off + p \in 1 .. m
      BY <1>3, <2>4, <3>1
    <3>3. At(new, off)
      BY <1>3, <2>4, <3>1, <3>2
    <3> HIDE DEF At, m
    <3> QED BY <2>1, <2>4, <3>3 DEF new, addSection, more
  <2>7. CASE k < i
    <3>1. ~(k >= i)
      BY <1>1, <2>7
    <3> HIDE DEF At
    <3> QED BY <2>1, <2>4, <3>1 DEF new, addSection, more
  <2> QED BY <1>1, <2>5, <2>6, <2>7
<1>6. \A out \in S[n] : out \in Seq(Lines) /\ \E off \in Nat : At(out, off)
  BY <1>1
<1> HIDE DEF S, At
<1>7. SectionFold!Fold(ini.preamble, secs) \in S[n]
  BY <1>1, <1>4, <1>5, SectionFold!FoldPasses
<1>8. SectionFold!Fold(ini.preamble, secs) = serializeGodotIni(ini)
  BY SectionsAreFolded DEF serializeGodotIni, secs
<1> QED BY <1>6, <1>7, <1>8 DEF At, part, secs

LEMMA RefusedKeySpoils ==
  ASSUME NEW ini, Tidy(ini), NEW i \in DOMAIN ini.sections, ~KeysNamed(ini.sections[i])
  PROVE  ~parseGodotIni(serializeGodotIni(ini)).ok
<1> DEFINE s == ini.sections[i]
           part == serializeSection(s)
           out == serializeGodotIni(ini)
<1>1. ini \in Inis /\ s \in Sections
  BY DEF Tidy, Inis
<1>2. PICK q \in DOMAIN s.keys : s.keys[q].name \in Refused
  BY DEF KeysNamed
<1>3. s.keys \in Seq(KeyLines) /\ s.trailing \in Nat /\ s.name \in SectionNames
  BY <1>1 DEF Sections
<1> HIDE DEF s
<1>4. q \in 1 .. Len(s.keys) /\ s.keys[q] \in KeyLines /\ s.keys[q].kind = "key" /\ Len(s.keys) \in Nat
  BY <1>2, <1>3, LinesAre
<1>5. /\ Len(part) = 2 + Len(s.keys) + s.trailing /\ part[1] = Header(s.name) /\ part[2 + q] = s.keys[q]
  BY <1>1, <1>4, SectionWritten
<1>6. out \in Seq(Lines)
      /\ \E off \in Nat : off + Len(part) <= Len(out) /\ \A p \in 1 .. Len(part) : out[off + p] = part[p]
  BY <1>1, SectionIsWritten DEF s
<1> HIDE DEF part, out
<1>7. PICK off \in Nat : off + Len(part) <= Len(out) /\ \A p \in 1 .. Len(part) : out[off + p] = part[p]
  BY <1>6
<1> DEFINE j == off + 1
           k == off + (2 + q)
<1>8. 1 \in 1 .. Len(part) /\ 2 + q \in 1 .. Len(part) /\ Len(out) \in Nat /\ DOMAIN out = 1 .. Len(out)
  <2>1. Len(out) \in Nat /\ DOMAIN out = 1 .. Len(out)
    BY <1>6
  <2>2. Len(part) = 2 + Len(s.keys) + s.trailing
    BY <1>5
  <2> DEFINE a == Len(s.keys)
             b == s.trailing
             c == Len(part)
  <2>3. a \in Nat /\ b \in Nat /\ q \in 1 .. a /\ c = 2 + a + b
    BY <1>3, <1>4, <2>2
  <2> HIDE DEF a, b, c
  <2>4. 1 \in 1 .. c /\ 2 + q \in 1 .. c
    BY <2>3
  <2> QED BY <2>1, <2>4 DEF c
<1>9. j \in DOMAIN out /\ k \in DOMAIN out /\ j < k
  <2> DEFINE b == Len(part)
             o == Len(out)
  <2>1. b \in Nat /\ o \in Nat /\ off + b <= o /\ 2 + q <= b /\ 1 <= q /\ q \in Nat /\ DOMAIN out = 1 .. o
    BY <1>3, <1>4, <1>5, <1>7, <1>8
  <2> HIDE DEF b, o
  <2> QED BY <2>1
<1>10. out[j] = Header(s.name) /\ out[k] = s.keys[q]
  BY <1>5, <1>7, <1>8
<1>11. Header(s.name).kind = "section"
  BY <1>3, LinesAre
<1> HIDE DEF j, k
<1> QED BY <1>2, <1>4, <1>6, <1>9, <1>10, <1>11, RefusedKeyIsNotRead DEF out

-----------------------------------------------------------------------------
\* What a file says: the value of each path.
HasKey(s, k, v) == \E i \in DOMAIN s.keys : s.keys[i].name = k /\ s.keys[i].value = v
Has(ini, p, v) ==
  \E i \in DOMAIN ini.sections : \E k \in KeyNames : HasKey(ini.sections[i], k, v) /\ p = ini.sections[i].name \o k

EntryOK(e) ==
  /\ e.path # <<>> /\ e.path \in Seq(ToSet(e.path)) /\ e.value \in Values
  /\ sectionName(e) \in SectionNames /\ localKey(e) \in KeyNames

LEMMA OneThenRest ==
  ASSUME NEW T, NEW a \in Seq(T), NEW b \in Seq(T)
  PROVE  Len(a) = 1 =>
         /\ a \o b \in Seq(T) /\ Len(a \o b) = 1 + Len(b) /\ DOMAIN (a \o b) = 1 .. 1 + Len(b) /\ Len(b) \in Nat
         /\ (a \o b)[1] = a[1] /\ \A i \in 1 .. Len(b) : (a \o b)[1 + i] = b[i]
         /\ a \o b = [i \in 1 .. 1 + Len(b) |-> (a \o b)[i]]
<1> DEFINE c == a \o b
           l == Len(a)
           m == Len(b)
<1>1. /\ c \in Seq(T) /\ l \in Nat /\ m \in Nat /\ Len(c) = l + m /\ DOMAIN c = 1 .. l + m
      /\ \A i \in 1 .. l : c[i] = a[i]
      /\ \A i \in 1 .. m : c[l + i] = b[i]
  BY ConcatIs
<1>3. \A d \in Seq(T) : d = [i \in 1 .. Len(d) |-> d[i]]
  OBVIOUS
<1> HIDE DEF c, l, m
<1>4. l = 1 => /\ Len(c) = 1 + m /\ DOMAIN c = 1 .. 1 + m /\ c[1] = a[1] /\ \A i \in 1 .. m : c[1 + i] = b[i]
               /\ c = [i \in 1 .. 1 + m |-> c[i]]
  BY <1>1, <1>3
<1> QED BY <1>1, <1>4 DEF c, l, m

LEMMA OneCut ==
  ASSUME NEW n \in SectionNames, Len(n) = 1, NEW k \in KeyNames
  PROVE  n = <<Head(n)>> /\ Head(n \o k) = Head(n) /\ Tail(n \o k) = k /\ n \o k # <<>>
<1> DEFINE T == ToSet(n) \cup ToSet(k)
<1>1. n \in Seq(ToSet(n)) /\ k \in Seq(ToSet(k))
  BY IniAssumption
<1>2. n \in Seq(T) /\ k \in Seq(T)
  BY <1>1
<1> HIDE DEF T
<1>3. n = <<n[1]>> /\ Head(n) = n[1]
  BY <1>2
<1> DEFINE c == n \o k
           m == Len(k)
<1>4. c \in Seq(T) /\ m \in Nat /\ Len(c) = 1 + m /\ c[1] = n[1] /\ \A i \in 1 .. m : c[1 + i] = k[i]
  BY <1>2, OneThenRest
<1>5. k = [i \in 1 .. m |-> k[i]]
  BY <1>2
<1> HIDE DEF c
<1>6. c # <<>> /\ Head(c) = c[1]
  <2> HIDE DEF m
  <2>1. Len(c) # 0
    BY <1>4
  <2> QED BY <1>4, <2>1
<1>7. Tail(c) = k
  <2> HIDE DEF m
  <2>1. Tail(c) \in Seq(T) /\ Len(Tail(c)) = Len(c) - 1 /\ \A i \in 1 .. Len(Tail(c)) : Tail(c)[i] = c[i + 1]
    BY <1>4, <1>6, HeadTailProperties
  <2>2. Tail(c) = [i \in 1 .. Len(Tail(c)) |-> Tail(c)[i]]
    <3>1. \A d \in Seq(T) : d = [i \in 1 .. Len(d) |-> d[i]]
      OBVIOUS
    <3> QED BY <2>1, <3>1
  <2>3. Len(Tail(c)) = m
    BY <1>4, <2>1
  <2>4. \A i \in 1 .. m : c[i + 1] = k[i]
    BY <1>4
  <2> QED BY <1>5, <2>1, <2>2, <2>3, <2>4
<1> QED BY <1>3, <1>4, <1>6, <1>7 DEF c

LEMMA SectionsOfTidy ==
  ASSUME NEW ini, Tidy(ini)
  PROVE  \A i \in DOMAIN ini.sections : ini.sections[i] \in Sections
<1>1. ini \in Inis
  BY DEF Tidy
<1>2. ini.sections \in Seq(Sections)
  BY <1>1 DEF Inis
<1> QED BY <1>2

Unslashed(n) == n \in SectionNames /\ Len(n) = 1
PathOf(n, k) == n \o k
LEMMA CutOnce ==
  ASSUME NEW n, Unslashed(n), NEW k \in KeyNames, NEW n2, Unslashed(n2), NEW k2 \in KeyNames,
         PathOf(n, k) = PathOf(n2, k2)
  PROVE  n = n2 /\ k = k2
<1>0. n \in SectionNames /\ Len(n) = 1 /\ n2 \in SectionNames /\ Len(n2) = 1 /\ n \o k = n2 \o k2
  BY DEF Unslashed, PathOf
<1>1. n = <<Head(n)>> /\ Head(n \o k) = Head(n) /\ Tail(n \o k) = k
  BY <1>0, OneCut
<1>2. n2 = <<Head(n2)>> /\ Head(n2 \o k2) = Head(n2) /\ Tail(n2 \o k2) = k2
  BY <1>0, OneCut
<1> DEFINE c == n \o k
           d == n2 \o k2
<1>3. c = d
  BY <1>0
<1> HIDE DEF c, d
<1>4. Head(n) = Head(n2) /\ k = k2
  BY <1>1, <1>2, <1>3 DEF c, d
<1> QED BY <1>0, <1>1, <1>2, <1>4

LEMMA PathIs ==
  ASSUME NEW e, EntryOK(e)
  PROVE  e.path = sectionName(e) \o localKey(e) /\ Len(sectionName(e)) = 1
<1> DEFINE p == e.path
           T == ToSet(p)
           k == Tail(p)
           n == <<Head(p)>>
           c == n \o k
<1>1. p \in Seq(T) /\ p # <<>>
  BY DEF EntryOK
<1> HIDE DEF T
<1>2. Head(p) \in T /\ Head(p) = p[1] /\ k \in Seq(T) /\ Len(k) = Len(p) - 1 /\ \A i \in 1 .. Len(k) : k[i] = p[i + 1]
  BY <1>1, HeadTailProperties
<1>3. n \in Seq(T) /\ Len(n) = 1 /\ n[1] = p[1]
  BY <1>2
<1> DEFINE m == Len(k)
           q == Len(p)
<1>4. m \in Nat /\ q \in Nat /\ q = m + 1 /\ p = [i \in 1 .. q |-> p[i]]
  BY <1>1, <1>2
<1> HIDE DEF n, k
<1>5. c \in Seq(T) /\ DOMAIN c = 1 .. 1 + m /\ c[1] = n[1] /\ \A i \in 1 .. m : c[1 + i] = k[i]
  BY <1>2, <1>3, OneThenRest
<1>6. c = [i \in 1 .. 1 + m |-> c[i]]
  BY <1>2, <1>3, OneThenRest
<1> HIDE DEF c, q
<1>7. \A i \in 1 .. q : c[i] = p[i]
  <2> SUFFICES ASSUME NEW i \in 1 .. q PROVE c[i] = p[i]
    OBVIOUS
  <2>1. CASE i = 1
    BY <1>3, <1>5, <2>1
  <2>2. CASE i # 1
    <3> DEFINE h == i - 1
    <3>1. h \in 1 .. m /\ 1 + h = i /\ h + 1 = i
      BY <1>4, <2>2
    <3> HIDE DEF h
    <3>2. c[1 + h] = k[h]
      BY <1>5, <3>1
    <3>3. k[h] = p[h + 1]
      BY <1>2, <3>1
    <3> QED BY <3>1, <3>2, <3>3
  <2> QED BY <2>1, <2>2
<1>8. 1 + m = q
  BY <1>4
<1>9. c = p
  BY <1>4, <1>6, <1>7, <1>8
<1>10. n = sectionName(e) /\ k = localKey(e)
  BY DEF n, k, sectionName, localKey
<1> QED BY <1>3, <1>9, <1>10 DEF c

\* A section changed.
LEMMA SectionReplaced ==
  ASSUME NEW ini, Tidy(ini), NEW i \in DOMAIN ini.sections, NEW s \in Sections, KeysOnce(s),
         s.name = ini.sections[i].name
  PROVE  LET new == [ini EXCEPT !.sections[i] = s] IN
         /\ Tidy(new) /\ new.preamble = ini.preamble /\ DOMAIN new.sections = DOMAIN ini.sections
         /\ Len(new.sections) = Len(ini.sections)
         /\ \A j \in DOMAIN new.sections : new.sections[j] = IF j = i THEN s ELSE ini.sections[j]
         /\ \A j \in DOMAIN new.sections : new.sections[j].name = ini.sections[j].name
<1> DEFINE secs == [ini.sections EXCEPT ![i] = s]
           new == [ini EXCEPT !.sections = secs]
<1>1. ini \in Inis /\ ini.ok /\ ini.sections \in Seq(Sections)
  BY DEF Tidy, Inis
<1>2. secs \in Seq(Sections) /\ DOMAIN secs = DOMAIN ini.sections /\ Len(secs) = Len(ini.sections)
      /\ \A j \in DOMAIN secs : secs[j] = IF j = i THEN s ELSE ini.sections[j]
  BY <1>1
<1>3. [ini EXCEPT !.sections[i] = s] = new
  OBVIOUS
<1> HIDE DEF secs
<1>4. new \in Inis /\ new.ok /\ new.preamble = ini.preamble /\ new.sections = secs
  BY <1>1, <1>2 DEF Inis
<1> HIDE DEF new
<1>5. \A j \in DOMAIN new.sections : new.sections[j].name = ini.sections[j].name
  BY <1>2, <1>4
<1>6. Tidy(new)
  BY <1>2, <1>4, <1>5 DEF Tidy
<1> QED BY <1>2, <1>3, <1>4, <1>5, <1>6

\* Growing.
LEMMA SectionGrownAtFirst == \A s \in Sections : SectionGrown(s, s)
BY DEF SectionGrown, Sections

LEMMA GrownAtFirst ==
  ASSUME NEW ini, Tidy(ini)
  PROVE  Grown(ini, ini)
<1>1. \A i \in DOMAIN ini.sections : ini.sections[i] \in Sections
  BY DEF Tidy, Inis
<1> QED BY <1>1, SectionGrownAtFirst DEF Grown

LEMMA GrownOnAndOn ==
  ASSUME NEW a, Tidy(a), NEW b, Tidy(b), NEW c, Tidy(c), Grown(a, b), Grown(b, c)
  PROVE  Grown(a, c)
<1>1. ASSUME NEW x \in Sections, NEW y \in Sections, NEW z \in Sections, SectionGrown(x, y), SectionGrown(y, z)
      PROVE  SectionGrown(x, z)
  <2>1. x.trailing \in Nat /\ y.trailing \in Nat /\ z.trailing \in Nat
    BY DEF Sections
  <2>2. y.trailing >= x.trailing /\ z.trailing >= y.trailing
    BY <1>1 DEF SectionGrown
  <2>3. z.trailing >= x.trailing
    BY <2>1, <2>2
  <2> QED BY <1>1, <2>3 DEF SectionGrown
<1>2. \A i \in DOMAIN a.sections : a.sections[i] \in Sections /\ b.sections[i] \in Sections /\ c.sections[i] \in Sections
  <2>1. /\ \A i \in DOMAIN a.sections : a.sections[i] \in Sections
        /\ \A i \in DOMAIN b.sections : b.sections[i] \in Sections
        /\ \A i \in DOMAIN c.sections : c.sections[i] \in Sections
    BY DEF Tidy, Inis
  <2> QED BY <2>1 DEF Grown
<1> QED BY <1>1, <1>2 DEF Grown

LEMMA OneSectionGrown ==
  ASSUME NEW ini, Tidy(ini), NEW new, NEW a, NEW t,
         new.preamble = ini.preamble, DOMAIN new.sections = DOMAIN ini.sections,
         \A j \in DOMAIN new.sections : new.sections[j] = IF j = a THEN t ELSE ini.sections[j],
         a \in DOMAIN ini.sections, SectionGrown(ini.sections[a], t)
  PROVE  Grown(ini, new)
<1>1. \A i \in DOMAIN ini.sections : ini.sections[i] \in Sections
  BY DEF Tidy, Inis
<1> QED BY <1>1, SectionGrownAtFirst DEF Grown

\* appendSection() changes nothing that is said.
LEMMA SpacedIs ==
  ASSUME NEW ini, Tidy(ini)
  PROVE  LET new == spacedEnd(ini) IN
         /\ Tidy(new) /\ new.preamble = ini.preamble /\ DOMAIN new.sections = DOMAIN ini.sections
         /\ Len(new.sections) = Len(ini.sections)
         /\ \A j \in DOMAIN new.sections : /\ new.sections[j].name = ini.sections[j].name
                                           /\ new.sections[j].keys = ini.sections[j].keys
         /\ Grown(ini, new)
<1>1. CASE ini.sections = <<>>
  BY <1>1, GrownAtFirst DEF spacedEnd
<1>2. CASE ini.sections # <<>>
  <2> DEFINE n == Len(ini.sections)
             s == ini.sections[n]
             r == IF s.trailing = 0 THEN 1 ELSE s.trailing
             t == [s EXCEPT !.trailing = r]
             new == [ini EXCEPT !.sections[n] = t]
  <2>1. Opened(ini) /\ ini.ok
    BY <1>2 DEF Opened, Tidy
  <2>2. n \in DOMAIN ini.sections /\ Last(ini.sections) = s /\ s \in Sections /\ KeysOnce(s)
    BY <2>1, LastIs DEF Tidy
  <2>3. r \in Nat
    BY <2>2 DEF Sections
  <2>4. spacedEnd(ini) = new
    BY <1>2, <2>2 DEF spacedEnd, lastChanged
  <2> HIDE DEF r, s
  <2>5. t \in Sections /\ t.name = s.name /\ t.keys = s.keys
    BY <2>2, <2>3 DEF Sections
  <2> HIDE DEF t, n
  <2>6. KeysOnce(t) /\ t.name = ini.sections[n].name
    BY <2>2, <2>5 DEF KeysOnce, s
  <2>7. /\ Tidy(new) /\ new.preamble = ini.preamble /\ DOMAIN new.sections = DOMAIN ini.sections
        /\ Len(new.sections) = Len(ini.sections)
        /\ \A j \in DOMAIN new.sections : new.sections[j] = IF j = n THEN t ELSE ini.sections[j]
        /\ \A j \in DOMAIN new.sections : new.sections[j].name = ini.sections[j].name
    BY <2>2, <2>5, <2>6, SectionReplaced
  <2>8. SectionGrown(s, t)
    <3>1. t.trailing = r /\ r >= s.trailing
      BY <2>2 DEF t, r, Sections
    <3> QED BY <2>5, <3>1 DEF SectionGrown
  <2>9. Grown(ini, new)
    BY <2>2, <2>7, <2>8, OneSectionGrown DEF s
  <2> HIDE DEF new
  <2> QED BY <2>4, <2>5, <2>7, <2>9 DEF s
<1> QED BY <1>1, <1>2

\* The same sections say the same.
LEMMA SameSayTheSame ==
  ASSUME NEW ini, NEW new, DOMAIN new.sections = DOMAIN ini.sections,
         \A j \in DOMAIN new.sections : /\ new.sections[j].name = ini.sections[j].name
                                        /\ new.sections[j].keys = ini.sections[j].keys
  PROVE  \A p, v : Has(new, p, v) <=> Has(ini, p, v)
<1>1. \A j \in DOMAIN new.sections : \A k, v : HasKey(new.sections[j], k, v) <=> HasKey(ini.sections[j], k, v)
  BY DEF HasKey
<1> QED BY <1>1 DEF Has

LEMMA SectionThere ==
  ASSUME NEW ini, Tidy(ini), NEW n \in SectionNames
  PROVE  LET new == IF named(ini.sections, n) = {} THEN appendSection(ini, n) ELSE ini IN
         /\ Tidy(new) /\ (Readable(new) <=> Readable(ini)) /\ named(new.sections, n) # {}
         /\ \A p, v : Has(new, p, v) <=> Has(ini, p, v)
         /\ \A j \in DOMAIN ini.sections : j \in DOMAIN new.sections /\ new.sections[j].name = ini.sections[j].name
                                            /\ new.sections[j].keys = ini.sections[j].keys
         /\ \A j \in DOMAIN new.sections : j \in DOMAIN ini.sections \/ new.sections[j].name = n
         /\ Grown(ini, new)
<1>1. CASE named(ini.sections, n) # {}
  BY <1>1, GrownAtFirst
<1>2. CASE named(ini.sections, n) = {}
  <2> DEFINE mid == spacedEnd(ini)
             s == [Section(n) EXCEPT !.trailing = 1]
             new == With(mid, s)
  <2>1. appendSection(ini, n) = new
    BY DEF appendSection, With
  <2>2. /\ Tidy(mid) /\ mid.preamble = ini.preamble /\ DOMAIN mid.sections = DOMAIN ini.sections
        /\ Len(mid.sections) = Len(ini.sections)
        /\ \A j \in DOMAIN mid.sections : /\ mid.sections[j].name = ini.sections[j].name
                                          /\ mid.sections[j].keys = ini.sections[j].keys
        /\ Grown(ini, mid)
    BY SpacedIs
  <2>3. s \in Sections /\ s.name = n /\ s.keys = <<>>
    <3>1. Section(n) \in Sections /\ Section(n).name = n /\ Section(n).keys = <<>> /\ 1 \in Nat
      BY SectionIs DEF SectionOK
    <3> QED BY <3>1 DEF Sections
  <2>4. KeysOnce(s) /\ KeysNamed(s) /\ \A k, v : ~HasKey(s, k, v)
    BY <2>3 DEF KeysOnce, KeysNamed, HasKey
  <2> HIDE DEF mid, s
  <2>5. named(mid.sections, s.name) = {}
    BY <1>2, <2>2, <2>3 DEF named
  <2>6. Tidy(new)
    BY <2>2, <2>3, <2>4, <2>5, AddedStaysTidy
  <2>7. /\ DOMAIN new.sections = DOMAIN mid.sections \cup {Len(mid.sections) + 1}
        /\ \A i \in DOMAIN new.sections : new.sections[i] = IF i \in DOMAIN mid.sections THEN mid.sections[i] ELSE s
    BY <2>2, <2>3, SectionAdded DEF Tidy
  <2>8. Len(mid.sections) + 1 \notin DOMAIN mid.sections
    BY <2>2 DEF Tidy, Inis
  <2> HIDE DEF new
  <2>9. Readable(new) <=> Readable(ini)
    <3>1. \A j \in DOMAIN mid.sections : KeysNamed(ini.sections[j]) <=> KeysNamed(mid.sections[j])
      BY <2>2 DEF KeysNamed
    <3>2. (\A j \in DOMAIN new.sections : KeysNamed(new.sections[j])) <=> \A j \in DOMAIN mid.sections : KeysNamed(mid.sections[j])
      BY <2>4, <2>7
    <3> QED BY <2>2, <2>6, <3>1, <3>2 DEF Readable
  <2>10. named(new.sections, n) # {}
    <3>1. Len(mid.sections) + 1 \in named(new.sections, n)
      BY <2>3, <2>7, <2>8 DEF named
    <3> QED BY <3>1
  <2>11. \A p, v : Has(mid, p, v) <=> Has(ini, p, v)
    BY <2>2, SameSayTheSame
  <2>12. ASSUME NEW p, NEW v
         PROVE  Has(new, p, v) <=> Has(mid, p, v)
    <3>1. ASSUME Has(new, p, v) PROVE Has(mid, p, v)
      <4>1. PICK i \in DOMAIN new.sections, k \in KeyNames : HasKey(new.sections[i], k, v) /\ p = new.sections[i].name \o k
        BY <3>1 DEF Has
      <4>2. i \in DOMAIN mid.sections /\ new.sections[i] = mid.sections[i]
        BY <2>4, <2>7, <4>1
      <4> QED BY <4>1, <4>2 DEF Has
    <3>2. ASSUME Has(mid, p, v) PROVE Has(new, p, v)
      <4>1. PICK i \in DOMAIN mid.sections, k \in KeyNames : HasKey(mid.sections[i], k, v) /\ p = mid.sections[i].name \o k
        BY <3>2 DEF Has
      <4>2. i \in DOMAIN new.sections /\ new.sections[i] = mid.sections[i]
        BY <2>7
      <4> QED BY <4>1, <4>2 DEF Has
    <3> QED BY <3>1, <3>2
  <2>13. Grown(mid, new)
    <3>1. \A i \in DOMAIN mid.sections : new.sections[i] = mid.sections[i] /\ mid.sections[i] \in Sections
      BY <2>2, <2>7 DEF Tidy, Inis
    <3>2. new.preamble = mid.preamble
      BY <2>2, <2>3, SectionAdded DEF new, Tidy
    <3> QED BY <2>7, <3>1, <3>2, SectionGrownAtFirst DEF Grown
  <2>14. Grown(ini, new)
    BY <2>2, <2>6, <2>13, GrownOnAndOn
  <2> QED BY <1>2, <2>1, <2>2, <2>3, <2>6, <2>7, <2>9, <2>10, <2>11, <2>12, <2>14
<1> QED BY <1>1, <1>2

\* One setting: its value, and nothing else.
KeySaid(new, s, e) ==
  \A k, v : HasKey(new, k, v) <=> IF k = localKey(e) THEN v = e.value ELSE HasKey(s, k, v)

SameKeys(new, s) ==
  /\ new.trailing = s.trailing /\ DOMAIN new.keys = DOMAIN s.keys
  /\ \A i \in DOMAIN new.keys : new.keys[i].name = s.keys[i].name

LEMMA KeySet ==
  ASSUME NEW s \in Sections, KeysOnce(s), NEW e, EntryOK(e)
  PROVE  LET new == setKey(s, e)
             k   == localKey(e) IN
         /\ new \in Sections /\ KeysOnce(new) /\ new.name = s.name
         /\ KeysNamed(new) <=> KeysNamed(s) /\ k \notin Refused
         /\ KeySaid(new, s, e)
         /\ named(s.keys, k) # {} => SameKeys(new, s)
         /\ SectionGrown(s, new)
<1> DEFINE k == localKey(e)
           l == KeyLine(k, e.value)
           r == IF s.trailing = 0 THEN 1 ELSE s.trailing
<1>1. l \in KeyLines /\ l.name = k /\ l.value = e.value /\ l.kind = "key"
  BY DEF EntryOK, KeyLines, KeyLine
<1>2. s.keys \in Seq(KeyLines) /\ r \in Nat
  BY DEF Sections
<1>3. CASE named(s.keys, k) = {}
  <2> DEFINE new == WithKey(s, l, r)
  <2>1. setKey(s, e) = new
    <3>1. setKey(s, e) = [s EXCEPT !.trailing = IF @ = 0 THEN 1 ELSE @, !.keys = Append(@, KeyLine(localKey(e), e.value))]
      BY <1>3 DEF setKey
    <3> QED BY <3>1 DEF WithKey, Sections
  <2>0. r \in Nat /\ r >= s.trailing
    BY <1>2 DEF Sections
  <2> HIDE DEF l, r, k
  <2>2. /\ new \in Sections /\ KeysOnce(new) /\ new.name = s.name /\ new.trailing = r
        /\ DOMAIN new.keys = DOMAIN s.keys \cup {Len(s.keys) + 1}
        /\ \A i \in DOMAIN new.keys : new.keys[i] = IF i \in DOMAIN s.keys THEN s.keys[i] ELSE l
        /\ KeysNamed(new) <=> KeysNamed(s) /\ l.name \notin Refused
    BY <1>1, <1>2, <1>3, KeyAdded
  <2> HIDE DEF new
  <2>3. \A i \in DOMAIN s.keys : s.keys[i].name # k
    BY <1>3 DEF named
  <2>4. Len(s.keys) + 1 \in DOMAIN new.keys /\ Len(s.keys) + 1 \notin DOMAIN s.keys
    BY <1>2, <2>2
  <2>5. ASSUME NEW k2, NEW v
        PROVE  HasKey(new, k2, v) <=> IF k2 = k THEN v = e.value ELSE HasKey(s, k2, v)
    <3>1. CASE k2 = k
      BY <1>1, <2>2, <2>3, <2>4, <3>1 DEF HasKey
    <3>2. CASE k2 # k
      BY <1>1, <2>2, <3>2 DEF HasKey
    <3> QED BY <3>1, <3>2
  <2>6. SectionGrown(s, new)
    BY <2>0, <2>2 DEF SectionGrown
  <2> QED BY <1>1, <1>3, <2>1, <2>2, <2>5, <2>6 DEF k, KeySaid
<1>4. CASE named(s.keys, k) # {}
  <2> DEFINE q == CHOOSE i \in named(s.keys, k) : TRUE
             keys == [s.keys EXCEPT ![q] = [s.keys[q] EXCEPT !.value = e.value]]
             new == [s EXCEPT !.keys = keys]
  <2>1. setKey(s, e) = new
    BY <1>4 DEF setKey
  <2>2. q \in DOMAIN s.keys /\ s.keys[q].name = k
    BY <1>4 DEF named
  <2> HIDE DEF q, k, l
  <2>3. [s.keys[q] EXCEPT !.value = e.value] = l
    <3>1. s.keys[q] \in KeyLines
      BY <1>2, <2>2
    <3>2. s.keys[q] = KeyLine(k, s.keys[q].value)
      BY <2>2, <3>1, LinesAre
    <3>3. \A a, b, c : [KeyLine(a, b) EXCEPT !.value = c] = KeyLine(a, c)
      BY DEF KeyLine
    <3> QED BY <3>2, <3>3 DEF l
  <2>4. keys \in Seq(KeyLines) /\ DOMAIN keys = DOMAIN s.keys
        /\ \A i \in DOMAIN keys : keys[i] = IF i = q THEN l ELSE s.keys[i]
    BY <1>1, <1>2, <2>2, <2>3
  <2> HIDE DEF keys
  <2>5. new \in Sections /\ new.name = s.name /\ new.keys = keys /\ new.trailing = s.trailing
    BY <2>4 DEF Sections
  <2> HIDE DEF new
  <2>6. \A i \in DOMAIN new.keys : new.keys[i].name = s.keys[i].name
    BY <1>1, <2>2, <2>4, <2>5
  <2>7. KeysOnce(new)
    BY <2>4, <2>5, <2>6 DEF KeysOnce
  <2>8. KeysNamed(new) <=> KeysNamed(s) /\ k \notin Refused
    BY <2>2, <2>4, <2>5, <2>6 DEF KeysNamed
  <2>9. ASSUME NEW k2, NEW v
        PROVE  HasKey(new, k2, v) <=> IF k2 = k THEN v = e.value ELSE HasKey(s, k2, v)
    <3>1. \A i \in DOMAIN s.keys : s.keys[i].name = k => i = q
      BY <2>2 DEF KeysOnce
    <3>2. CASE k2 = k
      BY <1>1, <2>2, <2>4, <2>5, <2>6, <3>1, <3>2 DEF HasKey
    <3>3. CASE k2 # k
      BY <1>1, <2>2, <2>4, <2>5, <3>1, <3>3 DEF HasKey
    <3> QED BY <3>2, <3>3
  <2>10. SectionGrown(s, new)
    <3>1. s.trailing \in Nat
      BY DEF Sections
    <3> QED BY <2>4, <2>5, <2>6, <3>1 DEF SectionGrown
  <2> QED BY <2>1, <2>4, <2>5, <2>6, <2>7, <2>8, <2>9, <2>10 DEF k, KeySaid, SameKeys
<1> QED BY <1>3, <1>4

\* One entry of a patch: its section is the one named in the path.
SameShape(one, other) ==
  /\ one.preamble = other.preamble /\ DOMAIN one.sections = DOMAIN other.sections
  /\ \A i \in DOMAIN one.sections :
       /\ one.sections[i].name = other.sections[i].name /\ one.sections[i].trailing = other.sections[i].trailing
       /\ DOMAIN one.sections[i].keys = DOMAIN other.sections[i].keys
       /\ \A j \in DOMAIN one.sections[i].keys : one.sections[i].keys[j].name = other.sections[i].keys[j].name

LEMMA EntryApplied ==
  ASSUME NEW ini, Tidy(ini), NEW e, EntryOK(e)
  PROVE  LET new == applyPatch(ini, e) IN
         /\ Tidy(new) /\ (Readable(new) <=> Readable(ini) /\ localKey(e) \notin Refused) /\ (Plain(new) <=> Plain(ini))
         /\ Plain(ini) => \A p, v : Has(new, p, v) <=> IF p = e.path THEN v = e.value ELSE Has(ini, p, v)
         /\ Plain(ini) /\ (\E v : Has(ini, e.path, v)) => SameShape(ini, new)
         /\ Grown(ini, new)
<1> DEFINE n == sectionName(e)
           k == localKey(e)
           w == IF named(ini.sections, n) = {} THEN appendSection(ini, n) ELSE ini
           a == CHOOSE i \in named(w.sections, n) : TRUE
           s == w.sections[a]
           t == setKey(s, e)
           new == [w EXCEPT !.sections[a] = t]
<1>1. applyPatch(ini, e) = new
  BY DEF applyPatch
<1>2. n \in SectionNames /\ k \in KeyNames /\ e.path = n \o k /\ Len(n) = 1
  BY PathIs DEF EntryOK
<1> HIDE DEF n, k
<1>3. /\ Tidy(w) /\ (Readable(w) <=> Readable(ini)) /\ named(w.sections, n) # {}
      /\ \A p, v : Has(w, p, v) <=> Has(ini, p, v)
      /\ \A j \in DOMAIN ini.sections : j \in DOMAIN w.sections /\ w.sections[j].name = ini.sections[j].name
                                         /\ w.sections[j].keys = ini.sections[j].keys
      /\ \A j \in DOMAIN w.sections : j \in DOMAIN ini.sections \/ w.sections[j].name = n
      /\ Grown(ini, w)
  BY <1>2, SectionThere
<1>4. named(ini.sections, n) # {} => w = ini
  OBVIOUS
<1> HIDE DEF w
<1>5. a \in DOMAIN w.sections /\ s.name = n
  BY <1>3 DEF named
<1> HIDE DEF a
<1>6. s \in Sections /\ KeysOnce(s)
  BY <1>3, <1>5 DEF Tidy, Inis
<1> HIDE DEF s
<1>7. /\ t \in Sections /\ KeysOnce(t) /\ t.name = s.name
      /\ KeysNamed(t) <=> KeysNamed(s) /\ k \notin Refused
      /\ \A k2, v : HasKey(t, k2, v) <=> IF k2 = k THEN v = e.value ELSE HasKey(s, k2, v)
      /\ named(s.keys, k) # {} =>
           /\ t.trailing = s.trailing /\ DOMAIN t.keys = DOMAIN s.keys
           /\ \A i \in DOMAIN t.keys : t.keys[i].name = s.keys[i].name
      /\ SectionGrown(s, t)
  <2> DEFINE m == localKey(e)
  <2>1. /\ t \in Sections /\ KeysOnce(t) /\ t.name = s.name
        /\ KeysNamed(t) <=> KeysNamed(s) /\ m \notin Refused
    BY <1>6, KeySet
  <2>2. KeySaid(t, s, e)
    BY <1>6, KeySet
  <2>3. (named(s.keys, m) # {} => SameKeys(t, s)) /\ SectionGrown(s, t)
    BY <1>6, KeySet
  <2> HIDE DEF t
  <2> QED BY <2>1, <2>2, <2>3 DEF k, KeySaid, SameKeys
<1> HIDE DEF t
<1>8. /\ Tidy(new) /\ new.preamble = w.preamble /\ DOMAIN new.sections = DOMAIN w.sections
      /\ \A j \in DOMAIN new.sections : new.sections[j] = IF j = a THEN t ELSE w.sections[j]
      /\ \A j \in DOMAIN new.sections : new.sections[j].name = w.sections[j].name
  BY <1>3, <1>5, <1>7, SectionReplaced DEF s
<1> HIDE DEF new
<1>9. Readable(new) <=> Readable(ini) /\ k \notin Refused
  <2>1. (\A j \in DOMAIN new.sections : KeysNamed(new.sections[j]))
          <=> (\A j \in DOMAIN w.sections : KeysNamed(w.sections[j])) /\ k \notin Refused
    BY <1>5, <1>7, <1>8 DEF s
  <2> QED BY <1>3, <1>8, <2>1 DEF Readable
<1>10. Plain(new) <=> Plain(ini)
  BY <1>2, <1>3, <1>8 DEF Plain
<1>11. ASSUME Plain(ini), NEW p, NEW v
       PROVE  Has(new, p, v) <=> IF p = e.path THEN v = e.value ELSE Has(w, p, v)
  <2>0. \A i \in DOMAIN w.sections : w.sections[i].name \in SectionNames /\ Len(w.sections[i].name) = 1
    <3>1. \A i \in DOMAIN w.sections : w.sections[i] \in Sections
      BY <1>3, SectionsOfTidy
    <3> QED BY <1>8, <1>10, <1>11, <3>1 DEF Sections, Plain
  <2>1. ASSUME NEW i \in DOMAIN w.sections, NEW k2 \in KeyNames, w.sections[i].name \o k2 = n \o k
        PROVE  i = a /\ k2 = k
    <3> DEFINE y == w.sections[i].name
    <3>0. Unslashed(y) /\ Unslashed(n) /\ PathOf(y, k2) = PathOf(n, k)
      BY <1>2, <2>0, <2>1 DEF Unslashed, PathOf
    <3> HIDE DEF y
    <3>1. k2 = k /\ y = n
      BY <1>2, <3>0, CutOnce
    <3> USE DEF y
    <3> QED BY <1>3, <1>5, <3>1 DEF Tidy, s
  <2>2. ASSUME Has(new, p, v), p = e.path PROVE v = e.value
    <3>1. PICK i \in DOMAIN new.sections, k2 \in KeyNames : HasKey(new.sections[i], k2, v) /\ p = new.sections[i].name \o k2
      BY <2>2 DEF Has
    <3>2. i = a /\ k2 = k
      BY <1>2, <1>8, <2>1, <2>2, <3>1
    <3> QED BY <1>7, <1>8, <3>1, <3>2
  <2>3. ASSUME Has(new, p, v), p # e.path PROVE Has(w, p, v)
    <3>1. PICK i \in DOMAIN new.sections, k2 \in KeyNames : HasKey(new.sections[i], k2, v) /\ p = new.sections[i].name \o k2
      BY <2>3 DEF Has
    <3>2. CASE i = a
      <4>1. k2 # k
        BY <1>2, <1>5, <1>8, <2>3, <3>1, <3>2 DEF s
      <4>2. HasKey(w.sections[a], k2, v)
        BY <1>7, <1>8, <3>1, <3>2, <4>1 DEF s
      <4> QED BY <1>5, <1>8, <3>1, <3>2, <4>2 DEF Has
    <3>3. CASE i # a
      BY <1>8, <3>1, <3>3 DEF Has
    <3> QED BY <3>2, <3>3
  <2>4. ASSUME p = e.path, v = e.value PROVE Has(new, p, v)
    <3>1. HasKey(t, k, v)
      BY <1>7, <2>4
    <3>2. a \in DOMAIN new.sections /\ new.sections[a] = t /\ t.name = n
      BY <1>5, <1>7, <1>8
    <3> QED BY <1>2, <2>4, <3>1, <3>2 DEF Has
  <2>5. ASSUME p # e.path, Has(w, p, v) PROVE Has(new, p, v)
    <3>1. PICK i \in DOMAIN w.sections, k2 \in KeyNames : HasKey(w.sections[i], k2, v) /\ p = w.sections[i].name \o k2
      BY <2>5 DEF Has
    <3>2. ASSUME i = a PROVE Has(new, p, v)
      <4>1. k2 # k
        BY <1>2, <1>5, <2>5, <3>1, <3>2 DEF s
      <4>2. HasKey(new.sections[a], k2, v)
        BY <1>5, <1>7, <1>8, <3>1, <3>2, <4>1 DEF s
      <4> QED BY <1>5, <1>8, <3>1, <3>2, <4>2 DEF Has
    <3>3. ASSUME i # a PROVE Has(new, p, v)
      BY <1>8, <3>1, <3>3 DEF Has
    <3> HIDE DEF n, k, t, w, a, s
    <3> QED BY <3>2, <3>3
  <2> QED BY <2>2, <2>3, <2>4, <2>5
<1>12. ASSUME Plain(ini), NEW v, Has(ini, e.path, v)
       PROVE  SameShape(ini, new)
  <2>1. PICK i \in DOMAIN ini.sections, k2 \in KeyNames :
          HasKey(ini.sections[i], k2, v) /\ n \o k = ini.sections[i].name \o k2
    BY <1>2, <1>12 DEF Has
  <2>2. ini.sections[i] \in Sections
    BY SectionsOfTidy
  <2>3. ini.sections[i].name \in SectionNames /\ Len(ini.sections[i].name) = 1
    BY <1>12, <2>2 DEF Sections, Plain
  <2>4. k2 = k /\ ini.sections[i].name = n
    <3> DEFINE y == ini.sections[i].name
    <3>0. Unslashed(y) /\ Unslashed(n) /\ PathOf(n, k) = PathOf(y, k2)
      BY <1>2, <2>1, <2>3 DEF Unslashed, PathOf
    <3> HIDE DEF y
    <3>1. n = y /\ k = k2
      BY <1>2, <3>0, CutOnce
    <3> QED BY <3>1 DEF y
  <2>5. i \in named(ini.sections, n)
    BY <2>4 DEF named
  <2>6. w = ini
    BY <1>4, <2>5
  <2>7. i = a
    BY <1>5, <2>4, <2>6 DEF Tidy, s
  <2>8. named(s.keys, k) # {}
    BY <2>1, <2>4, <2>6, <2>7 DEF HasKey, named, s
  <2> QED BY <1>5, <1>7, <1>8, <2>6, <2>8 DEF SameShape, s
<1>13. Grown(ini, new)
  <2>1. Grown(w, new)
    BY <1>3, <1>5, <1>7, <1>8, OneSectionGrown DEF s
  <2> QED BY <1>3, <1>8, <2>1, GrownOnAndOn
<1> QED BY <1>1, <1>3, <1>8, <1>9, <1>10, <1>11, <1>12, <1>13 DEF k

-----------------------------------------------------------------------------
\* The settings of a file as a function, and a patch as a function.
Entries == [path : {n \o k : n \in SectionNames, k \in KeyNames}, value : Values]
Latest(es, n, p, i) == i \in 1 .. n /\ es[i].path = p /\ \A j \in 1 .. n : es[j].path = p => j <= i
IsFunction(f) == f = [p \in DOMAIN f |-> f[p]]

LEMMA LatestExists ==
  ASSUME NEW es, NEW n \in Nat, NEW p, NEW i \in 1 .. n, es[i].path = p
  PROVE  LET S == {j \in 1 .. n : es[j].path = p} IN Latest(es, n, p, Max(S))
<1> DEFINE S == {j \in 1 .. n : es[j].path = p}
           T == {n - j : j \in S}
<1>1. T \in SUBSET Nat /\ T # {}
  OBVIOUS
<1>2. PICK x \in T : \A y \in T : x <= y
  BY <1>1, LeastNatural
<1>3. PICK m \in S : x = n - m
  BY <1>2
<1>4. \A j \in S : m >= j
  <2> SUFFICES ASSUME NEW j \in S PROVE m >= j
    OBVIOUS
  <2>1. n - m <= n - j
    BY <1>2, <1>3
  <2>2. m \in Int /\ j \in Int
    BY <1>3
  <2> HIDE DEF S, T
  <2> QED BY <2>1, <2>2
<1>5. Max(S) \in S /\ \A j \in S : Max(S) >= j
  <2> HIDE DEF S
  <2> QED BY <1>3, <1>4 DEF Max
<1>6. Max(S) \in 1 .. n /\ es[Max(S)].path = p
  BY <1>5
<1>7. ASSUME NEW j \in 1 .. n, es[j].path = p
      PROVE  j <= Max(S)
  <2>1. j \in S
    BY <1>7
  <2>2. Max(S) >= j
    BY <1>5, <2>1
  <2> HIDE DEF S
  <2> QED BY <1>6, <2>2
<1> HIDE DEF S
<1>8. Latest(es, n, p, Max(S))
  BY <1>6, <1>7 DEF Latest
<1> QED BY <1>8 DEF S

LEMMA AsFunctionIs ==
  ASSUME NEW es, NEW n \in Nat, DOMAIN es = 1 .. n
  PROVE  LET f == asFunction(es) IN
         /\ IsFunction(f)
         /\ \A p : p \in DOMAIN f <=> \E i \in 1 .. n : es[i].path = p
         /\ \A p \in DOMAIN f : \E i : Latest(es, n, p, i) /\ f[p] = es[i].value
<1> DEFINE f == asFunction(es)
<1>1. IsFunction(f)
  BY DEF asFunction, IsFunction
<1>2. DOMAIN f = {es[i].path : i \in 1 .. n}
  BY DEF asFunction
<1>3. ASSUME NEW p \in DOMAIN f
      PROVE  \E i : Latest(es, n, p, i) /\ f[p] = es[i].value
  <2> DEFINE S == {j \in 1 .. n : es[j].path = p}
  <2>1. PICK i \in 1 .. n : es[i].path = p
    BY <1>2
  <2>2. f[p] = es[Max(S)].value
    BY <1>2 DEF asFunction
  <2>3. Latest(es, n, p, Max(S))
    BY <2>1, LatestExists
  <2> QED BY <2>2, <2>3
<1> HIDE DEF f
<1>4. \A p : p \in DOMAIN f <=> \E i \in 1 .. n : es[i].path = p
  BY <1>2
<1> QED BY <1>1, <1>3, <1>4 DEF f

LEMMA EntriesOfIs ==
  ASSUME NEW s \in Sections
  PROVE  /\ entriesOf(s) \in Seq(Entries)
         /\ \A p, v : (\E i \in DOMAIN entriesOf(s) : entriesOf(s)[i].path = p /\ entriesOf(s)[i].value = v)
                       <=> \E k \in KeyNames : HasKey(s, k, v) /\ p = s.name \o k
<1>1. s.name \in SectionNames /\ s.keys \in Seq(KeyLines) /\ DOMAIN s.keys = 1 .. Len(s.keys) /\ Len(s.keys) \in Nat
  BY DEF Sections
<1>2. \A i \in DOMAIN s.keys : s.keys[i].name \in KeyNames /\ s.keys[i].value \in Values
  BY <1>1, LinesAre
<1> DEFINE out == entriesOf(s)
<1>3. DOMAIN out = DOMAIN s.keys /\ out = [i \in 1 .. Len(s.keys) |-> out[i]]
      /\ \A i \in DOMAIN s.keys : out[i] = [path |-> s.name \o s.keys[i].name, value |-> s.keys[i].value]
  BY <1>1 DEF entriesOf
<1>7. \A i \in DOMAIN s.keys : out[i].path = s.name \o s.keys[i].name /\ out[i].value = s.keys[i].value
  BY DEF entriesOf
<1> HIDE DEF out
<1>4. ASSUME NEW i \in DOMAIN s.keys
      PROVE  out[i] \in Entries
  <2> DEFINE k == s.keys[i].name
             p == s.name \o k
             v == s.keys[i].value
  <2>1. k \in KeyNames /\ v \in Values /\ out[i] = [path |-> p, value |-> v]
    BY <1>2, <1>3
  <2> HIDE DEF k, v
  <2>2. \E n \in SectionNames : \E m \in KeyNames : p = n \o m
    BY <1>1, <2>1
  <2>3. p \in {n \o m : n \in SectionNames, m \in KeyNames}
    BY <2>2
  <2> HIDE DEF p
  <2> QED BY <2>1, <2>3 DEF Entries
<1> DEFINE m == Len(s.keys)
<1>5. out \in Seq(Entries) /\ DOMAIN out = 1 .. m /\ m \in Nat /\ DOMAIN s.keys = 1 .. m
  <2>1. m \in Nat /\ out = [i \in 1 .. m |-> out[i]] /\ \A i \in 1 .. m : out[i] \in Entries
    BY <1>1, <1>3, <1>4
  <2>2. DOMAIN s.keys = 1 .. m
    BY <1>1
  <2> HIDE DEF m
  <2>3. out \in Seq(Entries) /\ DOMAIN out = 1 .. m
    BY <2>1
  <2> QED BY <2>1, <2>2, <2>3
<1> HIDE DEF m
<1>6. ASSUME NEW p, NEW v
      PROVE  (\E i \in DOMAIN out : out[i].path = p /\ out[i].value = v) <=> \E k \in KeyNames : HasKey(s, k, v) /\ p = s.name \o k
  <2>1. ASSUME NEW i \in 1 .. m, out[i].path = p, out[i].value = v
        PROVE  \E k \in KeyNames : HasKey(s, k, v) /\ p = s.name \o k
    <3>1. out[i].path = s.name \o s.keys[i].name /\ out[i].value = s.keys[i].value
      BY <1>7, <1>5
    <3>2. HasKey(s, s.keys[i].name, v) /\ p = s.name \o s.keys[i].name
      BY <1>5, <2>1, <3>1 DEF HasKey
    <3> QED BY <1>2, <1>5, <3>2
  <2>2. ASSUME NEW k \in KeyNames, HasKey(s, k, v), p = s.name \o k
        PROVE  \E i \in 1 .. m : out[i].path = p /\ out[i].value = v
    <3>1. PICK i \in 1 .. m : s.keys[i].name = k /\ s.keys[i].value = v
      BY <1>5, <2>2 DEF HasKey
    <3>2. out[i].path = s.name \o s.keys[i].name /\ out[i].value = s.keys[i].value
      BY <1>7, <1>5
    <3> QED BY <2>2, <3>1, <3>2
  <2> QED BY <1>5, <2>1, <2>2
<1> QED BY <1>5, <1>6 DEF out

\* What has been collected says what the sections say.
Listed(es, p, v) == \E i \in DOMAIN es : es[i].path = p /\ es[i].value = v
SaidBy(secs, k, p, v) ==
  \E i \in 1 .. k : \E key \in KeyNames : HasKey(secs[i], key, v) /\ p = secs[i].name \o key

LEMMA EntriesAre ==
  ASSUME NEW ini \in Inis
  PROVE  LET es == FoldLeft(addEntries, <<>>, ini.sections) IN
         es \in Seq(Entries) /\ \A p, v : Listed(es, p, v) <=> Has(ini, p, v)
<1> DEFINE secs == ini.sections
           n == Len(secs)
           S == [k \in 0 .. n |-> {es \in Seq(Entries) : \A p, v : Listed(es, p, v) <=> SaidBy(secs, k, p, v)}]
<1>1. secs \in Seq(Sections) /\ n \in Nat /\ DOMAIN secs = 1 .. n
  BY DEF Inis
<1> HIDE DEF n, secs
<1>2. <<>> \in S[0]
  <2>1. 0 \in 0 .. n /\ <<>> \in Seq(Entries)
    BY <1>1
  <2>2. \A p, v : ~Listed(<<>>, p, v) /\ ~SaidBy(secs, 0, p, v)
    BY DEF Listed, SaidBy
  <2> QED BY <2>1, <2>2
<1>3. ASSUME NEW k \in 1 .. n, NEW es \in S[k - 1]
      PROVE  addEntries(es, secs[k]) \in S[k]
  <2> DEFINE s == secs[k]
             more == entriesOf(s)
             all == es \o more
             m == Len(es)
             q == Len(more)
  <2>1. k - 1 \in 0 .. n /\ k \in 0 .. n /\ s \in Sections
    BY <1>1
  <2>2. es \in Seq(Entries) /\ \A p, v : Listed(es, p, v) <=> SaidBy(secs, k - 1, p, v)
    BY <2>1
  <2>3. more \in Seq(Entries) /\ \A p, v : Listed(more, p, v) <=> \E key \in KeyNames : HasKey(s, key, v) /\ p = s.name \o key
    BY <2>1, EntriesOfIs DEF Listed
  <2> HIDE DEF more
  <2>4. /\ all \in Seq(Entries) /\ m \in Nat /\ q \in Nat
        /\ DOMAIN es = 1 .. m /\ DOMAIN more = 1 .. q /\ DOMAIN all = 1 .. m + q
        /\ \A i \in 1 .. m : all[i] = es[i]
        /\ \A i \in 1 .. q : all[m + i] = more[i]
    BY <2>2, <2>3, ConcatIs
  <2> HIDE DEF all, m, q
  <2>5. \A i \in 1 .. m + q : i \in 1 .. m \/ (i - m \in 1 .. q /\ m + (i - m) = i)
    BY <2>4
  <2>6. \A i \in 1 .. m : i \in 1 .. m + q
    BY <2>4
  <2>7. \A i \in 1 .. q : m + i \in 1 .. m + q
    BY <2>4
  <2>8. ASSUME NEW p, NEW v
        PROVE  Listed(all, p, v) <=> Listed(es, p, v) \/ Listed(more, p, v)
    <3>1. ASSUME Listed(all, p, v) PROVE Listed(es, p, v) \/ Listed(more, p, v)
      <4>1. PICK i \in 1 .. m + q : all[i].path = p /\ all[i].value = v
        BY <2>4, <3>1 DEF Listed
      <4>2. CASE i \in 1 .. m
        BY <2>4, <4>1, <4>2 DEF Listed
      <4>3. CASE i - m \in 1 .. q /\ m + (i - m) = i
        <5>1. all[i] = more[i - m]
          BY <2>4, <4>3
        <5> QED BY <2>4, <4>1, <4>3, <5>1 DEF Listed
      <4> QED BY <2>5, <4>2, <4>3
    <3>2. ASSUME Listed(es, p, v) PROVE Listed(all, p, v)
      BY <2>4, <2>6, <3>2 DEF Listed
    <3>3. ASSUME Listed(more, p, v) PROVE Listed(all, p, v)
      <4>1. PICK i \in 1 .. q : more[i].path = p /\ more[i].value = v
        BY <2>4, <3>3 DEF Listed
      <4> QED BY <2>4, <2>7, <4>1 DEF Listed
    <3> QED BY <3>1, <3>2, <3>3
  <2>9. ASSUME NEW p, NEW v
        PROVE  SaidBy(secs, k, p, v) <=> SaidBy(secs, k - 1, p, v) \/ \E key \in KeyNames : HasKey(s, key, v) /\ p = s.name \o key
    <3>1. \A i \in 1 .. k : i \in 1 .. k - 1 \/ i = k
      OBVIOUS
    <3>2. k \in 1 .. k /\ \A i \in 1 .. k - 1 : i \in 1 .. k
      OBVIOUS
    <3> QED BY <3>1, <3>2 DEF SaidBy
  <2>10. \A p, v : Listed(all, p, v) <=> SaidBy(secs, k, p, v)
    BY <2>2, <2>3, <2>8, <2>9
  <2>11. addEntries(es, s) = all
    BY DEF addEntries, all, more
  <2> HIDE DEF s
  <2>12. addEntries(es, s) \in S[k]
    BY <2>1, <2>4, <2>10, <2>11
  <2> QED BY <2>12 DEF s
<1>4. \A es \in S[n] : es \in Seq(Entries) /\ \A p, v : Listed(es, p, v) <=> SaidBy(secs, n, p, v)
  BY <1>1
<1> HIDE DEF S
<1>5. EntryFold!Fold(<<>>, secs) \in S[n]
  BY <1>1, <1>2, <1>3, EntryFold!FoldPasses
<1>6. \A p, v : SaidBy(secs, n, p, v) <=> Has(ini, p, v)
  BY <1>1 DEF SaidBy, Has, secs
<1>7. FoldLeft(addEntries, <<>>, ini.sections) = EntryFold!Fold(<<>>, secs)
  BY EntriesAreFolded DEF secs
<1> QED BY <1>4, <1>5, <1>6, <1>7

LEMMA HasOnce ==
  ASSUME NEW ini, Tidy(ini), Plain(ini), NEW p, NEW v, NEW v2, Has(ini, p, v), Has(ini, p, v2)
  PROVE  v = v2
<1>1. \A i \in DOMAIN ini.sections : /\ ini.sections[i] \in Sections /\ ini.sections[i].name \in SectionNames
                                     /\ Len(ini.sections[i].name) = 1
  <2>1. \A i \in DOMAIN ini.sections : ini.sections[i] \in Sections
    BY SectionsOfTidy
  <2> QED BY <2>1 DEF Sections, Plain
<1>2. PICK i \in DOMAIN ini.sections, k \in KeyNames : HasKey(ini.sections[i], k, v) /\ p = ini.sections[i].name \o k
  BY DEF Has
<1>3. PICK i2 \in DOMAIN ini.sections, k2 \in KeyNames : HasKey(ini.sections[i2], k2, v2) /\ p = ini.sections[i2].name \o k2
  BY DEF Has
<1> DEFINE y == ini.sections[i].name
           z == ini.sections[i2].name
<1>4. Unslashed(y) /\ Unslashed(z) /\ PathOf(y, k) = PathOf(z, k2)
  BY <1>1, <1>2, <1>3 DEF Unslashed, PathOf
<1> HIDE DEF y, z
<1>5. y = z /\ k = k2
  BY <1>4, CutOnce
<1>6. i = i2
  BY <1>5 DEF Tidy, y, z
<1> QED BY <1>2, <1>3, <1>5, <1>6 DEF Tidy, KeysOnce, HasKey

LEMMA FlattenedIs ==
  ASSUME NEW ini, Tidy(ini), Plain(ini)
  PROVE  LET f == flattenSettings(ini) IN
         IsFunction(f) /\ \A p, v : (p \in DOMAIN f /\ f[p] = v) <=> Has(ini, p, v)
<1> DEFINE es == FoldLeft(addEntries, <<>>, ini.sections)
           n == Len(es)
           f == asFunction(es)
<1>1. es \in Seq(Entries) /\ \A p, v : Listed(es, p, v) <=> Has(ini, p, v)
  BY EntriesAre DEF Tidy
<1> HIDE DEF es
<1>2. n \in Nat /\ DOMAIN es = 1 .. n
  BY <1>1
<1> HIDE DEF n
<1>3. /\ IsFunction(f)
      /\ \A p : p \in DOMAIN f <=> \E i \in 1 .. n : es[i].path = p
      /\ \A p \in DOMAIN f : \E i : Latest(es, n, p, i) /\ f[p] = es[i].value
  BY <1>2, AsFunctionIs
<1>4. flattenSettings(ini) = f
  BY DEF flattenSettings, es
<1> HIDE DEF f
<1>5. ASSUME NEW p \in DOMAIN f
      PROVE  Has(ini, p, f[p])
  <2>1. PICK i : Latest(es, n, p, i) /\ f[p] = es[i].value
    BY <1>3
  <2> QED BY <1>1, <1>2, <2>1 DEF Latest, Listed
<1>6. ASSUME NEW p, NEW v, Has(ini, p, v)
      PROVE  p \in DOMAIN f /\ f[p] = v
  <2>1. p \in DOMAIN f
    BY <1>1, <1>2, <1>3, <1>6 DEF Listed
  <2>2. Has(ini, p, f[p])
    BY <1>5, <2>1
  <2> QED BY <1>6, <2>1, <2>2, HasOnce
<1> QED BY <1>3, <1>4, <1>5, <1>6

-----------------------------------------------------------------------------
\* A whole patch.
Given(ini, patch, n, p, v) ==
  \/ \E i : Latest(patch, n, p, i) /\ v = patch[i].value
  \/ (\A i \in 1 .. n : patch[i].path # p) /\ Has(ini, p, v)
Patched(ini, patch, n, new) ==
  /\ Tidy(new) /\ (Plain(new) <=> Plain(ini))
  /\ Readable(new) <=> Readable(ini) /\ \A i \in 1 .. n : localKey(patch[i]) \notin Refused
  /\ Plain(ini) => \A p, v : Has(new, p, v) <=> Given(ini, patch, n, p, v)

LEMMA GivenMore ==
  ASSUME NEW ini, NEW patch, NEW k \in Nat, k >= 1, NEW p, NEW v
  PROVE  Given(ini, patch, k, p, v) <=> IF p = patch[k].path THEN v = patch[k].value ELSE Given(ini, patch, k - 1, p, v)
<1>1. k \in 1 .. k /\ \A i \in 1 .. k : i \in 1 .. k - 1 \/ i = k
  OBVIOUS
<1>2. \A i \in 1 .. k - 1 : i \in 1 .. k /\ i # k
  OBVIOUS
<1>3. \A i \in 1 .. k : i <= k
  OBVIOUS
<1>4. CASE p = patch[k].path
  <2>1. Latest(patch, k, p, k)
    BY <1>1, <1>3, <1>4 DEF Latest
  <2>2. ASSUME NEW i, Latest(patch, k, p, i) PROVE i = k
    <3>1. i \in 1 .. k /\ k <= i
      BY <1>1, <1>4, <2>2 DEF Latest
    <3> QED BY <3>1
  <2>3. ~\A i \in 1 .. k : patch[i].path # p
    BY <1>1, <1>4
  <2> QED BY <1>4, <2>1, <2>2, <2>3 DEF Given
<1>5. CASE p # patch[k].path
  <2>1. \A i : Latest(patch, k, p, i) <=> Latest(patch, k - 1, p, i)
    BY <1>1, <1>2, <1>5 DEF Latest
  <2>2. (\A i \in 1 .. k : patch[i].path # p) <=> \A i \in 1 .. k - 1 : patch[i].path # p
    BY <1>1, <1>2, <1>5
  <2> QED BY <1>5, <2>1, <2>2 DEF Given
<1> QED BY <1>4, <1>5

LEMMA PatchApplied ==
  ASSUME NEW ini, Tidy(ini), NEW patch, NEW n \in Nat, DOMAIN patch = 1 .. n, \A i \in 1 .. n : EntryOK(patch[i])
  PROVE  Patched(ini, patch, n, FoldLeft(applyPatch, ini, patch))
<1> DEFINE S == [k \in 0 .. n |-> {x \in Inis : Patched(ini, patch, k, x)}]
<1>1. \A x : Tidy(x) => x \in Inis
  BY DEF Tidy
<1>2. Patched(ini, patch, 0, ini)
  <2>1. \A i : i \notin 1 .. 0
    OBVIOUS
  <2>2. \A p, v : Has(ini, p, v) <=> Given(ini, patch, 0, p, v)
    BY <2>1 DEF Given, Latest
  <2> QED BY <2>1, <2>2 DEF Patched
<1>3. ASSUME NEW k \in 1 .. n, NEW x, Patched(ini, patch, k - 1, x)
      PROVE  Patched(ini, patch, k, applyPatch(x, patch[k]))
  <2> DEFINE e == patch[k]
             new == applyPatch(x, e)
  <2>1. Tidy(x) /\ EntryOK(e)
    BY <1>3 DEF Patched
  <2>2. /\ Tidy(new) /\ (Readable(new) <=> Readable(x) /\ localKey(e) \notin Refused) /\ (Plain(new) <=> Plain(x))
        /\ Plain(x) => \A p, v : Has(new, p, v) <=> IF p = e.path THEN v = e.value ELSE Has(x, p, v)
    BY <2>1, EntryApplied
  <2>3. \A p, v : Given(ini, patch, k, p, v) <=> IF p = e.path THEN v = e.value ELSE Given(ini, patch, k - 1, p, v)
    BY GivenMore
  <2> HIDE DEF new
  <2>4. (\A i \in 1 .. k : localKey(patch[i]) \notin Refused)
          <=> (\A i \in 1 .. k - 1 : localKey(patch[i]) \notin Refused) /\ localKey(e) \notin Refused
    <3>1. k \in 1 .. k /\ (\A i \in 1 .. k : i \in 1 .. k - 1 \/ i = k) /\ \A i \in 1 .. k - 1 : i \in 1 .. k
      OBVIOUS
    <3> QED BY <3>1
  <2> HIDE DEF e
  <2>5. Patched(ini, patch, k, new)
    BY <1>3, <2>2, <2>3, <2>4 DEF Patched
  <2> QED BY <2>5 DEF new, e
<1>4. ini \in S[0]
  <2>1. 0 \in 0 .. n
    OBVIOUS
  <2> QED BY <1>1, <1>2, <2>1
<1>5. ASSUME NEW k \in 1 .. n, NEW x \in S[k - 1]
      PROVE  applyPatch(x, patch[k]) \in S[k]
  <2>1. k - 1 \in 0 .. n /\ k \in 0 .. n
    OBVIOUS
  <2>2. Patched(ini, patch, k, applyPatch(x, patch[k]))
    BY <1>3, <2>1
  <2>3. applyPatch(x, patch[k]) \in Inis
    BY <1>1, <2>2 DEF Patched
  <2> QED BY <2>1, <2>2, <2>3
<1>6. \A x \in S[n] : Patched(ini, patch, n, x)
  OBVIOUS
<1> HIDE DEF S
<1>7. PatchFold!Fold(ini, patch) \in S[n]
  BY <1>4, <1>5, PatchFold!FoldPasses
<1> QED BY <1>6, <1>7, PatchIsFolded

LEMMA SettingsFollow ==
  ASSUME NEW ini, Tidy(ini), Plain(ini), NEW patch, NEW n \in Nat, DOMAIN patch = 1 .. n,
         NEW new, Patched(ini, patch, n, new)
  PROVE  LET given == asFunction(patch)
             f     == flattenSettings(ini) IN
         flattenSettings(new) = [p \in DOMAIN given \cup DOMAIN f |-> IF p \in DOMAIN given THEN given[p] ELSE f[p]]
<1> DEFINE given == asFunction(patch)
           f == flattenSettings(ini)
           g == flattenSettings(new)
           h == [p \in DOMAIN given \cup DOMAIN f |-> IF p \in DOMAIN given THEN given[p] ELSE f[p]]
<1>1. IsFunction(f) /\ \A p, v : (p \in DOMAIN f /\ f[p] = v) <=> Has(ini, p, v)
  BY FlattenedIs
<1>2. IsFunction(g) /\ \A p, v : (p \in DOMAIN g /\ g[p] = v) <=> Has(new, p, v)
  BY FlattenedIs DEF Patched
<1>3. /\ \A p : p \in DOMAIN given <=> \E i \in 1 .. n : patch[i].path = p
      /\ \A p \in DOMAIN given : \E i : Latest(patch, n, p, i) /\ given[p] = patch[i].value
  BY AsFunctionIs
<1>4. \A p, v : Has(new, p, v) <=> Given(ini, patch, n, p, v)
  BY DEF Patched
<1> HIDE DEF given, f, g
<1>5. ASSUME NEW p, NEW i, NEW j, Latest(patch, n, p, i), Latest(patch, n, p, j)
      PROVE  i = j
  <2>1. i \in 1 .. n /\ j \in 1 .. n /\ i <= j /\ j <= i
    BY <1>5 DEF Latest
  <2> QED BY <2>1
<1>6. ASSUME NEW p, NEW v
      PROVE  Given(ini, patch, n, p, v) <=> p \in DOMAIN h /\ h[p] = v
  <2>1. CASE p \in DOMAIN given
    <3>1. PICK i : Latest(patch, n, p, i) /\ given[p] = patch[i].value
      BY <1>3, <2>1
    <3>2. ~\A q \in 1 .. n : patch[q].path # p
      BY <1>3, <2>1
    <3>3. Given(ini, patch, n, p, v) <=> v = patch[i].value
      BY <1>5, <3>1, <3>2 DEF Given
    <3> QED BY <2>1, <3>1, <3>3
  <2>2. CASE p \notin DOMAIN given
    <3>1. \A q \in 1 .. n : patch[q].path # p
      BY <1>3, <2>2
    <3>2. \A i : ~Latest(patch, n, p, i)
      BY <3>1 DEF Latest
    <3>3. Given(ini, patch, n, p, v) <=> p \in DOMAIN f /\ f[p] = v
      BY <1>1, <3>1, <3>2 DEF Given
    <3> QED BY <2>2, <3>3
  <2> QED BY <2>1, <2>2
<1>7. IsFunction(h)
  BY DEF IsFunction
<1> HIDE DEF h
<1>8. \A p, v : (p \in DOMAIN g /\ g[p] = v) <=> (p \in DOMAIN h /\ h[p] = v)
  BY <1>2, <1>4, <1>6
<1>9. DOMAIN g = DOMAIN h /\ \A p \in DOMAIN g : g[p] = h[p]
  BY <1>8
<1>10. g = h
  BY <1>2, <1>7, <1>9 DEF IsFunction
<1> QED BY <1>10 DEF g, h, given, f

LEMMA PatchGrows ==
  ASSUME NEW ini, Tidy(ini), NEW patch, NEW n \in Nat, DOMAIN patch = 1 .. n, \A i \in 1 .. n : EntryOK(patch[i])
  PROVE  Tidy(FoldLeft(applyPatch, ini, patch)) /\ Grown(ini, FoldLeft(applyPatch, ini, patch))
<1> DEFINE S == {x \in Inis : Tidy(x) /\ Grown(ini, x)}
<1>1. ini \in S
  BY GrownAtFirst DEF Tidy
<1>2. ASSUME NEW k \in 1 .. n, NEW x \in S
      PROVE  applyPatch(x, patch[k]) \in S
  <2> DEFINE new == applyPatch(x, patch[k])
  <2>1. Tidy(x) /\ Grown(ini, x) /\ EntryOK(patch[k])
    OBVIOUS
  <2>2. Tidy(new) /\ Grown(x, new)
    BY <2>1, EntryApplied
  <2> HIDE DEF new
  <2>3. Grown(ini, new) /\ new \in Inis
    BY <2>1, <2>2, GrownOnAndOn DEF Tidy
  <2> QED BY <2>2, <2>3 DEF new
<1>3. \A x \in S : Tidy(x) /\ Grown(ini, x)
  OBVIOUS
<1> HIDE DEF S
<1>4. PatchFold!Fold(ini, patch) \in S
  BY <1>1, <1>2, PatchFold!FoldKeeps
<1> QED BY <1>3, <1>4, PatchIsFolded

LEMMA RereadGrows ==
  ASSUME NEW ini, Tidy(ini)
  PROVE  Grown(ini, Reread(ini))
<1>1. ini \in Inis /\ \A i \in DOMAIN ini.sections : ini.sections[i] \in Sections
  BY DEF Tidy, Inis
<1>2. ASSUME NEW s \in Sections
      PROVE  SectionGrown(s, Rewritten(s))
  <2>1. s.trailing \in Nat /\ Rewritten(s).trailing >= s.trailing
    BY DEF Rewritten, Sections
  <2> QED BY <2>1, RewrittenIs DEF SectionGrown
<1>3. /\ Reread(ini).preamble = ini.preamble
      /\ Reread(ini).sections = [i \in DOMAIN ini.sections |-> Rewritten(ini.sections[i])]
  BY <1>1, RereadIs
<1> QED BY <1>1, <1>2, <1>3 DEF Grown

\* Reading back changes nothing that is said.
LEMMA RereadSays ==
  ASSUME NEW ini, Readable(ini)
  PROVE  /\ Readable(Reread(ini)) /\ (Plain(Reread(ini)) <=> Plain(ini))
         /\ Plain(ini) => flattenSettings(Reread(ini)) = flattenSettings(ini)
         /\ (\A i \in DOMAIN Reread(ini).sections : Reread(ini).sections[i].keys # <<>>) => Reread(ini) = ini
<1> DEFINE new == Reread(ini)
<1>1. ini \in Inis /\ ini.ok
  BY DEF Readable, Tidy
<1>2. /\ new \in Inis /\ new.ok /\ new.preamble = ini.preamble /\ DOMAIN new.sections = DOMAIN ini.sections
  BY <1>1, RereadIs
<1>10. new.sections = [i \in DOMAIN ini.sections |-> Rewritten(ini.sections[i])]
  BY <1>1, RereadIs
<1>3. \A i \in DOMAIN ini.sections : ini.sections[i] \in Sections
  BY <1>1 DEF Inis
<1> HIDE DEF new
<1>4. \A i \in DOMAIN new.sections : /\ new.sections[i].name = ini.sections[i].name
                                      /\ new.sections[i].keys = ini.sections[i].keys
                                      /\ (ini.sections[i].keys # <<>> => new.sections[i] = ini.sections[i])
  BY <1>2, <1>3, <1>10, RewrittenIs
<1>5. Tidy(new)
  <2>1. \A i \in DOMAIN new.sections : KeysOnce(new.sections[i])
    BY <1>2, <1>4 DEF Readable, Tidy, KeysOnce
  <2> QED BY <1>2, <1>4, <2>1 DEF Readable, Tidy
<1>6. Readable(new)
  <2>1. \A i \in DOMAIN new.sections : KeysNamed(new.sections[i])
    BY <1>2, <1>4 DEF Readable, KeysNamed
  <2> QED BY <1>5, <2>1 DEF Readable
<1>7. Plain(new) <=> Plain(ini)
  BY <1>2, <1>4 DEF Plain
<1>8. ASSUME Plain(ini)
      PROVE  flattenSettings(new) = flattenSettings(ini)
  <2> DEFINE f == flattenSettings(ini)
             g == flattenSettings(new)
  <2>1. IsFunction(f) /\ \A p, v : (p \in DOMAIN f /\ f[p] = v) <=> Has(ini, p, v)
    BY <1>8, FlattenedIs DEF Readable
  <2>2. IsFunction(g) /\ \A p, v : (p \in DOMAIN g /\ g[p] = v) <=> Has(new, p, v)
    BY <1>5, <1>7, <1>8, FlattenedIs
  <2>3. \A p, v : Has(new, p, v) <=> Has(ini, p, v)
    BY <1>2, <1>4, SameSayTheSame
  <2> HIDE DEF f, g
  <2>4. DOMAIN f = DOMAIN g /\ \A p \in DOMAIN f : f[p] = g[p]
    BY <2>1, <2>2, <2>3
  <2>5. f = g
    BY <2>1, <2>2, <2>4 DEF IsFunction
  <2> QED BY <2>5 DEF f, g
<1>9. ASSUME \A i \in DOMAIN new.sections : new.sections[i].keys # <<>>
      PROVE  new = ini
  <2>1. \A i \in DOMAIN ini.sections : new.sections[i] = ini.sections[i]
    BY <1>2, <1>4, <1>9
  <2>2. new.sections = [i \in DOMAIN ini.sections |-> new.sections[i]]
    BY <1>10
  <2>3. ini.sections = [i \in DOMAIN ini.sections |-> ini.sections[i]]
    BY <1>1 DEF Inis
  <2>4. new.sections = ini.sections
    BY <2>1, <2>2, <2>3
  <2> QED BY <1>1, <1>2, <2>4 DEF Inis
<1> QED BY <1>6, <1>7, <1>8, <1>9 DEF new

-----------------------------------------------------------------------------
\* Files of one shape are written line by line alike.
Alike(out, other) ==
  /\ Len(out) = Len(other)
  /\ \A i \in DOMAIN out : other[i] # out[i] =>
       out[i].kind = "key" /\ other[i].kind = "key" /\ other[i].name = out[i].name

LEMMA AlikeJoined ==
  ASSUME NEW a \in Seq(Lines), NEW b \in Seq(Lines), Alike(a, b),
         NEW c \in Seq(Lines), NEW d \in Seq(Lines), Alike(c, d)
  PROVE  Alike(a \o c, b \o d)
<1> DEFINE one == a \o c
           two == b \o d
           m == Len(a)
           n == Len(c)
<1>1. /\ one \in Seq(Lines) /\ m \in Nat /\ n \in Nat /\ Len(one) = m + n
      /\ DOMAIN a = 1 .. m /\ DOMAIN c = 1 .. n /\ DOMAIN one = 1 .. m + n
      /\ \A i \in 1 .. m : one[i] = a[i]
      /\ \A i \in 1 .. n : one[m + i] = c[i]
  BY ConcatIs
<1>2. Len(b) = m /\ Len(d) = n
  BY DEF Alike
<1>3. /\ Len(two) = Len(b) + Len(d)
      /\ \A i \in 1 .. Len(b) : two[i] = b[i]
      /\ \A i \in 1 .. Len(d) : two[Len(b) + i] = d[i]
  BY ConcatIs
<1> HIDE DEF one, two, m, n
<1>4. /\ Len(two) = m + n /\ \A i \in 1 .. m : two[i] = b[i]
      /\ \A i \in 1 .. n : two[m + i] = d[i]
  BY <1>2, <1>3
<1>5. \A i \in 1 .. m + n : i \in 1 .. m \/ (i - m \in 1 .. n /\ m + (i - m) = i)
  BY <1>1
<1>6. ASSUME NEW i \in 1 .. m + n, two[i] # one[i]
      PROVE  one[i].kind = "key" /\ two[i].kind = "key" /\ two[i].name = one[i].name
  <2>1. CASE i \in 1 .. m
    <3>1. one[i] = a[i] /\ two[i] = b[i]
      BY <1>1, <1>4, <2>1
    <3> QED BY <1>1, <1>6, <2>1, <3>1 DEF Alike
  <2>2. CASE i - m \in 1 .. n /\ m + (i - m) = i
    <3>1. one[i] = c[i - m] /\ two[i] = d[i - m]
      BY <1>1, <1>4, <2>2
    <3> QED BY <1>1, <1>6, <2>2, <3>1 DEF Alike
  <2> QED BY <1>5, <2>1, <2>2
<1> QED BY <1>1, <1>4, <1>6 DEF Alike, one, two

LEMMA AlikeSections ==
  ASSUME NEW s \in Sections, NEW t \in Sections, s.name = t.name, SameKeys(t, s)
  PROVE  Alike(serializeSection(s), serializeSection(t))
<1> DEFINE one == serializeSection(s)
           two == serializeSection(t)
           m == Len(s.keys)
           r == s.trailing
<1>1. s.keys \in Seq(KeyLines) /\ t.keys \in Seq(KeyLines) /\ r \in Nat /\ t.trailing = r
      /\ m \in Nat /\ DOMAIN s.keys = 1 .. m
  BY DEF Sections, SameKeys
<1>2. Len(t.keys) = m /\ DOMAIN t.keys = 1 .. m
  BY <1>1 DEF SameKeys
<1>3. /\ one \in Seq(Lines) /\ Len(one) = 2 + m + r
      /\ one[1] = Header(s.name) /\ one[2] = Blank
      /\ \A j \in 1 .. m : one[2 + j] = s.keys[j]
      /\ \A j \in 1 .. r : one[2 + m + j] = Blank
  BY SectionWritten
<1>4. /\ Len(two) = 2 + Len(t.keys) + t.trailing
      /\ two[1] = Header(s.name) /\ two[2] = Blank
      /\ \A j \in 1 .. Len(t.keys) : two[2 + j] = t.keys[j]
      /\ \A j \in 1 .. t.trailing : two[2 + Len(t.keys) + j] = Blank
  BY SectionWritten
<1> HIDE DEF one, two, m, r
<1>5. /\ Len(two) = 2 + m + r
      /\ \A j \in 1 .. m : two[2 + j] = t.keys[j]
      /\ \A j \in 1 .. r : two[2 + m + j] = Blank
  BY <1>1, <1>2, <1>4
<1>6. DOMAIN one = 1 .. 2 + m + r
  BY <1>3
<1>7. ASSUME NEW i \in 1 .. 2 + m + r
      PROVE  \/ i = 1 \/ i = 2
             \/ i - 2 \in 1 .. m /\ i = 2 + (i - 2)
             \/ i - 2 - m \in 1 .. r /\ i = 2 + m + (i - 2 - m)
  <2>1. m \in Nat /\ r \in Nat /\ i \in Nat /\ 1 <= i /\ i <= 2 + m + r
    BY <1>1
  <2>2. CASE i <= 2
    BY <2>1, <2>2
  <2>3. CASE i > 2 /\ i <= 2 + m
    BY <2>1, <2>3
  <2>4. CASE i > 2 + m
    BY <2>1, <2>4
  <2> QED BY <2>1, <2>2, <2>3, <2>4
<1>8. ASSUME NEW i \in 1 .. 2 + m + r, two[i] # one[i]
      PROVE  one[i].kind = "key" /\ two[i].kind = "key" /\ two[i].name = one[i].name
  <2>1. i # 1 /\ i # 2 /\ ~(i - 2 - m \in 1 .. r /\ i = 2 + m + (i - 2 - m))
    BY <1>3, <1>4, <1>5, <1>8
  <2>2. i - 2 \in 1 .. m /\ i = 2 + (i - 2)
    BY <1>7, <2>1
  <2> DEFINE j == i - 2
  <2>3. j \in 1 .. m /\ one[i] = s.keys[j] /\ two[i] = t.keys[j]
    BY <1>3, <1>5, <2>2
  <2> HIDE DEF j
  <2>4. s.keys[j] \in KeyLines /\ t.keys[j] \in KeyLines /\ t.keys[j].name = s.keys[j].name
    BY <1>1, <1>2, <2>3 DEF SameKeys
  <2> QED BY <2>3, <2>4, LinesAre
<1> QED BY <1>3, <1>5, <1>6, <1>8 DEF Alike, one, two

LEMMA WrittenIsLines ==
  ASSUME NEW pre \in Seq(Lines), NEW secs, NEW n \in Nat, DOMAIN secs = 1 .. n, \A k \in 1 .. n : secs[k] \in Sections
  PROVE  SectionFold!Fold(pre, secs) \in Seq(Lines)
<1> DEFINE S == Seq(Lines)
<1>1. ASSUME NEW k \in 1 .. n, NEW out \in S
      PROVE  addSection(out, secs[k]) \in S
  <2>1. serializeSection(secs[k]) \in Seq(Lines)
    BY SectionWritten
  <2> QED BY <2>1, ConcatIs DEF addSection
<1> HIDE DEF S
<1>2. pre \in S
  BY DEF S
<1>3. SectionFold!Fold(pre, secs) \in S
  BY <1>1, <1>2, SectionFold!FoldKeeps
<1> QED BY <1>3 DEF S

LEMMA SerializedIsLines ==
  ASSUME NEW ini \in Inis
  PROVE  serializeGodotIni(ini) \in Seq(Lines)
<1>1. ini.preamble \in Seq(Lines) /\ ini.sections \in Seq(Sections)
  BY DEF Inis
<1>2. SectionFold!Fold(ini.preamble, ini.sections) \in Seq(Lines)
  <2> DEFINE n == Len(ini.sections)
  <2>1. n \in Nat /\ DOMAIN ini.sections = 1 .. n /\ \A k \in 1 .. n : ini.sections[k] \in Sections
    BY <1>1
  <2> HIDE DEF n
  <2> QED BY <1>1, <2>1, WrittenIsLines
<1> QED BY <1>2, SectionsAreFolded DEF serializeGodotIni

LEMMA SameShapeAlike ==
  ASSUME NEW a \in Inis, NEW b \in Inis, SameShape(a, b)
  PROVE  Alike(serializeGodotIni(a), serializeGodotIni(b))
<1> DEFINE pre == a.preamble
           secs == a.sections
           more == b.sections
           n == Len(secs)
           Part(k) == [i \in 1 .. k |-> secs[i]]
           Out(k) == SectionFold!Fold(pre, Part(k))
           S == [k \in 0 .. n |-> {x \in Seq(Lines) : Alike(Out(k), x)}]
<1>1. /\ pre \in Seq(Lines) /\ secs \in Seq(Sections) /\ more \in Seq(Sections) /\ n \in Nat
      /\ DOMAIN secs = 1 .. n /\ DOMAIN more = 1 .. n /\ b.preamble = pre
  BY DEF Inis, SameShape
<1>2. ASSUME NEW k \in 1 .. n
      PROVE  secs[k] \in Sections /\ more[k] \in Sections /\ secs[k].name = more[k].name /\ SameKeys(more[k], secs[k])
  BY <1>1 DEF SameShape, SameKeys
<1>3. ASSUME NEW k \in 0 .. n
      PROVE  Out(k) \in Seq(Lines)
  <2>1. k \in Nat /\ DOMAIN Part(k) = 1 .. k /\ \A i \in 1 .. k : Part(k)[i] \in Sections
    BY <1>1
  <2> HIDE DEF Part, pre
  <2> QED BY <1>1, <2>1, WrittenIsLines
<1>4. Out(0) = pre
  <2>1. DOMAIN Part(0) = {}
    OBVIOUS
  <2> HIDE DEF Part
  <2> QED BY <2>1, SectionFold!FoldEmpty
<1>5. Part(n) = secs
  BY <1>1
<1>6. ASSUME NEW k \in 1 .. n
      PROVE  Out(k) = addSection(Out(k - 1), secs[k])
  <2> DEFINE m == k - 1
  <2>1. m \in Nat /\ k = m + 1
    OBVIOUS
  <2> HIDE DEF m
  <2>2. /\ DOMAIN Part(m) = 1 .. m /\ DOMAIN Part(m + 1) = 1 .. m + 1 /\ Part(m + 1)[m + 1] = secs[m + 1]
        /\ \A i \in 1 .. m : Part(m + 1)[i] = Part(m)[i]
    BY <2>1
  <2> HIDE DEF Part, secs
  <2>3. SectionFold!Fold(pre, Part(m + 1)) = addSection(SectionFold!Fold(pre, Part(m)), Part(m + 1)[m + 1])
    BY <2>1, <2>2, SectionFold!FoldLast
  <2> QED BY <2>1, <2>2, <2>3 DEF m
<1> HIDE DEF Part, Out, n, pre, secs, more
<1>7. pre \in S[0]
  <2>1. Alike(pre, pre)
    BY <1>1 DEF Alike
  <2>2. 0 \in 0 .. n
    BY <1>1
  <2> QED BY <1>1, <1>4, <2>1, <2>2
<1>8. ASSUME NEW k \in 1 .. n, NEW x \in S[k - 1]
      PROVE  addSection(x, more[k]) \in S[k]
  <2>1. k \in 0 .. n /\ k - 1 \in 0 .. n
    BY <1>1
  <2>2. x \in Seq(Lines) /\ Alike(Out(k - 1), x) /\ Out(k - 1) \in Seq(Lines)
    BY <1>3, <2>1
  <2> DEFINE c == serializeSection(secs[k])
             d == serializeSection(more[k])
  <2>3. c \in Seq(Lines) /\ d \in Seq(Lines) /\ Alike(c, d)
    BY <1>2, SectionWritten, AlikeSections
  <2> HIDE DEF c, d
  <2>4. Alike(Out(k - 1) \o c, x \o d)
    BY <2>2, <2>3, AlikeJoined
  <2>5. x \o d \in Seq(Lines)
    BY <2>2, <2>3, ConcatIs
  <2>6. Out(k) = Out(k - 1) \o c /\ addSection(x, more[k]) = x \o d
    BY <1>6 DEF addSection, c, d
  <2> QED BY <2>1, <2>4, <2>5, <2>6
<1>9. \A x \in S[n] : Alike(Out(n), x)
  BY <1>1
<1> HIDE DEF S
<1>10. SectionFold!Fold(pre, more) \in S[n]
  BY <1>1, <1>7, <1>8, SectionFold!FoldPasses
<1>11. serializeGodotIni(a) = Out(n)
  BY <1>5, SectionsAreFolded DEF serializeGodotIni, Out, pre, secs
<1>12. serializeGodotIni(b) = SectionFold!Fold(pre, more)
  BY <1>1, SectionsAreFolded DEF serializeGodotIni, more
<1> QED BY <1>9, <1>10, <1>11, <1>12

\* A patch of settings that are there keeps the shape.
LEMMA PatchKeepsShape ==
  ASSUME NEW ini, Tidy(ini), Plain(ini), NEW patch, NEW n \in Nat, DOMAIN patch = 1 .. n,
         \A i \in 1 .. n : EntryOK(patch[i]) /\ \E v : Has(ini, patch[i].path, v)
  PROVE  SameShape(ini, FoldLeft(applyPatch, ini, patch))
<1> DEFINE There(x) == \A i \in 1 .. n : \E v : Has(x, patch[i].path, v)
           S == {x \in Inis : Tidy(x) /\ Plain(x) /\ SameShape(ini, x) /\ There(x)}
<1>1. ini \in S
  BY DEF SameShape, Tidy
<1>2. ASSUME NEW k \in 1 .. n, NEW x \in S
      PROVE  applyPatch(x, patch[k]) \in S
  <2> DEFINE e == patch[k]
             new == applyPatch(x, e)
  <2>1. Tidy(x) /\ Plain(x) /\ SameShape(ini, x) /\ There(x) /\ EntryOK(e)
    OBVIOUS
  <2>2. /\ Tidy(new) /\ (Plain(new) <=> Plain(x))
        /\ \A p, v : Has(new, p, v) <=> IF p = e.path THEN v = e.value ELSE Has(x, p, v)
    BY <2>1, EntryApplied
  <2>3. \E v : Has(x, e.path, v)
    BY <2>1
  <2>4. SameShape(x, new)
    BY <2>1, <2>3, EntryApplied
  <2> HIDE DEF new, e
  <2>5. SameShape(ini, new)
    BY <2>1, <2>4 DEF SameShape
  <2>6. There(new)
    BY <2>1, <2>2
  <2>7. new \in S
    BY <2>1, <2>2, <2>5, <2>6 DEF Tidy
  <2> QED BY <2>7 DEF new, e
<1>3. \A x \in S : SameShape(ini, x)
  OBVIOUS
<1> HIDE DEF S
<1>4. PatchFold!Fold(ini, patch) \in S
  BY <1>1, <1>2, PatchFold!FoldKeeps
<1> QED BY <1>3, <1>4, PatchIsFolded

-----------------------------------------------------------------------------
\* What holds of project.godot between two calls: unless a line was written that is read as another, it is
\* as the last call wrote it, and it can be read exactly if no key was written that KEY_RE refuses.
AsWritten(out, well) == \E old : Tidy(old) /\ out = serializeGodotIni(old) /\ (well <=> Readable(old))
IniInv ==
  /\ updates \in Nat /\ wellFormed \in BOOLEAN /\ misread \in BOOLEAN
  /\ updates = 0 => wellFormed
  /\ ~misread =>
       /\ source \in Seq(Lines)
       /\ updates > 0 => AsWritten(source, wellFormed)
       /\ (wellFormed /\ parseGodotIni(source).ok /\ Plain(parseGodotIni(source)))
             => settings = flattenSettings(parseGodotIni(source))

LEMMA IniStarts == IniInit => IniInv
<1> SUFFICES ASSUME IniInit PROVE IniInv
  OBVIOUS
<1>1. source \in Seq(Lines)
  BY PatchAssumption DEF IniInit
<1>2. updates = 0 /\ wellFormed /\ ~misread /\ wellFormed \in BOOLEAN /\ misread \in BOOLEAN
  BY DEF IniInit
<1>3. settings = flattenSettings(parseGodotIni(source)) /\ updates \in Nat /\ ~(updates > 0)
  BY <1>2 DEF IniInit
<1> QED BY <1>1, <1>2, <1>3 DEF IniInv

LEMMA PatchIs ==
  ASSUME NEW patch \in Patches, validateParams(patch),
         \A i \in DOMAIN patch : linesOf(patch[i]) \cap DOMAIN Misread = {}
  PROVE  LET n == Len(patch) IN n \in Nat /\ DOMAIN patch = 1 .. n /\ \A i \in 1 .. n : EntryOK(patch[i])
<1> DEFINE T == ToSet(patch)
<1>1. patch \in Seq(T) /\ \A e \in T : e.path # <<>> =>
        e.path \in Seq(ToSet(e.path)) /\ linesOf(e) \subseteq Lines \cup DOMAIN Misread
  BY PatchAssumption
<1>2. \A i \in DOMAIN patch : patch[i].path # <<>>
  BY DEF validateParams
<1> HIDE DEF T
<1>3. Len(patch) \in Nat /\ DOMAIN patch = 1 .. Len(patch) /\ \A i \in DOMAIN patch : patch[i] \in T
  BY <1>1
<1>4. ASSUME NEW e, linesOf(e) \subseteq Lines
      PROVE  sectionName(e) \in SectionNames /\ localKey(e) \in KeyNames /\ e.value \in Values
  <2>1. Header(sectionName(e)) \in Lines /\ KeyLine(localKey(e), e.value) \in Lines
    BY <1>4 DEF linesOf
  <2>2. \A n : Header(n).kind = "section" /\ Header(n).name = n
    BY DEF Header
  <2>3. \A k, v : KeyLine(k, v).kind = "key" /\ KeyLine(k, v).name = k /\ KeyLine(k, v).value = v
    BY DEF KeyLine
  <2> QED BY <2>1, <2>2, <2>3, LinesAre
<1>5. \A i \in DOMAIN patch : linesOf(patch[i]) \subseteq Lines
  BY <1>1, <1>2, <1>3
<1> QED BY <1>1, <1>2, <1>3, <1>4, <1>5 DEF EntryOK

\* What a call finds when the file can be read, and what it leaves.
LEMMA UpdateIs ==
  ASSUME IniInv, NEW patch \in Patches, updateSettings(patch), ~misread'
  PROVE  LET ini == parseGodotIni(source)
             new == FoldLeft(applyPatch, ini, patch) IN
         /\ ~misread /\ \A i \in DOMAIN patch : linesOf(patch[i]) \cap DOMAIN Misread = {}
         /\ Readable(ini) /\ wellFormed /\ Grown(ini, new)
         /\ Patched(ini, patch, Len(patch), new) /\ source' = serializeGodotIni(new)
         /\ wellFormed' <=> Readable(new)
<1> DEFINE ini == parseGodotIni(source)
           new == FoldLeft(applyPatch, ini, patch)
           n == Len(patch)
<1>1. ini.ok /\ source' = serializeGodotIni(new) /\ validateParams(patch)
      /\ wellFormed' = (wellFormed /\ \A i \in DOMAIN patch : localKey(patch[i]) \notin Refused)
  BY DEF updateSettings
<1>0. ~misread /\ \A i \in DOMAIN patch : linesOf(patch[i]) \cap DOMAIN Misread = {}
  BY DEF updateSettings, IniInv
<1>2. Readable(ini)
  BY <1>0, <1>1, ParsedIsReadable DEF IniInv
<1>3. wellFormed
  <2>1. SUFFICES ASSUME updates > 0 PROVE wellFormed
    BY DEF IniInv
  <2>2. PICK old : Tidy(old) /\ source = serializeGodotIni(old) /\ (wellFormed <=> Readable(old))
    BY <1>0, <2>1 DEF IniInv, AsWritten
  <2>3. Readable(old)
    <3>1. SUFFICES ASSUME ~Readable(old) PROVE FALSE
      OBVIOUS
    <3>2. PICK i \in DOMAIN old.sections : ~KeysNamed(old.sections[i])
      BY <2>2, <3>1 DEF Readable
    <3>3. ~ini.ok
      BY <2>2, <3>2, RefusedKeySpoils
    <3> QED BY <1>1, <3>3
  <2> QED BY <2>2, <2>3
<1>4. n \in Nat /\ DOMAIN patch = 1 .. n /\ \A i \in 1 .. n : EntryOK(patch[i])
  BY <1>0, <1>1, PatchIs
<1>5. Tidy(ini)
  BY <1>2 DEF Readable
<1> HIDE DEF ini, n
<1>6. Patched(ini, patch, n, new) /\ Grown(ini, new)
  BY <1>4, <1>5, PatchApplied, PatchGrows
<1> HIDE DEF new
<1>7. wellFormed' <=> Readable(new)
  BY <1>1, <1>2, <1>3, <1>4, <1>6 DEF Patched
<1> QED BY <1>0, <1>1, <1>2, <1>3, <1>6, <1>7 DEF ini, new, n

LEMMA UpdateKeepsInv ==
  ASSUME IniInv, NEW patch \in Patches, updateSettings(patch)
  PROVE  IniInv'
<1>0. updates' \in Nat /\ updates' # 0 /\ wellFormed' \in BOOLEAN /\ misread' \in BOOLEAN
  BY DEF updateSettings, IniInv
<1> SUFFICES ASSUME ~misread'
             PROVE  /\ source' \in Seq(Lines)
                    /\ AsWritten(source, wellFormed)'
                    /\ (wellFormed' /\ Plain(parseGodotIni(source')))
                          => settings' = flattenSettings(parseGodotIni(source'))
  BY <1>0 DEF IniInv
<1> DEFINE ini == parseGodotIni(source)
           new == FoldLeft(applyPatch, ini, patch)
           n == Len(patch)
           given == asFunction(patch)
<1>1. /\ Readable(ini) /\ wellFormed /\ Patched(ini, patch, n, new) /\ source' = serializeGodotIni(new)
      /\ wellFormed' <=> Readable(new)
      /\ ~misread /\ \A i \in DOMAIN patch : linesOf(patch[i]) \cap DOMAIN Misread = {}
  BY UpdateIs
<1>2. ini.ok /\ validateParams(patch)
      /\ settings' = [p \in DOMAIN given \cup DOMAIN settings |-> IF p \in DOMAIN given THEN given[p] ELSE settings[p]]
  BY DEF updateSettings
<1>3. n \in Nat /\ DOMAIN patch = 1 .. n
  BY <1>1, <1>2, PatchIs
<1>4. (wellFormed /\ ini.ok /\ Plain(ini)) => settings = flattenSettings(ini)
  BY <1>1 DEF IniInv
<1> HIDE DEF ini, n, new, given
<1>5. source' \in Seq(Lines)
  BY <1>1, SerializedIsLines DEF Patched, Tidy
<1>6. AsWritten(source, wellFormed)'
  <2>1. Tidy(new)
    BY <1>1 DEF Patched
  <2>2. \E old : Tidy(old) /\ source' = serializeGodotIni(old) /\ (wellFormed' <=> Readable(old))
    BY <1>1, <2>1
  <2> QED BY <2>2 DEF AsWritten
<1>8. ASSUME wellFormed', Plain(parseGodotIni(source'))
      PROVE  settings' = flattenSettings(parseGodotIni(source'))
  <2>1. Readable(new)
    BY <1>1, <1>8
  <2>2. parseGodotIni(source') = Reread(new)
    BY <1>1, <2>1, FileRead
  <2>3. Plain(new) /\ flattenSettings(Reread(new)) = flattenSettings(new)
    BY <1>8, <2>1, <2>2, RereadSays
  <2>4. Plain(ini) /\ Tidy(ini)
    BY <1>1, <2>3 DEF Patched, Readable
  <2>5. settings = flattenSettings(ini)
    BY <1>1, <1>2, <1>4, <2>4
  <2> DEFINE f == flattenSettings(ini)
  <2>6. flattenSettings(new) = [p \in DOMAIN given \cup DOMAIN f |-> IF p \in DOMAIN given THEN given[p] ELSE f[p]]
    BY <1>1, <1>3, <2>4, SettingsFollow DEF given
  <2> HIDE DEF f
  <2> QED BY <1>2, <2>2, <2>3, <2>5, <2>6 DEF f
<1> QED BY <1>5, <1>6, <1>8

LEMMA IniInvHolds == IniSpec => []IniInv
<1>1. IniInv /\ UNCHANGED iniVars => IniInv'
  BY DEF IniInv, iniVars, AsWritten
<1>2. IniInv /\ IniNext => IniInv'
  BY UpdateKeepsInv DEF IniNext
<1> QED BY IniStarts, <1>1, <1>2, PTL DEF IniSpec

\* What is read back of one section.
LEMMA SectionSays ==
  ASSUME NEW ini, Tidy(ini), Plain(ini), NEW f, f = flattenSettings(ini), NEW n \in SectionNames, Len(n) = 1
  PROVE  getSettings(ini, n) = {[name |-> Tail(p), value |-> f[p]] : p \in {q \in DOMAIN f : Head(q) = Head(n)}}
<1>1. \A p, v : (p \in DOMAIN f /\ f[p] = v) <=> Has(ini, p, v)
  BY FlattenedIs
<1>2. \A i \in DOMAIN ini.sections : /\ ini.sections[i] \in Sections /\ ini.sections[i].name \in SectionNames
                                     /\ Len(ini.sections[i].name) = 1
  <2>1. \A i \in DOMAIN ini.sections : ini.sections[i] \in Sections
    BY DEF Tidy, Inis
  <2> QED BY <2>1 DEF Sections, Plain
<1> DEFINE L == getSettings(ini, n)
           R == {[name |-> Tail(p), value |-> f[p]] : p \in {q \in DOMAIN f : Head(q) = Head(n)}}
<1>3. ASSUME NEW z \in L PROVE z \in R
  <2>1. PICK i \in named(ini.sections, n) : z \in {[name |-> l.name, value |-> l.value] : l \in ToSet(ini.sections[i].keys)}
    BY <1>3 DEF getSettings
  <2>2. PICK j \in DOMAIN ini.sections[i].keys :
          z = [name |-> ini.sections[i].keys[j].name, value |-> ini.sections[i].keys[j].value]
    BY <2>1 DEF ToSet
  <2> DEFINE k == ini.sections[i].keys[j].name
             v == ini.sections[i].keys[j].value
             p == n \o k
  <2>3. i \in DOMAIN ini.sections /\ ini.sections[i].name = n
    BY <2>1 DEF named
  <2>4. k \in KeyNames
    <3>1. ini.sections[i].keys \in Seq(KeyLines)
      BY <1>2, <2>3 DEF Sections
    <3>2. ini.sections[i].keys[j] \in KeyLines
      BY <3>1
    <3> QED BY <3>2, LinesAre
  <2>5. HasKey(ini.sections[i], k, v)
    BY DEF HasKey
  <2> HIDE DEF k, v
  <2>6. Has(ini, p, v)
    BY <2>3, <2>4, <2>5 DEF Has
  <2>7. p \in DOMAIN f /\ f[p] = v
    BY <1>1, <2>6
  <2>8. Head(p) = Head(n) /\ Tail(p) = k
    BY <2>4, OneCut
  <2>9. z = [name |-> k, value |-> v]
    BY <2>2 DEF k, v
  <2> HIDE DEF p
  <2> QED BY <2>7, <2>8, <2>9
<1>4. ASSUME NEW z \in R PROVE z \in L
  <2>1. PICK p \in DOMAIN f : Head(p) = Head(n) /\ z = [name |-> Tail(p), value |-> f[p]]
    BY <1>4
  <2>2. Has(ini, p, f[p])
    BY <1>1
  <2>3. PICK i \in DOMAIN ini.sections, k \in KeyNames : HasKey(ini.sections[i], k, f[p]) /\ p = ini.sections[i].name \o k
    BY <2>2 DEF Has
  <2> DEFINE y == ini.sections[i].name
  <2>4. y \in SectionNames /\ Len(y) = 1 /\ p = y \o k
    BY <1>2, <2>3
  <2> HIDE DEF y
  <2>5. y = <<Head(y)>> /\ Head(p) = Head(y) /\ Tail(p) = k
    BY <2>4, OneCut
  <2>6. n = <<Head(n)>>
    BY <2>3, OneCut
  <2>7. y = n
    BY <2>1, <2>5, <2>6
  <2>8. i \in named(ini.sections, n)
    BY <2>7 DEF named, y
  <2>9. PICK j \in DOMAIN ini.sections[i].keys : ini.sections[i].keys[j].name = k /\ ini.sections[i].keys[j].value = f[p]
    BY <2>3 DEF HasKey
  <2>10. z = [name |-> ini.sections[i].keys[j].name, value |-> ini.sections[i].keys[j].value]
    BY <2>1, <2>5, <2>9
  <2>11. z \in {[name |-> l.name, value |-> l.value] : l \in ToSet(ini.sections[i].keys)}
    BY <2>10 DEF ToSet
  <2> QED BY <2>8, <2>11 DEF getSettings
<1> QED BY <1>3, <1>4

LEMMA InvMeansWhatWasSet == IniInv => GetsWhatWasSet
<1> DEFINE ini == parseGodotIni(source)
           Said(f, n) == {[name |-> Tail(p), value |-> f[p]] : p \in {q \in DOMAIN f : Head(q) = Head(n)}}
<1> SUFFICES ASSUME IniInv, updates > 0, ~misread
             PROVE  /\ ini.ok <=> wellFormed
                    /\ wellFormed /\ Plain(ini) =>
                         /\ flattenSettings(ini) = settings
                         /\ \A n \in SectionNames : Len(n) = 1 => getSettings(ini, n) = Said(settings, n)
  BY DEF GetsWhatWasSet
<1>1. PICK old : Tidy(old) /\ source = serializeGodotIni(old) /\ (wellFormed <=> Readable(old))
  BY DEF IniInv, AsWritten
<1>2. CASE ~wellFormed
  <2>1. PICK i \in DOMAIN old.sections : ~KeysNamed(old.sections[i])
    BY <1>1, <1>2 DEF Readable
  <2>2. ~ini.ok
    BY <1>1, <2>1, RefusedKeySpoils
  <2> QED BY <1>2, <2>2 DEF IniInv
<1>3. CASE wellFormed
  <2>1. ini = Reread(old) /\ Readable(ini)
    BY <1>1, <1>3, FileRead, RereadSays
  <2>2. Tidy(ini) /\ ini.ok
    BY <2>1 DEF Readable, Tidy
  <2>3. Plain(ini) => settings = flattenSettings(ini)
    BY <1>3, <2>2 DEF IniInv
  <2> HIDE DEF ini
  <2>4. ASSUME Plain(ini), NEW n \in SectionNames, Len(n) = 1
        PROVE  getSettings(ini, n) = Said(settings, n)
    BY <2>2, <2>3, <2>4, SectionSays
  <2> HIDE DEF Said
  <2> QED BY <1>3, <2>2, <2>3, <2>4
<1> QED BY <1>2, <1>3 DEF IniInv

\* What an update leaves where it was.
LEMMA UpdateGrows ==
  ASSUME IniInv, NEW patch \in Patches, updateSettings(patch), wellFormed', ~misread'
  PROVE  Grown(parseGodotIni(source), parseGodotIni(source'))
<1> DEFINE ini == parseGodotIni(source)
           new == FoldLeft(applyPatch, ini, patch)
           n == Len(patch)
<1>1. /\ Readable(ini) /\ Grown(ini, new) /\ Patched(ini, patch, n, new) /\ source' = serializeGodotIni(new)
      /\ wellFormed' <=> Readable(new)
  BY UpdateIs
<1> HIDE DEF ini, n, new
<1>2. Tidy(ini) /\ Readable(new) /\ Tidy(new)
  BY <1>1 DEF Readable
<1>3. parseGodotIni(source') = Reread(new) /\ Readable(Reread(new))
  BY <1>1, <1>2, FileRead, RereadSays
<1>4. Grown(new, Reread(new)) /\ Tidy(Reread(new))
  BY <1>2, <1>3, RereadGrows DEF Readable
<1>5. Grown(ini, Reread(new))
  BY <1>1, <1>2, <1>4, GrownOnAndOn
<1> QED BY <1>3, <1>5 DEF ini

\* A change of values.
LEMMA InvMeansSettled ==
  ASSUME IniInv, NEW patch \in Patches, updateSettings(patch), updates > 0, ~misread',
         DOMAIN settings' = DOMAIN settings, Plain(parseGodotIni(source)),
         \A i \in DOMAIN parseGodotIni(source).sections : parseGodotIni(source).sections[i].keys # <<>>
  PROVE  Alike(source, source')
<1> DEFINE ini == parseGodotIni(source)
           new == FoldLeft(applyPatch, ini, patch)
           n == Len(patch)
           given == asFunction(patch)
<1>1. /\ Readable(ini) /\ wellFormed /\ Patched(ini, patch, n, new) /\ source' = serializeGodotIni(new)
      /\ ~misread /\ \A i \in DOMAIN patch : linesOf(patch[i]) \cap DOMAIN Misread = {}
  BY UpdateIs
<1>2. PICK old : Tidy(old) /\ source = serializeGodotIni(old) /\ Readable(old)
  BY <1>1 DEF IniInv, AsWritten
<1>3. ini = Reread(old)
  BY <1>2, FileRead
<1>4. \A i \in DOMAIN ini.sections : ini.sections[i].keys # <<>>
  OBVIOUS
<1>5. Plain(ini) /\ validateParams(patch) /\ Tidy(ini) /\ ini \in Inis /\ ini.ok
      /\ settings' = [p \in DOMAIN given \cup DOMAIN settings |-> IF p \in DOMAIN given THEN given[p] ELSE settings[p]]
  BY <1>1 DEF updateSettings, Readable, Tidy
<1>6. settings = flattenSettings(ini)
  BY <1>1, <1>5 DEF IniInv
<1>7. n \in Nat /\ DOMAIN patch = 1 .. n /\ \A i \in 1 .. n : EntryOK(patch[i])
  BY <1>1, <1>5, PatchIs
<1> HIDE DEF ini, n, given
<1>8. ini = old
  BY <1>2, <1>3, <1>4, RereadSays
<1>9. \A p : p \in DOMAIN given <=> \E i \in 1 .. n : patch[i].path = p
  BY <1>7, AsFunctionIs DEF given
<1>10. DOMAIN given \subseteq DOMAIN settings
  BY <1>5
<1>11. \A p, v : (p \in DOMAIN settings /\ settings[p] = v) <=> Has(ini, p, v)
  BY <1>5, <1>6, FlattenedIs
<1>12. ASSUME NEW i \in 1 .. n PROVE \E v : Has(ini, patch[i].path, v)
  <2> DEFINE p == patch[i].path
  <2>1. p \in DOMAIN given
    BY <1>9
  <2> HIDE DEF p
  <2>2. Has(ini, p, settings[p])
    BY <1>10, <1>11, <2>1
  <2> QED BY <2>2 DEF p
<1>13. SameShape(ini, new)
  BY <1>5, <1>7, <1>12, PatchKeepsShape
<1>14. new \in Inis
  BY <1>1 DEF Patched, Tidy
<1> HIDE DEF new
<1> QED BY <1>1, <1>2, <1>5, <1>8, <1>13, <1>14, SameShapeAlike

\* Project settings: what was set is what is read back, nothing in the file moves, and a change of
\* values touches only the lines of those keys, for files of any length and any patches.
THEOREM SettingsAreKept == IniSpec => SettingsHold
<1>1. IniInv /\ [IniNext]_iniVars => [ValuesChange => OnlyKeyLinesChange]_iniVars
  <2>1. SUFFICES ASSUME IniInv, NEW patch \in Patches, updateSettings(patch), ValuesChange
                 PROVE  OnlyKeyLinesChange
    BY DEF IniNext
  <2>2. Alike(source, source')
    BY <2>1, InvMeansSettled DEF ValuesChange
  <2> QED BY <2>2 DEF Alike, OnlyKeyLinesChange
<1>2. IniInv /\ [IniNext]_iniVars =>
        [(wellFormed' /\ ~misread') => Grown(parseGodotIni(source), parseGodotIni(source'))]_iniVars
  BY UpdateGrows DEF IniNext
<1> QED BY IniInvHolds, InvMeansWhatWasSet, <1>1, <1>2, PTL DEF IniSpec, SettingsHold, OrderKept, LayoutSettles
=============================================================================
