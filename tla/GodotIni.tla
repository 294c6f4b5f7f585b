------------------------------ MODULE GodotIni ------------------------------
(***************************************************************************)
(* project.godot as the tools read and write it: parseGodotIni(),          *)
(* serializeGodotIni(), and updateSettings() and getSettings() on top.     *)
(*                                                                         *)
(* The file is a sequence of lines.  A name is the sequence of its parts   *)
(* between slashes, <<>> being the empty name: a setting is known to       *)
(* callers by the parts of its section followed by those of its key, and   *)
(* split again after the first part.                                       *)
(*                                                                         *)
(* updateSettings() writes whatever name and value it is given, and the    *)
(* reader's patterns know less: of some lines it writes KEY_RE says that   *)
(* they are none (Refused), and some are read as another line (Misread).   *)
(***************************************************************************)
EXTENDS Naturals, Sequences, SequencesExt

CONSTANTS
  SectionNames,   \* names in section headers
  KeyNames,       \* keys in the file
  Refused,        \* those of them that KEY_RE refuses: none, a first digit, a space
  Values,
  Misread,        \* what lines are read as that are not read as they were meant: a key with "="
                  \* or a ";" before it, a section with "]", a value of several lines
  FirstSources,   \* what the file holds at first: sequences of Lines
  Patches,        \* what updateSettings() is called with: sequences of [path, value]
  MaxUpdates      \* bound: calls of updateSettings()

ASSUME IniAssumption ==
  /\ MaxUpdates \in Nat
  /\ \A n \in SectionNames \cup KeyNames : n \in Seq(ToSet(n))
  /\ Refused \subseteq KeyNames

VARIABLES
  source,         \* the lines of project.godot
  settings,       \* history: what the file should say, path by path
  updates,
  wellFormed,     \* history: no key was written that KEY_RE refuses
  misread         \* history: a line was written that is read as another

iniVars == <<source, settings, updates, wellFormed, misread>>

Header(n)  == [kind |-> "section", name |-> n]
KeyLine(k, v) == [kind |-> "key", name |-> k, value |-> v]
Blank      == [kind |-> "blank"]
Comment    == [kind |-> "comment"]
Malformed  == [kind |-> "malformed"]       \* also a line in the middle of a value

Lines == {Header(n) : n \in SectionNames} \cup {KeyLine(k, v) : k \in KeyNames, v \in Values}
           \cup {Blank, Comment, Malformed}

ASSUME MisreadAssumption == \A l \in DOMAIN Misread : l \notin Lines /\ Misread[l] \in Lines

\* The patterns: which line a text is taken for, and which names are keys.
readAs(l) == IF l \in DOMAIN Misread THEN Misread[l] ELSE l
KEY_RE(l) == l.kind = "key" /\ l.name \notin Refused

Ini(pre, secs) == [ok |-> TRUE, preamble |-> pre, sections |-> secs]
ParseError     == [ok |-> FALSE, preamble |-> <<>>, sections |-> <<>>]
Section(n)     == [name |-> n, keys |-> <<>>, trailing |-> 0]

named(things, n) == {i \in DOMAIN things : things[i].name = n}
lastChanged(ini, s) == [ini EXCEPT !.sections[Len(ini.sections)] = s]

\* One line: a header opens a section, and whatever precedes the first one is the preamble;
\* inside, comments are dropped and of the blank lines only those at the end are kept.
parseLine(ini, text) ==
  LET l    == readAs(text)
      open == ini.sections # <<>>
      s    == Last(ini.sections) IN
  CASE ~ini.ok -> ini
    [] ini.ok /\ l.kind = "section" ->
         IF named(ini.sections, l.name) # {} THEN ParseError
         ELSE [ini EXCEPT !.sections = Append(@, Section(l.name))]
    [] ini.ok /\ ~open /\ l.kind # "section" -> [ini EXCEPT !.preamble = Append(@, text)]
    [] ini.ok /\ open /\ l.kind = "blank" -> lastChanged(ini, [s EXCEPT !.trailing = @ + 1])
    [] ini.ok /\ open /\ l.kind = "comment" -> lastChanged(ini, [s EXCEPT !.trailing = 0])
    [] ini.ok /\ open /\ KEY_RE(l) /\ named(s.keys, l.name) = {} ->
         lastChanged(ini, [s EXCEPT !.trailing = 0, !.keys = Append(@, l)])
    [] OTHER -> ParseError

parseGodotIni(lines) == FoldLeft(parseLine, Ini(<<>>, <<>>), lines)

serializeSection_OneMore(s) == <<Header(s.name), Blank>> \o s.keys \o [i \in 1 .. s.trailing + 1 |-> Blank]
serializeSection(s) == <<Header(s.name), Blank>> \o s.keys \o [i \in 1 .. s.trailing |-> Blank]
addSection(lines, s)  == lines \o serializeSection(s)
serializeGodotIni(ini) == FoldLeft(addSection, ini.preamble, ini.sections)

\* Entries of a path and a value as an object: of two with one path the last is kept.
asFunction(entries) ==
  [p \in {entries[i].path : i \in DOMAIN entries} |->
     entries[Max({i \in DOMAIN entries : entries[i].path = p})].value]

\* flattenSettings()
entriesOf(s) == [i \in DOMAIN s.keys |-> [path |-> s.name \o s.keys[i].name, value |-> s.keys[i].value]]
addEntries(entries, s) == entries \o entriesOf(s)
flattenSettings(ini) == asFunction(FoldLeft(addEntries, <<>>, ini.sections))

\* getSettings() of one section
getSettings(ini, n) ==
  UNION {{[name |-> l.name, value |-> l.value] : l \in ToSet(ini.sections[s].keys)} : s \in named(ini.sections, n)}

-----------------------------------------------------------------------------
\* appendSection(): a blank line after what was the last one.
spacedEnd(ini) ==
  IF ini.sections = <<>> THEN ini
  ELSE lastChanged(ini, [Last(ini.sections) EXCEPT !.trailing = IF @ = 0 THEN 1 ELSE @])
appendSection(ini, n) ==
  [spacedEnd(ini) EXCEPT !.sections = Append(@, [Section(n) EXCEPT !.trailing = 1])]

\* applyPatch(): one entry, its path cut at the first slash.
sectionName(e) == <<Head(e.path)>>
localKey(e)    == Tail(e.path)

linesOf(e)     == {Header(sectionName(e)), KeyLine(localKey(e), e.value)}

ASSUME PatchAssumption ==
  /\ FirstSources \subseteq Seq(Lines)
  /\ \A patch \in Patches : patch \in Seq(ToSet(patch)) /\ \A e \in ToSet(patch) : e.path # <<>> =>
       e.path \in Seq(ToSet(e.path)) /\ linesOf(e) \subseteq Lines \cup DOMAIN Misread

setKey(s, e) ==
  LET at == named(s.keys, localKey(e)) IN
  IF at = {} THEN [s EXCEPT !.trailing = IF @ = 0 THEN 1 ELSE @, !.keys = Append(@, KeyLine(localKey(e), e.value))]
  ELSE [s EXCEPT !.keys[CHOOSE i \in at : TRUE].value = e.value]

applyPatch(ini, e) ==
  LET with == IF named(ini.sections, sectionName(e)) = {} THEN appendSection(ini, sectionName(e)) ELSE ini
      at   == CHOOSE i \in named(with.sections, sectionName(e)) : TRUE
  IN  [with EXCEPT !.sections[at] = setKey(@, e)]

\* validateParams(): something to do, and a section before the first slash.  Whatever comes after the
\* slash is accepted, and so is any value.
validateParams(patch) == patch # <<>> /\ \A i \in DOMAIN patch : patch[i].path # <<>>

\* updateSettings(): all or nothing, and the file is left alone when no value changes.
updateSettings(patch) ==
  LET ini   == parseGodotIni(source)
      new   == FoldLeft(applyPatch, ini, patch)
      given == asFunction(patch)
  IN  /\ updates < MaxUpdates /\ validateParams(patch)
      /\ ini.ok /\ new # ini
      /\ updates' = updates + 1
      /\ source' = serializeGodotIni(new)
      /\ settings' = [p \in DOMAIN given \cup DOMAIN settings |-> IF p \in DOMAIN given THEN given[p] ELSE settings[p]]
      /\ wellFormed' = (wellFormed /\ \A i \in DOMAIN patch : localKey(patch[i]) \notin Refused)
      /\ misread' = (misread \/ \E i \in DOMAIN patch : linesOf(patch[i]) \cap DOMAIN Misread # {})

IniInit ==
  /\ source \in FirstSources
  /\ settings = flattenSettings(parseGodotIni(source))
  /\ updates = 0
  /\ wellFormed = TRUE
  /\ misread = FALSE

IniNext == \E patch \in Patches : updateSettings(patch)

IniSpec == IniInit /\ [][IniNext]_iniVars

-----------------------------------------------------------------------------
Plain(ini) == \A i \in DOMAIN ini.sections : Len(ini.sections[i].name) = 1

\* What was set is what is read back: after any updates the file can be parsed, and it has
\* each setting with the last value given to it and no other change.  Three things break this.
\* A key that KEY_RE refuses is accepted and written, and from then on no call can read the file: the
\* file can be read exactly if there was none.  A section whose own name has a slash is never found
\* again, because paths are cut at the first one.  And of a line that is read as another nothing is
\* promised.
GetsWhatWasSet ==
  LET ini == parseGodotIni(source) IN
  (updates > 0 /\ ~misread) =>
    /\ ini.ok <=> wellFormed
    /\ wellFormed /\ Plain(ini) =>
         /\ flattenSettings(ini) = settings
         /\ \A n \in SectionNames : Len(n) = 1 =>
              getSettings(ini, n) = {[name |-> Tail(p), value |-> settings[p]] : p \in {q \in DOMAIN settings : Head(q) = Head(n)}}

\* A file with more in it: nothing of it has moved.
SectionGrown(s, t) ==
  /\ t.name = s.name /\ t.trailing >= s.trailing /\ DOMAIN s.keys \subseteq DOMAIN t.keys
  /\ \A i \in DOMAIN s.keys : t.keys[i].name = s.keys[i].name
Grown(ini, new) ==
  /\ new.preamble = ini.preamble /\ DOMAIN ini.sections \subseteq DOMAIN new.sections
  /\ \A i \in DOMAIN ini.sections : SectionGrown(ini.sections[i], new.sections[i])

\* Nothing moves: in whatever file an update finds, the preamble stays, the sections and the keys stay
\* where they are, with new ones after them, and a section keeps the blank lines at its end.  This
\* is of the first write too: what the file loses by it is the comments in sections and the blank
\* lines between keys.
OrderKept ==
  [][(wellFormed' /\ ~misread') => Grown(parseGodotIni(source), parseGodotIni(source'))]_iniVars

\* A file without empty sections gets other values for keys that it has.
ValuesChange ==
  LET ini == parseGodotIni(source) IN
  /\ updates > 0 /\ ~misread' /\ DOMAIN settings' = DOMAIN settings
  /\ Plain(ini) /\ \A i \in DOMAIN ini.sections : ini.sections[i].keys # <<>>
OnlyKeyLinesChange ==
  /\ Len(source') = Len(source)
  /\ \A i \in DOMAIN source : source'[i] # source[i] =>
       source[i].kind = "key" /\ source'[i].kind = "key" /\ source'[i].name = source[i].name

\* The layout settles: once the tool has written the file, a change of values touches only the
\* lines of those keys.  (A section without keys gains a blank line at every write.)
LayoutSettles == [][ValuesChange => OnlyKeyLinesChange]_iniVars

\* All three: what is set is kept, and the rest of the file is left as it is.
SettingsHold == []GetsWhatWasSet /\ OrderKept /\ LayoutSettles
=============================================================================
