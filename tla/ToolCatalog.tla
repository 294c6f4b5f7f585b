---------------------------- MODULE ToolCatalog ----------------------------
(***************************************************************************)
(* The tools a session exposes: the entries of profiles.json, filtered by  *)
(* the profile and the unlocked modules, the schema of each tool, and the  *)
(* three indexes built from the same entries: the list of the handlers,    *)
(* the routing table of ChannelRouter and the handlers of CliExecutor.     *)
(*                                                                         *)
(* The loader checks each entry, not that names are unique, so an entry    *)
(* may be repeated with another scope, module or channel.                  *)
(***************************************************************************)
EXTENDS Naturals, Sequences, SequencesExt

CONSTANTS
  Names,          \* names of tools
  RpgModules,     \* the subsystems a forgekit_rpg license unlocks
  HasSchema,      \* tools with a ToolSchema
  HasFactory      \* tools for which CliExecutor has a handler factory

ASSUME CatalogAssumption == HasSchema \subseteq Names /\ HasFactory \subseteq Names

VALID_PROFILES == {"Full", "Lite", "Minimal", "RPG-only"}
VALID_SCOPES   == {"core", "module"}
VALID_CHANNELS == {"editor", "runtime", "cli", "cross"}
VALID_MODULES  == {"core-minimal", "core"} \cup RpgModules

ToolEntry == [name : Names, scope : VALID_SCOPES, channel : VALID_CHANNELS, module : VALID_MODULES]

\* An entry of the file before its validation: a field that is no string, or not one of the
\* values allowed, is "bad".
RawEntry == [name : Names \cup {"bad"}, scope : VALID_SCOPES \cup {"bad"},
             channel : VALID_CHANNELS \cup {"bad"}, module : VALID_MODULES \cup {"bad"}]

\* loadProfiles(): all entries, or ProfilesFileInvalidError for the first that is wrong.
validateToolEntry(e) == e \in ToolEntry
loadProfiles(raw) ==
  IF \A k \in DOMAIN raw : validateToolEntry(raw[k]) THEN [ok |-> TRUE, tools |-> raw]
                                                    ELSE [ok |-> FALSE, tools |-> <<>>]

NameSet(tools) == {tools[k].name : k \in DOMAIN tools}

\* The first entry with a name is the one that every Map built from the entries keeps.
FirstEntry(tools, n) == SelectSeq(tools, LAMBDA t : t.name = n)[1]

\* MODULE_ID_TO_UNLOCKED
unlockedModulesFromLicenses(records) == IF "forgekit_rpg" \in records THEN RpgModules ELSE {}

selectByProfile(profile, t) ==
  \/ profile = "Full"
  \/ profile = "Lite" /\ t.scope = "core"
  \/ profile \in {"Minimal", "RPG-only"} /\ t.module = "core-minimal"

\* The entries kept.  Their order and that only the first of a name stays show in the list
\* a client gets, not in what may be called.
applyProfile(tools, profile, unlocked) ==
  {t \in ToSet(tools) : selectByProfile(profile, t) \/ t.module \in unlocked}

buildToolList(tools, profile, unlocked) ==
  {t \in applyProfile(tools, profile, unlocked) : t.name \in HasSchema}

currentlyAllowed(tools, profile, unlocked) == {t.name : t \in buildToolList(tools, profile, unlocked)}

\* The routing table: a name that is not in it is no method of the router.
toolIndex(tools) == [n \in NameSet(tools) |-> FirstEntry(tools, n).channel]

\* CliExecutor registers a handler for each entry of its channel that has a factory.
handlers(tools) == {t.name : t \in {u \in ToSet(tools) : u.channel = "cli" /\ u.name \in HasFactory}}
hasHandler(tools, n) == n \in handlers(tools)
=============================================================================
