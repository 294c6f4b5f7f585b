------------------------------ MODULE MCServer ------------------------------
EXTENDS McpServer

\* Tools: "twice" and "module" have a schema, "bare" has none; "ghost" is in no file for the SDK.
EntryOf(n, s, c, m) == [name |-> n, scope |-> s, channel |-> c, module |-> m]

\* A file that repeats a name with other fields; one for the bridge with a tool of each kind of
\* channel; and one that is refused.
SdkCatalog ==
  <<EntryOf("twice", "module", "runtime", "combat"), EntryOf("twice", "core", "cli", "core-minimal"),
    EntryOf("module", "module", "cli", "combat"), EntryOf("bare", "core", "cli", "core")>>
BridgeCatalog ==
  <<EntryOf("twice", "core", "editor", "core"), EntryOf("module", "core", "cross", "core"),
    EntryOf("ghost", "core", "cli", "core")>>
SomeCatalogs == {SdkCatalog, BridgeCatalog, <<EntryOf("bare", "core", "bad", "core")>>}

\* Two profiles that filter; the middleware is varied with one of them, where the licenses are
\* read live.
MCInit ==
  /\ Init
  /\ front = "sdk" => /\ tools = SdkCatalog
                      /\ \/ profile = "Minimal" /\ (live \/ logLevel = "info")
                         \/ profile = "Lite" /\ live /\ logLevel = "info"
  /\ front = "bridge" => tools = BridgeCatalog
MCSpec == MCInit /\ [][Next]_vars /\ Fairness
=============================================================================
