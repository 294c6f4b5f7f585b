---------------------------- MODULE MCWorkbench ----------------------------
(***************************************************************************)
(* The parts of the workbench on small instances.                          *)
(***************************************************************************)
EXTENDS Workbench

\* Command lines of up to two words, and longer ones with a value that looks like a flag, for one
\* process.  The other runs headless beside it, or turns back at once where the line is a long one:
\* with these it is the words that matter.
SomeWords == {Word("--stdio"), Word("--smoke"), Word("--profile"), Word("Lite"), Word("--license-dir"),
              Inline("--profile", "Lite"), Inline("--license-dir", ""), Inline("--stdio", "x")}
SomeCommandLines ==
  {<<>>} \cup UNION {[1 .. n -> SomeWords] : n \in 1 .. 2}
    \cup {<<Word("--license-dir"), Word("--stdio"), Word("--stdio")>>,
          <<Word("--profile"), Word("Lite"), Word("--stdio")>>}
OneCommandLine == part = "boot" =>
  argv["s2"] = IF Len(argv["s1"]) < 2 THEN <<>> ELSE <<Word("--profile")>>

\* Files of up to three lines, and one whose section names are parts of each other.
SomeSections == {<<"a">>, <<"b">>, <<"a", "b">>}
SomeKeys     == {<<>>, <<"1 k">>, <<"k">>, <<"b", "k">>}
NoKeys       == {<<>>, <<"1 k">>}
SomeIniLines == {Header(<<"a">>), Header(<<"a", "b">>), KeyLine(<<"k">>, 1), KeyLine(<<"b", "k">>, 2),
                 Blank, Comment, Malformed}
SomeSources  == UNION {[1 .. n -> SomeIniLines] : n \in 0 .. 3}
\* Value 3 is what follows the first "=" of the key "k=k", 4 has several lines.
SomeMisread  == (KeyLine(<<"k=k">>, 1) :> KeyLine(<<"k">>, 3)) @@ (KeyLine(<<";k">>, 1) :> Comment)
                  @@ (KeyLine(<<"k">>, 4) :> Malformed) @@ (Header(<<"a]">>) :> Malformed)
Setting1(p, v) == <<[path |-> p, value |-> v]>>
SomePatches  == {Setting1(p, v) : p \in {<<"a", "k">>, <<"a", "b", "k">>, <<"b", "k">>}, v \in {1, 2}}
                  \cup {Setting1(p, 1) : p \in {<<"a">>, <<"a", "1 k">>, <<"a", "k=k">>, <<"a", ";k">>, <<"a]", "k">>}}
                  \cup {Setting1(<<"a", "k">>, 4), Setting1(<<"a", "k">>, 1) \o Setting1(<<"b", "k">>, 2)}

SomeVersions == {NoVersion, [nums |-> <<1, 2, 0>>, suffix |-> FALSE], [nums |-> <<1, 0, 3>>, suffix |-> TRUE],
                 [nums |-> <<0, 9, 9>>, suffix |-> FALSE]}
SomeDirs     == <<"forgekit_core", "forgekit_rpg">>

\* Documents of up to three lines, and one code file mapped to one section.
MDLine(d, s) == [depth |-> d, slug |-> s]
SomeDocLines == {MDLine(0, "text"), MDLine(1, "a"), MDLine(2, "b"), MDLine(1, "b")}
SomeDocs     == UNION {[1 .. n -> SomeDocLines] : n \in 0 .. 3}
SomeMappings == {[files |-> {"x.ts"}, file |-> "doc.md", slug |-> "a"]}

\* The odd conditions and messages are looked at with one document.
Usual == message = <<"blank", "conventional">>
         /\ conditions = [skip |-> FALSE, map |-> "good", gitFails |-> FALSE, logFails |-> FALSE]
OneDocument == part = "commit" => (Usual \/ committed["doc.md"] = <<MDLine(1, "a")>>)

\* Tokens with what they mean alone, and the beginnings of literals that need more tokens than the
\* bound adds.
NoValue  == [ok |-> FALSE, value |-> <<>>]
Means(v) == [ok |-> TRUE, value |-> v]
Spelling(k, c, m, a) == [kind |-> k, chars |-> c, means |-> m, alone |-> a]
Mark(c)          == Spelling(c, <<c>>, <<>>, NoValue)
NumberToken(c)   == Spelling("number", c, c, Means(Val("number", c)))
StringToken(c, m) == Spelling("string", <<"quote">> \o c \o <<"quote">>, m, Means(Val("string", m)))
Named(w)         == Spelling("ident", <<w>>, <<w>>, NoValue)
Broken(c)        == Spelling("malformed", c, <<>>, NoValue)
Digit            == NumberToken(<<"digit">>)
KeyToken         == StringToken(<<"hash", "backslash", "quote">>, <<"hash", "quote">>)
UnusualSpellings ==
  {NumberToken(<<"sign", "digit", "dot", "e", "sign", "digit">>),
   Spelling("number", <<"digit", "e", "digits">>, <<"digit", "e", "digits">>, NoValue),
   StringToken(<<"backslash", "u", "digit", "e", "hex", "digit", "backslash", "n">>, <<"unicode", "newline">>),
   Spelling("ident", <<"true">>, <<"true">>, Means(Val("bool", TRUE))),
   Spelling("ident", <<"null">>, <<"null">>, Means(Val("null", <<>>))),
   Named("Color"), Spelling("ident", <<"Vector2", "digit">>, <<"Vector2", "digit">>, NoValue),
   Spelling("hex-color", <<"hash", "hex", "e", "digit", "hex", "e", "digit">>, <<>>,
            Means(Val("color", << <<"hex", "e">>, <<"digit", "hex">>, <<"e", "digit">>, "one">>))),
   Broken(<<"sign">>), Broken(<<"digit", "e">>), Broken(<<"quote", "n">>),
   Broken(<<"quote", "backslash", "hex", "quote">>), Broken(<<"hash", "hex", "hex">>), Broken(<<"other">>)}
SomeSpellings  == {Mark(c) : c \in Punctuation} \cup {Digit, KeyToken, Named("Vector2")} \cup UnusualSpellings
SomeBeginnings ==
  {<<>>, <<Mark("["), Mark("{")>>, <<Mark("["), Digit, Mark(",")>>, <<Mark("{"), KeyToken, Mark(":")>>,
   <<Mark("{"), KeyToken, Mark(":"), Digit, Mark(",")>>,
   <<Mark("["), Mark("["), Digit, Mark("]"), Mark(",")>>,
   <<Named("Vector2"), Mark("("), Digit, Mark(",")>>,
   <<Mark("["), Named("Color"), Mark("("), Digit, Mark(","), Digit, Mark(","), Digit>>}

\* Calls that differ in their name only are interchangeable, and so are the processes: one order
\* of them is enough.  Those that write the active-port file are processes of their own: servers,
\* games and an editor.  Of three calls at most two are of one process or of one kind of process.
Rank(w)  == CASE role[w] \in {"updateSettings", "setEnabled"} -> 0 [] role[w] = "writeActivePort" -> 1
              [] role[w] = "runtime" -> 2 [] role[w] = "editor" -> 3
InOrder  == part = "files" =>
  LET processes == <<process["w1"], process["w2"], process["w3"]>>
      ranks     == <<Rank("w1"), Rank("w2"), Rank("w3")>> IN
  \/ ranks = <<0, 0, 0>> /\ processes \in {<<"p1", "p1", "p2">>, <<"p1", "p2", "p3">>}
  \/ processes = <<"p1", "p2", "p3">> /\ ranks \in {<<1, 1, 2>>, <<1, 1, 3>>, <<1, 2, 2>>, <<1, 2, 3>>, <<2, 2, 3>>}

MCInit == WorkbenchInit /\ OneCommandLine /\ OneDocument /\ InOrder
MCSpec == MCInit /\ [][WorkbenchNext]_workbenchVars /\ WorkbenchFairness
=============================================================================
