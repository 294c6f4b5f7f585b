----------------------------- MODULE TypeParser -----------------------------
(***************************************************************************)
(* The reader of Godot literals: tokenize() and the recursive descent of   *)
(* parseValue(), over a text that somebody writes token by token.          *)
(*                                                                         *)
(* A text is a sequence of classes of characters: "digit", "sign", "dot",  *)
(* "e" (an exponent, a hexadecimal digit or a letter), "hex" (the other    *)
(* hexadecimal letters), "n" and "u" (letters that mean something after a  *)
(* backslash), "quote", "backslash", "hash", "space", "other", the         *)
(* punctuation itself, and the reserved words, each as one letter.         *)
(* "digits" are so many that an exponent of them is out of range.  Places  *)
(* are counted from 1.                                                     *)
(***************************************************************************)
EXTENDS Naturals, Sequences, SequencesExt, FiniteSets, FiniteSetsExt

CONSTANTS
  Spellings,      \* what may be written: [kind, chars, means, alone], the value it has alone
  Unusual,        \* those that are written at most once
  Beginnings,     \* texts that the author goes on from
  MaxTokens       \* bound: how many tokens are added

ASSUME TypeParserAssumption == MaxTokens \in Nat /\ Unusual \subseteq Spellings

VARIABLES
  written,        \* the tokens written so far
  begun,          \* how many of them were there from the beginning
  parsed          \* parseValue() of their text

literalVars == <<written, begun, parsed>>

Punctuation == {"(", ")", "[", "]", "{", "}", ",", ":"}
Digits      == {"digit", "digits"}
HexDigits   == {"digit", "e", "hex"}
SingleArity == [Vector2 |-> 2, Vector3 |-> 3, Rect2 |-> 4, Transform2D |-> 6, Transform3D |-> 12]
ReservedWords       == {"true", "false", "null", "Color"} \cup DOMAIN SingleArity
IdentStart  == {"e", "hex", "n", "u"} \cup ReservedWords
IdentPart   == IdentStart \cup Digits

IDENT_ARITY(name) == IF name = <<"Color">> THEN {3, 4} ELSE {SingleArity[name[1]]}
IsConstructor(name) == Len(name) = 1 /\ name[1] \in DOMAIN SingleArity \cup {"Color"}

\* What a step returns: where it stopped, "end" being the place after it; or where it failed.
Got(v, end) == [ok |-> TRUE, value |-> v, end |-> end, at |-> 0]
Fail(at)    == [ok |-> FALSE, value |-> <<>>, end |-> 0, at |-> at]
Val(kind, v) == [kind |-> kind, of |-> v]

-----------------------------------------------------------------------------
At(s, i)     == IF i \in DOMAIN s THEN s[i] ELSE "end"
run(s, i, C) == Min({j \in i .. Len(s) + 1 : At(s, j) \notin C})

\* readStringLiteral(), of the quote at i
Unescaped(c) == IF c = "n" THEN "newline" ELSE c
readStringLiteral(s, i) ==
  LET n == Len(s)
      read[j \in 1 .. n + 8] ==
        LET c   == At(s, j)
            esc == At(s, j + 1)
            more(x, next) == IF read[next].ok THEN Got(<<x>> \o read[next].value, read[next].end) ELSE read[next]
        IN  CASE j > n -> Fail(i)
              [] c = "backslash" /\ esc \in {"quote", "backslash", "n"} -> more(Unescaped(esc), j + 2)
              [] c = "backslash" /\ esc = "u" ->
                   IF j + 5 > n \/ \E k \in j + 2 .. j + 5 : s[k] \notin HexDigits THEN Fail(j)
                   ELSE more("unicode", j + 6)
              [] c = "backslash" /\ esc \notin {"quote", "backslash", "n", "u"} -> Fail(j)
              [] c = "quote" -> Got(<<>>, j + 1)
              [] OTHER -> more(c, j + 1)
  IN  read[i + 1]

\* A number: a sign, digits with or without a point, an exponent.  An exponent without digits is
\* an error even where the number before it would do.
afterExponent(s, f) == IF At(s, f + 1) = "sign" THEN f + 2 ELSE f + 1
readNumber_LooseExponent(s, i) ==
  LET first == IF s[i] = "sign" THEN i + 1 ELSE i
      point == run(s, first, Digits)
      frac  == IF At(s, point) = "dot" THEN run(s, point + 1, Digits) ELSE point
      end   == IF At(s, frac) = "e" THEN run(s, afterExponent(s, frac), Digits) ELSE frac
  IN  IF point = first /\ frac <= point + 1 THEN Fail(i) ELSE Got(SubSeq(s, i, end - 1), end)

readNumber(s, i) ==
  LET first == IF s[i] = "sign" THEN i + 1 ELSE i
      point == run(s, first, Digits)
      frac  == IF At(s, point) = "dot" THEN run(s, point + 1, Digits) ELSE point
      sawDigit == point > first \/ frac > point + 1
      end   == IF At(s, frac) = "e" THEN run(s, afterExponent(s, frac), Digits) ELSE frac
  IN  IF (At(s, frac) = "e" /\ end = afterExponent(s, frac)) \/ ~sawDigit THEN Fail(i)
      ELSE Got(SubSeq(s, i, end - 1), end)

readHexColor(s, i) ==
  LET end == run(s, i + 1, HexDigits)
  IN  IF end - i - 1 \in {6, 8} THEN Got(SubSeq(s, i + 1, end - 1), end) ELSE Fail(i)

readIdent(s, i) == LET end == run(s, i, IdentPart) IN Got(SubSeq(s, i, end - 1), end)

\* tokenize(): the tokens, with their places, or the place of the first thing that is none.
Lexeme(s, i) ==
  CASE s[i] \in Punctuation -> [kind |-> s[i], lex |-> Got(<<>>, i + 1)]
    [] s[i] = "quote" -> [kind |-> "string", lex |-> readStringLiteral(s, i)]
    [] s[i] = "hash" -> [kind |-> "hex-color", lex |-> readHexColor(s, i)]
    [] s[i] \in {"sign"} \cup Digits -> [kind |-> "number", lex |-> readNumber(s, i)]
    [] s[i] \in IdentStart -> [kind |-> "ident", lex |-> readIdent(s, i)]
    [] OTHER -> [kind |-> "none", lex |-> Fail(i)]

tokenize(s) ==
  LET from[i \in 1 .. Len(s) + 1] ==
        IF i > Len(s) THEN Got(<<>>, i)
        ELSE IF s[i] = "space" THEN from[i + 1]
        ELSE LET t == Lexeme(s, i) IN
             IF ~t.lex.ok THEN t.lex
             ELSE LET rest == from[t.lex.end] IN
                  IF ~rest.ok THEN rest
                  ELSE Got(<<[kind |-> t.kind, value |-> t.lex.value, position |-> i]>> \o rest.value, rest.end)
  IN  from[1]

-----------------------------------------------------------------------------
\* parseNumberToken()
isFinite(chars) == ~\E k \in 2 .. Len(chars) : chars[k] = "digits" /\ \E j \in 1 .. k : chars[j] = "e"

\* hexPairToFloat() of each pair; a color without alpha has alpha 1.
hexPairs(v)   == [k \in 1 .. Len(v) \div 2 |-> <<v[2 * k - 1], v[2 * k]>>]
Opaque(parts) == IF Len(parts) = 4 THEN parts ELSE Append(parts, "one")

buildIdentCall(name, args) == IF name = <<"Color">> THEN Val("color", Opaque(args)) ELSE Val(name[1], args)

reserved(name) == CASE name = <<"true">> -> Got(Val("bool", TRUE), 0) [] name = <<"false">> -> Got(Val("bool", FALSE), 0)
                    [] name = <<"null">> -> Got(Val("null", <<>>), 0) [] OTHER -> Fail(0)

\* parseValueFromCursor(), parseNumberList(), parseArray() and parseDict() at token i of ts, in a text
\* that ends before place "last".  "opened" is the place of the bracket that a list belongs to, and
\* a list is what follows it: the first element with its separator, and the rest.
Descent(ts, last) ==
  LET Kind(i)  == IF i \in DOMAIN ts THEN ts[i].kind ELSE "end"
      Place(i) == IF i \in DOMAIN ts THEN ts[i].position ELSE last
      Forms == {"value", "numbers", "items", "entries"}
      Closing == [numbers |-> ")", items |-> "]", entries |-> "}"]
      parse[form \in Forms, i \in 1 .. Len(ts) + 2, opened \in 0 .. Len(ts)] ==
        LET \* an element of a list has been read up to "next": end, separator or error
            follow(v, next) ==
              CASE Kind(next) = "end" -> Fail(Place(opened))
                [] Kind(next) = Closing[form] -> Got(<<v>>, next + 1)
                [] Kind(next) = "," /\ form # "numbers" /\ Kind(next + 1) = Closing[form] -> Got(<<v>>, next + 2)
                [] Kind(next) = "," /\ ~(form # "numbers" /\ Kind(next + 1) = Closing[form]) ->
                     LET rest == parse[form, next + 1, opened]
                     IN  IF rest.ok THEN Got(<<v>> \o rest.value, rest.end) ELSE rest
                [] OTHER -> Fail(Place(next))
            value(j) == parse["value", j, 0]
            list(f)  == IF Kind(i + 1) = Closing[f] THEN Got(<<>>, i + 2) ELSE parse[f, i + 1, i]
            wrap(kind, r) == IF r.ok THEN Got(Val(kind, r.value), r.end) ELSE r
            call == IF Kind(i + 2) = ")" THEN Got(<<>>, i + 3) ELSE parse["numbers", i + 2, i + 1]
        IN
        CASE form = "value" /\ Kind(i) = "number" ->
               IF isFinite(ts[i].value) THEN Got(Val("number", ts[i].value), i + 1) ELSE Fail(Place(i))
          [] form = "value" /\ Kind(i) = "string" -> Got(Val("string", ts[i].value), i + 1)
          [] form = "value" /\ Kind(i) = "hex-color" -> Got(Val("color", Opaque(hexPairs(ts[i].value))), i + 1)
          [] form = "value" /\ Kind(i) = "ident" /\ reserved(ts[i].value).ok -> Got(reserved(ts[i].value).value, i + 1)
          [] form = "value" /\ Kind(i) = "ident" /\ IsConstructor(ts[i].value) ->
               IF Kind(i + 1) # "(" THEN Fail(IF Kind(i + 1) = "end" THEN Place(i) ELSE Place(i + 1))
               ELSE IF ~call.ok THEN call
               ELSE IF Len(call.value) \notin IDENT_ARITY(ts[i].value) THEN Fail(Place(i))
               ELSE Got(buildIdentCall(ts[i].value, call.value), call.end)
          [] form = "value" /\ Kind(i) = "[" -> wrap("array", list("items"))
          [] form = "value" /\ Kind(i) = "{" -> wrap("dict", list("entries"))
          [] form = "numbers" /\ Kind(i) = "number" /\ isFinite(ts[i].value) -> follow(ts[i].value, i + 1)
          [] form = "items" /\ value(i).ok -> follow(value(i).value, value(i).end)
          [] form = "items" /\ ~value(i).ok -> value(i)
          [] form = "entries" /\ Kind(i) = "string" /\ Kind(i + 1) = ":" ->
               IF value(i + 2).ok THEN follow(<<ts[i].value, value(i + 2).value>>, value(i + 2).end) ELSE value(i + 2)
          [] form = "entries" /\ Kind(i) = "string" /\ Kind(i + 1) # ":" -> Fail(Place(i + 1))
          [] form \in {"numbers", "entries"} /\ Kind(i) = "end" -> Fail(Place(opened))
          [] OTHER -> Fail(Place(i))
  IN  parse["value", 1, 0]

parseValue(s) ==
  LET lexed == tokenize(s) IN
  IF ~lexed.ok THEN lexed
  ELSE IF lexed.value = <<>> THEN Fail(1)
  ELSE LET r == Descent(lexed.value, Len(s) + 1) IN
       IF r.ok /\ r.end <= Len(lexed.value) THEN Fail(lexed.value[r.end].position) ELSE r

-----------------------------------------------------------------------------
\* The text: a space between two words, and after a comma.
IsPunctuation(w) == w.kind \in Punctuation
Spaced(w, v) == w.kind = "," \/ ~(IsPunctuation(w) \/ IsPunctuation(v))
Text(ws) == FlattenSeq([k \in DOMAIN ws |-> IF k > 1 /\ Spaced(ws[k - 1], ws[k]) THEN <<"space">> \o ws[k].chars
                                                                                  ELSE ws[k].chars])
Start(ws, k) == Len(Text(SubSeq(ws, 1, k))) - Len(ws[k].chars) + 1

LiteralInit ==
  /\ written \in Beginnings
  /\ begun = Len(written)
  /\ parsed = parseValue(Text(written))

\* The author goes on after a literal, or where something is missing at the end: the text could
\* still become one.
Missing ==
  \/ written = <<>> \/ parsed.at = Len(Text(written)) + 1
  \/ \E k \in DOMAIN written : written[k].kind \in {"[", "{", "("} /\ parsed.at = Start(written, k)
  \/ written # <<>> /\ Last(written).kind = "ident" /\ IsConstructor(Last(written).means)
Write(w) ==
  /\ Len(written) < begun + MaxTokens
  /\ IF parsed.ok THEN TRUE ELSE Missing
  /\ w \in Unusual => ToSet(written) \cap Unusual = {}
  /\ written' = Append(written, w)
  /\ parsed' = parseValue(Text(written'))
  /\ UNCHANGED begun

LiteralTypeOK ==
  /\ written \in Seq(Spellings) /\ begun \in Nat /\ Len(written) <= begun + MaxTokens
  /\ parsed.at \in 0 .. Len(Text(written)) + 1 /\ (parsed.ok <=> parsed.at = 0)

LiteralNext == \E w \in Spellings : Write(w)

-----------------------------------------------------------------------------
\* The grammar, read from the outside in: tokens i to j are a value.
Grammar(ws) ==
  LET K(i) == ws[i].kind
      depth(i, k) == Cardinality({m \in i .. k : K(m) \in {"(", "[", "{"}}) - Cardinality({m \in i .. k : K(m) \in {")", "]", "}"}})
      commas(i, j) == {k \in i .. j : K(k) = "," /\ depth(i, k) = 0}
      None == [ok |-> FALSE, value |-> <<>>]
      Some(v) == [ok |-> TRUE, value |-> v]
      v[i \in 1 .. Len(ws) + 1, j \in 0 .. Len(ws)] ==
        LET trailing == K(i) # "ident" /\ j - 1 > i + 1 /\ K(j - 1) = ","
            inner == IF trailing THEN j - 2 ELSE j - 1
            first == IF K(i) = "ident" THEN i + 2 ELSE i + 1
            ends  == SetToSortSeq(commas(first, inner) \cup {inner + 1}, <)
            piece(k) == <<IF k = 1 THEN first ELSE ends[k - 1] + 1, ends[k] - 1>>
            pieces == IF inner < first THEN <<>> ELSE [k \in DOMAIN ends |-> piece(k)]
            entry(p) == IF p[2] >= p[1] + 2 /\ K(p[1]) = "string" /\ K(p[1] + 1) = ":"
                        THEN v[p[1] + 2, p[2]] ELSE None
        IN
        CASE i > j -> None
          [] i = j /\ K(i) \in {"number", "string", "hex-color", "ident"} -> ws[i].alone
          [] i < j /\ K(i) = "ident" /\ IsConstructor(ws[i].means) /\ K(i + 1) = "(" /\ K(j) = ")" ->
               IF /\ \A k \in DOMAIN pieces : pieces[k][1] = pieces[k][2] /\ K(pieces[k][1]) = "number"
                                              /\ ws[pieces[k][1]].alone.ok
                  /\ Len(pieces) \in IDENT_ARITY(ws[i].means)
               THEN Some(buildIdentCall(ws[i].means, [k \in DOMAIN pieces |-> ws[pieces[k][1]].means])) ELSE None
          [] i < j /\ K(i) = "[" /\ K(j) = "]" ->
               IF \A k \in DOMAIN pieces : v[pieces[k][1], pieces[k][2]].ok
               THEN Some(Val("array", [k \in DOMAIN pieces |-> v[pieces[k][1], pieces[k][2]].value])) ELSE None
          [] i < j /\ K(i) = "{" /\ K(j) = "}" ->
               IF \A k \in DOMAIN pieces : entry(pieces[k]).ok
               THEN Some(Val("dict", [k \in DOMAIN pieces |-> <<ws[pieces[k][1]].means, entry(pieces[k]).value>>])) ELSE None
          [] OTHER -> None
  IN  v[1, Len(ws)]

\* The parser accepts the texts of the grammar and no others, and returns the value they mean; what it
\* refuses, it refuses at the beginning of a token, inside of a malformed one or at the end.
ParsesTheGrammar ==
  written # <<>> =>
  /\ parsed.ok <=> Grammar(written).ok
  /\ parsed.ok => parsed.value = Grammar(written).value
  /\ ~parsed.ok => \/ parsed.at \in {Start(written, k) : k \in DOMAIN written} \cup {Len(Text(written)) + 1}
                   \/ \E k \in DOMAIN written : written[k].kind = "malformed"
                        /\ parsed.at \in Start(written, k) .. Start(written, k) + Len(written[k].chars)
=============================================================================
