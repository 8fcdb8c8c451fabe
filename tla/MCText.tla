------------------------------ MODULE MCText ------------------------------
(***************************************************************************)
(* Patterns and Scalars, over every text of a family, written one symbol   *)
(* at a time: three families of patterns, the paths of a source locus, and *)
(* the scalars that travel as text (a date is walked day by day).  The     *)
(* reference of a pattern is what ECMA-262 says its text denotes.          *)
(***************************************************************************)
EXTENDS Patterns, Scalars, JsonReader, BagsExt, SemVer, UnitGraph, TypeScriptNames

CONSTANTS
  StructureLength, BoundsLength, ClassLength, PathLength,
  ScalarLength, BytesLength, DurationLength,    \* the longest text of a family
  CalendarYears,                                \* the years a walk stays in
  SubjectLength                                \* the longest subject of a pattern

VARIABLES
  language,       \* the family of texts being written
  word          \* the pattern so far

Openings ==
  [ structure |-> { << >> },
    bounds |-> { << "a", "{" >>, << "(", "a", "|", ")", "{" >>, << "(", "a", "b", ")", "{" >>, << "^", "{" >> },
    class |-> { << "[" >> },
    path |-> { << >> },
    number |-> { << >> },
    bytes |-> { << >>, << 0, 16, 63, 4 >>, << 4, 16, Pad, Pad >> },
    duration |-> { << "P" >>, << "-", "P" >> },
    calendar |-> { << year, 1, 1 >> : year \in CalendarYears } ]
TextSymbols ==
  [ structure |-> { "a", ".", "^", "$", "|", "(", ")", "*", "?", ":" },
    bounds |-> { "{", "}", ",", "0", "1", "2", "?" },
    class |-> { "^", "a", "b", "-", "]", "\\", "d", "0" },
    path |-> PathSymbols,
    number |-> { "-", "+", "0", "1", "9", "." },
    bytes |-> { 0, 4, 16, 33, Pad, Foreign },
    duration |-> { "1", ".", "T", "Y", "M", "D", "H", "S" },
    calendar |-> { } ]
LongestText(f) ==
  CASE f = "structure" -> StructureLength [] f = "bounds" -> BoundsLength [] f = "class" -> ClassLength
    [] f = "path" -> PathLength
    [] f = "number" -> ScalarLength [] f = "bytes" -> BytesLength
    [] f = "duration" -> DurationLength [] f = "calendar" -> 0

Subjects == UNION { [ 1 .. n -> { UnitOf("a"), UnitOf("b"), UnitOf("nl") } ] : n \in 0 .. SubjectLength }

Level(t, k) == Cardinality({ j \in 1 .. k - 1 : t[j] = "(" }) - Cardinality({ j \in 1 .. k - 1 : t[j] = ")" })

TextIdle == language = "idle" /\ word = << >>
TextInit == language \in DOMAIN Openings /\ word \in Openings[language]

\* What has been written of the text beyond the opening of its family.
Beyond ==
  CASE language = "bounds" ->
         Len(word) - (CHOOSE k \in DOMAIN word : word[k] = "{" /\ \A j \in 1 .. k - 1 : word[j] # "{")
    [] language = "bytes" -> IF Len(word) < 4 THEN Len(word) ELSE Len(word) - 4
    [] OTHER -> Len(word)

\* A text whose `)` closes nothing, or whose `(` cannot be closed, is not continued.
Spell(ch) ==
  /\ Beyond < LongestText(language)
  /\ IF language = "structure" THEN Level(Append(word, ch), Len(word) + 2) \in 0 .. StructureLength - Len(word) - 1 ELSE TRUE
  /\ word' = Append(word, ch)
  /\ UNCHANGED language

\* The day after a civil date.
Tomorrow(date) ==
  CASE IsValidCivil(date[1], date[2], date[3] + 1) -> << date[1], date[2], date[3] + 1 >>
    [] date[3] >= MonthLengths(date[1])[date[2]] /\ date[2] < 12 -> << date[1], date[2] + 1, 1 >>
    [] OTHER -> << date[1] + 1, 1, 1 >>

PassDay ==
  /\ language = "calendar" /\ Tomorrow(word)[1] \in CalendarYears
  /\ word' = Tomorrow(word)
  /\ UNCHANGED language

TextNext == (\E ch \in TextSymbols[language] : Spell(ch)) \/ PassDay

----------------------------------------------------------------------------
(* What a text of the first two families denotes in ECMA-262.              *)

\* The symbols of a quantifier that begins at k, lazy mark left out: 0 if none does.
QuantifierLength(t, k) ==
  LET D == { n \in 1 .. Len(t) - k : \A j \in k + 1 .. k + n : t[j] \in DecimalDigits }
      n == IF D = { } THEN 0 ELSE CHOOSE x \in D : \A y \in D : y <= x
      E == { x \in 0 .. Len(t) - k - n - 1 : \A j \in k + n + 2 .. k + n + 1 + x : t[j] \in DecimalDigits }
      e == IF E = { } THEN 0 ELSE CHOOSE x \in E : \A y \in E : y <= x
  IN CASE CharAt(t, k) \in { "*", "+", "?" } -> 1
       [] CharAt(t, k) = "{" /\ n > 0 /\ CharAt(t, k + n + 1) = "}" -> n + 2
       [] CharAt(t, k) = "{" /\ n > 0 /\ CharAt(t, k + n + 1) = "," /\ CharAt(t, k + n + e + 2) = "}" -> n + e + 3
       [] OTHER -> 0

Value(digits) == FoldLeft(LAMBDA v, d : 10 * v + UnitOf(d) - UnitOf("0"), 0, digits)

\* The least and the most repetitions a quantifier asks for.
Bounds(q) ==
  LET comma == { j \in DOMAIN q : q[j] = "," }
      c == CHOOSE j \in comma : TRUE
  IN CASE q = << "*" >> -> << 0, NoMost >>
       [] q = << "+" >> -> << 1, NoMost >>
       [] q = << "?" >> -> << 0, 1 >>
       [] OTHER ->
            IF comma = { }
            THEN << Value(SubSeq(q, 2, Len(q) - 1)), Value(SubSeq(q, 2, Len(q) - 1)) >>
            ELSE << Value(SubSeq(q, 2, c - 1)),
                    IF c = Len(q) - 1 THEN NoMost ELSE Value(SubSeq(q, c + 1, Len(q) - 1)) >>

\* Where a match of `t` that begins at i can end, in the subject s.
RECURSIVE MatchEnds(_, _, _), Again(_, _, _, _)
Again(t, s, from, n) == IF n = 0 THEN from ELSE Again(t, s, UNION { MatchEnds(t, s, i) : i \in from }, n - 1)

MatchEnds(t, s, i) ==
  LET bars == { k \in DOMAIN t : t[k] = "|" /\ Level(t, k) = 0 }
      bar == CHOOSE k \in bars : \A j \in bars : k <= j
      close == CHOOSE k \in DOMAIN t : t[k] = ")" /\ Level(t, k + 1) = 0
                                       /\ \A j \in 1 .. k - 1 : Level(t, j + 1) > 0
      atom == IF t[1] = "(" THEN close ELSE 1
      quantifier == QuantifierLength(t, atom + 1)
      bounds == Bounds(SubSeq(t, atom + 1, atom + quantifier))
      most == IF bounds[2] = NoMost THEN bounds[1] + Len(s) + 1 ELSE bounds[2]
      lazy == IF quantifier > 0 /\ CharAt(t, atom + quantifier + 1) = "?" THEN 1 ELSE 0
      rest == SubSeq(t, atom + quantifier + lazy + 1, Len(t))
      once == CASE t[1] = "(" -> MatchEnds(SubSeq(t, IF t[2] = "?" THEN 4 ELSE 2, close - 1), s, i)
                [] t[1] = "." -> { j \in { i + 1 } : i < Len(s) /\ s[j] # UnitOf("nl") }
                [] t[1] = "^" -> { j \in { i } : i = 0 }
                [] t[1] = "$" -> { j \in { i } : i = Len(s) }
                [] OTHER -> { j \in { i + 1 } : i < Len(s) /\ s[j] = UnitOf(t[1]) }
      repeated == IF quantifier = 0 THEN once
                  ELSE UNION { Again(SubSeq(t, 1, atom), s, { i }, n) : n \in bounds[1] .. most }
  IN CASE bars # { } -> MatchEnds(SubSeq(t, 1, bar - 1), s, i) \cup MatchEnds(SubSeq(t, bar + 1, Len(t)), s, i)
       [] bars = { } /\ t = << >> -> { i }
       [] OTHER -> UNION { MatchEnds(rest, s, j) : j \in repeated }

\* "Nothing to repeat": a brace quantifier with no atom before it, which the
\* reader's engine refuses before a backend sees the pattern.
NothingToRepeat(t) ==
  \E k \in DOMAIN t :
    /\ t[k] = "{" /\ QuantifierLength(t, k) > 0
    /\ \/ k = 1
       \/ t[k - 1] \in { "(", "|", "^", "$" }
       \/ \E j \in 1 .. k - 1 : LET n == QuantifierLength(t, j) IN n > 0 /\ (j + n = k \/ (j + n = k - 1 /\ t[k - 1] = "?"))

\* A lowered pattern matches exactly the subjects ECMA-262 says its text
\* matches: whatever parser, lowering and matcher make of priorities, nested
\* optionals and jump targets, the verdict is the published engine's.
LoweredMatchesEngine ==
  LET lowered == LowerPattern(word)
  IN language \in { "structure", "bounds" } /\ lowered.ok /\ ~NothingToRepeat(word) =>
         \A s \in Subjects :
           RunMatcher(lowered.instructions, s) =
             IF \E i \in 0 .. Len(s) : MatchEnds(word, s, i) # { } THEN "matched" ELSE "rejected"

\* The loops that would spin are refused, so no pattern of these lengths
\* reaches the step bound of the matcher on a subject of these lengths.
NothingSpins ==
  LET lowered == LowerPattern(word)
  IN language \in { "structure", "bounds" } /\ lowered.ok =>
       \A s \in Subjects : RunMatcher(lowered.instructions, s) # "bounded"

\* What the backend's parser accepts the Rust reader accepts: no pattern is
\* generated from that the other reader calls INVALID_PATTERN.
ExpressibleCompiles == language \in { "structure", "bounds", "class" } /\ ParsePattern(word).ok => RustCompiles(word)

\* The ranges of a class are sorted and apart, they cover exactly the members
\* the class lists, and their complement covers exactly the other units.
ClassesAreCanonical ==
  LET parsed == ParsePattern(word)
      ranges == parsed.node.terms[1].ranges
      members == LET inner == IF CharAt(word, 2) = "^" THEN 3 ELSE 2
                 IN ClassMembers(word, inner, << >>).ranges
      apart(rs) == \A i \in DOMAIN rs : rs[i][1] <= rs[i][2] /\ (i > 1 => rs[i - 1][2] + 1 < rs[i][1])
  IN language = "class" /\ parsed.ok =>
       /\ apart(ranges) /\ apart(Complement(ranges))
       /\ \A unit \in AllUnits :
            /\ InRanges(unit, ranges) = InRanges(unit, members)
            /\ InRanges(unit, Complement(ranges)) = ~InRanges(unit, ranges)

\* The published pattern of a locus path,
\* ^(?!/)(?![A-Za-z]:)(?!.*\\)(?!.*(?:^|/)\.\.(?:/|$))[^\u0000]+$ : `.*` reaches the
\* positions before the first line terminator.
PublishedLocusPath(t) ==
  LET reach == { n \in 0 .. Len(t) : \A i \in 1 .. n : t[i] # "nl" }
      dotsAt(n) == CharAt(t, n + 1) = "." /\ CharAt(t, n + 2) = "." /\ CharAt(t, n + 3) \in { "/", "end" }
  IN /\ CharAt(t, 1) # "/"
     /\ ~(CharAt(t, 1) = "a" /\ CharAt(t, 2) = ":")
     /\ \A n \in reach : CharAt(t, n + 1) # "\\"
     /\ \A n \in reach : ~((n = 0 /\ dotsAt(0)) \/ (CharAt(t, n + 1) = "/" /\ dotsAt(n + 1)))
     /\ Len(t) > 0 /\ \A i \in DOMAIN t : t[i] # "nul"

\* SourceLocusPath accepts exactly the published language, clause for clause.
LocusPathIsPublished == language = "path" => (TryNew(word) <=> PublishedLocusPath(word))

\* The three languages of a locus path nest: what is free of traversal and
\* published is what the Rust reader accepts on one line, and the reader never
\* accepts what the published pattern refuses.
LocusLanguagesNest ==
  language = "path" =>
    /\ IsRelativeLocusPath(word) => TryNew(word)
    /\ TryNew(word) /\ IsTraversalFree(word) => IsRelativeLocusPath(word)
    /\ IsRelativeLocusPath(word) /\ ~Holds(word, "nl") => IsTraversalFree(word)

----------------------------------------------------------------------------
(* Decimals and integers.                                                  *)

Policies == { << 1, 0 >>, << 2, 1 >>, << 3, 1 >>, << 3, 3 >> }

\* What can be written beside a text: the canonical decimals of three symbols.
Others == { t \in UNION { [ 1 .. n -> { "-", "0", "1", "9", "." } ] : n \in 1 .. 3 } : IsCanonicalDecimal(t) }

\* The two generated packages admit the same decimals of a policy, and the one
\* Rust keeps is canonical, has the value it was given, and is its own normal
\* form: a value read, written and read again is the same text.
DecimalsAgree ==
  language = "number" =>
    \A policy \in Policies :
      LET normal == DecimalNormalize(word, policy[1], policy[2])
      IN /\ (normal # NoText) <=> DecimalWithinPolicy(word, policy[1], policy[2])
         /\ normal # NoText =>
              /\ DecimalNormalize(normal, policy[1], policy[2]) = normal
              /\ IsCanonicalDecimal(normal) /\ CompareDecimal(normal, word) = "equal"

\* The two packages order an instance and a bound of one policy alike, and Rust
\* never answers "none" for them: a bound whose comparison has no answer passes.
\* Among instances equal means written alike, so a collection is unique by text.
DecimalsAreOrdered ==
  language = "number" =>
    \A policy \in Policies : \A other \in Others :
      LET left == DecimalNormalize(word, policy[1], policy[2])
          right == DecimalNormalize(other, policy[1], policy[2])
      IN left # NoText /\ right # NoText =>
           /\ DecimalCmp(left, other) = CompareDecimal(word, other)
           /\ DecimalCmp(left, right) = "equal" <=> left = right

\* An operand or a default is one the readers admit exactly when both packages
\* admit it as an instance and it ends in no zero of a fraction; the readers
\* differ on a text that ends in its decimal point, which Rust reads as if it
\* had none, even after a negative zero.
OperandsAreInstances ==
  language = "number" =>
    \A policy \in Policies :
      LET admitted(t) == DecimalAdmitted(t, policy[1], policy[2])
          pointless == Front(word)
      IN /\ admitted(word) <=> /\ DecimalNormalize(word, policy[1], policy[2]) # NoText
                               /\ FractionDigits(word) # << >> => Last(word) # "0"
         /\ RustDecimalAdmitted(word, policy[1], policy[2]) <=>
              IF word # << >> /\ Last(word) = "."
              THEN Dots(pointless) = { } /\ (admitted(pointless) \/ pointless = << "-", "0" >>)
              ELSE admitted(word)

\* An integer is read back from the wire exactly when it is canonical and in
\* range, as the generated TypeScript and both readers decide it.
IntegersAreCanonical ==
  language = "number" =>
    \A bounds \in { << -19, 19 >>, << 0, 999 >> } :
      ParseCanonicalInteger(word, bounds[1], bounds[2]) <=>
        IsCanonicalInteger(word) /\ SignedValue(word) \in bounds[1] .. bounds[2]

----------------------------------------------------------------------------
(* Bytes, dates and durations.                                             *)

\* The bits of the last digit that no octet takes are zero.
UnusedBitsZero(t) ==
  /\ t # << >> /\ Last(t) = Pad /\ t[Len(t) - 1] # Pad => t[Len(t) - 1] % 4 = 0
  /\ t # << >> /\ Last(t) = Pad /\ t[Len(t) - 1] = Pad => t[Len(t) - 2] % 16 = 0

\* Rust decodes exactly the texts TypeScript accepts whose unused bits are zero,
\* so that octets have one text in Rust: what decodes encodes to the text it
\* came from, and TypeScript counts the same octets.
BytesHaveOneText ==
  language = "bytes" =>
    LET octets == DecodeBytes(word)
    IN /\ octets # NoOctets <=> IsBase64(word) /\ UnusedBitsZero(word)
       /\ octets # NoOctets =>
            /\ EncodeBytes(octets) = word
            /\ \A i \in DOMAIN octets : octets[i] \in 0 .. 255
            /\ Base64OctetLength(word) = Len(octets)

\* The day count of the generated Rust moves by one with every date it takes
\* for one, across February, the end of a year, a century and the year the
\* count turns negative in; and an offset names the instant and not the text.
\* The generated TypeScript has no such count: it looks at the shape alone.
DaysAreSuccessive ==
  language = "calendar" =>
    LET days(date) == DaysFromCivil(date[1], date[2], date[3])
    IN /\ IsValidCivil(word[1], word[2], word[3])
       /\ days(Tomorrow(word)) = days(word) + 1
       /\ word = << 1970, 1, 1 >> => days(word) = 0
       /\ DateTimeMinutes(days(Tomorrow(word)), 0, 10, 30) = DateTimeMinutes(days(word), 23, 40, 0)

\* Every fraction of the text is one of seconds.
FractionsAreOfSeconds(t) ==
  \A i \in DOMAIN t : t[i] = "." =>
    \E j \in i + 2 .. Len(t) : t[j] = "S" /\ \A k \in i + 1 .. j - 1 : t[k] = "1"

\* The format check of the generated TypeScript accepts exactly the durations
\* of the generated Rust whose fractions are all of seconds, with or without a
\* sign; Rust accepts none that has a sign.
DurationsNest ==
  language = "duration" =>
    LET unsigned == IF word[1] = "P" THEN word ELSE Tail(word)
    IN /\ DurationFormat(word) <=> IsDuration(unsigned) /\ FractionsAreOfSeconds(word)
       /\ IsDuration(word) => word = unsigned

-----------------------------------------------------------------------------
(***************************************************************************)
(* JsonValue and JsonReader: every text of a family, written a symbol at a *)
(* time, and every short run of patch operations on a document.            *)
(***************************************************************************)

CONSTANTS
  TokensLength, NumberLength, DigitsLength, StringLength, PointerLength,
  PatchSteps          \* the operations a patch applies

VARIABLES
  family,             \* the family of texts being written, or "patch"
  text,               \* the text so far, or the operations applied
  before,             \* the document the last operation was applied to
  rust, oracle        \* what each applier made of it: a document, or a refusal

jsonVars == << family, text, before, rust, oracle >>

Symbols ==
  [ tokens |-> { "[", "]", "{", "}", ",", ":", "1", "null" } \union StringTokens,
    number |-> { "-", "0", "1", ".", "e", "+" },
    digits |-> { "1", "2" },
    string |-> { "x", "astral", "ctl", "\\n", "\\u", "hi", "lo" },
    pointer |-> { "/", "~", "0", "1", "a" } ]
Longest(f) ==
  CASE f = "tokens" -> TokensLength [] f = "number" -> NumberLength [] f = "digits" -> DigitsLength
    [] f = "string" -> StringLength [] f = "pointer" -> PointerLength

\* A token may follow another in some document, nearly: this cuts the texts no
\* reader could go on with, and is no part of what is checked.
Begins == { "[", "{", "1", "null" } \union StringTokens
Ends == { "]", "}", "1", "null" } \union StringTokens
Depth(t, opener, closer) ==
  Cardinality({ k \in DOMAIN t : t[k] = opener }) - Cardinality({ k \in DOMAIN t : t[k] = closer })
MayFollow(t, token) ==
  LET last == Peek(t, Len(t)) IN
  /\ Depth(t, "[", "]") >= 0 /\ Depth(t, "{", "}") >= 0
  /\ token = ":" => last \in StringTokens
  /\ IF last \in Ends THEN token \in { "]", "}", ",", ":" } ELSE token \in Begins \union { "]", "}" }

-----------------------------------------------------------------------------
N(lexeme) == JNumber(lexeme)
Documents ==
  { JObject(<< Part("identity", JString("ix1")),
               Part("a", JArray(<< N("1"), JObject(<< Part("identity", JString("ix2")) >>) >>)) >>),
    JArray(<< JArray(<< N("1") >>), JNull >>) }
Paths ==
  { << >>, << "a" >>, << "b" >>, << "a", "0" >>, << "a", "+1" >>, << "a", "2" >>, << "a", "-" >>,
    << "a", "1", "identity" >>, << "0" >>, << "0", "0" >>, << "0", "-" >>, << "1", "a" >>, << "identity" >> }
Templates == { JString("L$i"), JArray(<< JObject(<< Part("$n", JString("$i")) >>), JNull >>) }
Op(op, path, from, value, count) == [ op |-> op, path |-> path, from |-> from, value |-> value, count |-> count ]
NoOp == Op("none", << >>, << >>, JNull, 0)
Ops ==
  { Op(op, path, << >>, value, 0) :
      op \in { "test", "add", "replace" }, path \in Paths, value \in { N("1"), JString("ix2") } }
  \union { Op("remove", path, << >>, JNull, 0) : path \in Paths }
  \union { Op(op, path, from, JNull, 0) : op \in { "copy", "move" }, path \in Paths, from \in Paths }
  \union { Op("x-repeat", path, << >>, template, count) :
             path \in Paths, template \in Templates, count \in 0 .. MaxCopies }

\* A document of two members is longer than a text grows to: it has an opening.
Opening == << "{", "private", ":", "1", "," >>
JsonIdle == family = "idle" /\ text = << >> /\ before = JNull /\ rust = Refused /\ oracle = Refused
JsonInit ==
  \/ /\ family \in DOMAIN Symbols /\ text = << >>
     /\ before = JNull /\ rust = Refused /\ oracle = Refused
  \/ /\ family = "tokens" /\ text = Opening
     /\ before = JNull /\ rust = Refused /\ oracle = Refused
  \/ /\ family = "patch" /\ text = << >>
     /\ before \in Documents /\ rust = Done(before) /\ oracle = Done(before)

Write ==
  /\ family \in DOMAIN Symbols
  /\ Len(text) < Longest(family) + (IF family = "tokens" /\ IsPrefix(Opening, text) THEN Len(Opening) ELSE 0)
  /\ \E symbol \in Symbols[family] :
       /\ family = "tokens" => MayFollow(text, symbol)
       /\ text' = Append(text, symbol)
  /\ UNCHANGED << family, before, rust, oracle >>

Patch ==
  /\ family = "patch"
  /\ Len(text) < PatchSteps
  /\ rust # Refused /\ oracle # Refused
  /\ \E op \in Ops :
       /\ text' = Append([ k \in DOMAIN text |-> NoOp ], op)
       /\ before' = rust[1]
       /\ rust' = RustApply(rust[1], op)
       /\ oracle' = OracleApply(oracle[1], op)
  /\ UNCHANGED family

JsonNext == Write \/ Patch

-----------------------------------------------------------------------------
\* The grammar of RFC 8259 over tokens.
RECURSIVE IsJson(_)
IsItems(t, Item(_)) ==
  LET Commas == { k \in DOMAIN t : t[k] = "," }
      RestFrom[k \in 1 .. Len(t) + 1] ==
        \/ k <= Len(t) /\ Item(SubSeq(t, k, Len(t)))
        \/ \E comma \in Commas : comma > k /\ Item(SubSeq(t, k, comma - 1)) /\ RestFrom[comma + 1] IN
  t = << >> \/ RestFrom[1]
IsMember(t) == Len(t) >= 3 /\ t[1] \in StringTokens /\ t[2] = ":" /\ IsJson(SubSeq(t, 3, Len(t)))
IsJson(t) ==
  \/ Len(t) = 1 /\ t[1] \in { "1", "null" } \union StringTokens
  \/ /\ Len(t) >= 2
     /\ \/ t[1] = "[" /\ Last(t) = "]" /\ IsItems(SubSeq(t, 2, Len(t) - 1), IsJson)
        \/ t[1] = "{" /\ Last(t) = "}" /\ IsItems(SubSeq(t, 2, Len(t) - 1), IsMember)

Commas(parts, OfPart(_)) == FlattenSeq([ k \in DOMAIN parts |-> (IF k > 1 THEN << "," >> ELSE << >>) \o OfPart(parts[k]) ])
RECURSIVE Rendered(_)
Rendered(v) ==
  CASE v.kind = "null" -> << "null" >>
    [] v.kind \in { "number", "string" } -> << v.text >>
    [] v.kind = "array" -> << "[" >> \o Commas(v.parts, LAMBDA part : Rendered(part[2])) \o << "]" >>
    [] v.kind = "object" ->
         << "{" >> \o Commas(v.parts, LAMBDA part : << part[1], ":" >> \o Rendered(part[2])) \o << "}" >>

\* The reader accepts the JSON grammar and nothing else, and what it reads is
\* the text: every member in its order, duplicates kept.
ReaderIsGrammar(read) ==
  /\ (read.kind = "read") = IsJson(text)
  /\ read.kind = "read" => Rendered(read.value) = text

\* Whitespace between any two tokens, before and after changes nothing.
SpacesAreSkipped(read) ==
  \A k \in 1 .. Len(text) + 1 :
    \E spaced \in { Parse(InsertAt(text, k, Space), NoDepthLimit) } :
      spaced.kind = read.kind /\ spaced.value = read.value

\* A depth limit refuses exactly the documents in which a value is enclosed by
\* more arrays and objects than it says, and no limit refuses none.
RECURSIVE Enclosing(_)
Enclosing(v) == IF v.parts = << >> THEN 0 ELSE 1 + Max({ Enclosing(v.parts[k][2]) : k \in DOMAIN v.parts })
DepthIsNesting(v) ==
  \A limit \in 0 .. 3 : Parse(text, limit).kind = (IF Enclosing(v) > limit THEN "depth" ELSE "read")

\* The loops that clone and compare a value do what the derived, recursive
\* ones would: the clone is the value, and the values it is compared with --
\* its parts, itself with a part gone, renamed or changed -- are equal to it
\* exactly when they are it.
Near(v) ==
  { v, JNull, JArray(<< v >>) }
  \union { v.parts[k][2] : k \in DOMAIN v.parts }
  \union { [ v EXCEPT !.parts = RemoveAt(@, k) ] : k \in DOMAIN v.parts }
  \union { [ v EXCEPT !.parts = Reverse(@) ] }
  \union { [ v EXCEPT !.parts[k][1] = "other" ] : k \in DOMAIN v.parts }
  \union { [ v EXCEPT !.parts[k][2] = JNull ] : k \in DOMAIN v.parts }
LoopsAreStructural(v) ==
  /\ Clone(v) = v
  /\ \A near \in Near(v) : JsonEquals(v, near) = (v = near) /\ JsonEquals(near, v) = (v = near)

\* Debug writes what the derived implementation writes, whose pretty form
\* wraps the lines of each field in one more level.
Wrap(open, fields, close) ==
  LET Field(lines) == [ k \in DOMAIN lines |-> << "    " >> \o lines[k] \o (IF k = Len(lines) THEN << "," >> ELSE << >>) ] IN
  IF fields = << >> THEN << open \o close >>
  ELSE << open >> \o FlattenSeq([ k \in DOMAIN fields |-> Field(fields[k]) ]) \o << close >>
Quote(t) == << << "'", t, "'" >> >>
RECURSIVE DerivedLines(_)
DerivedLines(v) ==
  LET Member(part) == Wrap(<< "(" >>, << Quote(part[1]), DerivedLines(part[2]) >>, << ")" >>)
      Parts == [ k \in DOMAIN v.parts |-> IF v.kind = "object" THEN Member(v.parts[k]) ELSE DerivedLines(v.parts[k][2]) ]
      Inside == IF IsContainer(v) THEN Wrap(<< "[" >>, Parts, << "]" >>) ELSE Quote(v.text) IN
  IF v.kind = "null" THEN << << "Null" >> >>
  ELSE Wrap(<< Variant(v.kind), "(" >>, << Inside >>, << ")" >>)
RECURSIVE DerivedLine(_)
DerivedLine(v) ==
  LET Joined(OfPart(_)) ==
        FlattenSeq([ k \in DOMAIN v.parts |-> (IF k > 1 THEN << ", " >> ELSE << >>) \o OfPart(v.parts[k]) ])
      Inside ==
        CASE v.kind = "array" -> << "[" >> \o Joined(LAMBDA part : DerivedLine(part[2])) \o << "]" >>
          [] v.kind = "object" ->
               << "[" >> \o Joined(LAMBDA part : << "(", "'", part[1], "'", ", " >> \o DerivedLine(part[2]) \o << ")" >>)
               \o << "]" >>
          [] OTHER -> << "'", v.text, "'" >> IN
  IF v.kind = "null" THEN << "Null" >> ELSE << Variant(v.kind), "(" >> \o Inside \o << ")" >>
\* The pieces of the writer, cut where a line of the reference is.
Cut(piece) ==
  CASE piece = "(\n" -> << "(", "\n" >> [] piece = "[\n" -> << "[", "\n" >> [] piece = ",\n" -> << ",", "\n" >>
    [] piece = "[],\n" -> << "[", "]", ",", "\n" >> [] piece = "],\n" -> << "]", ",", "\n" >>
    [] piece = "),\n" -> << ")", ",", "\n" >> [] OTHER -> << piece >>
CutAll(pieces) == FlattenSeq([ k \in DOMAIN pieces |-> Cut(pieces[k]) ])
OnePerLine(lines) == FlattenSeq([ k \in DOMAIN lines |-> (IF k > 1 THEN << "\n" >> ELSE << >>) \o lines[k] ])
DebugIsDerived(v) ==
  /\ CutAll(WrittenAs("pretty", v)) = OnePerLine(DerivedLines(v))
  /\ WrittenAs("compact", v) = DerivedLine(v)

\* What JSON.parse makes of a value.
RECURSIVE Ecma(_)
Ecma(v) ==
  LET names == { v.parts[k][1] : k \in DOMAIN v.parts } IN
  IF v.kind = "object" THEN << "object", [ name \in names |-> Ecma(Get(v, name)) ] >>
  ELSE << v.kind, << v.text, [ k \in DOMAIN v.parts |-> Ecma(v.parts[k][2]) ] >> >>

\* The canonical form is JSON again, and of the value JSON.parse makes of the
\* document: nothing is lost but the order and the duplicates; and it is the
\* oracle's form, byte for byte.
NoQuotes(words) == SelectSeq(words, LAMBDA w : w # "'")
CanonicalIsTheValue(v) ==
  \E canonical \in { CanonicalString(v) } :
    /\ canonical = OracleCanonical(v)
    /\ \E again \in { Parse(NoQuotes(canonical), NoDepthLimit) } :
         again.kind = "read" /\ Ecma(again.value) = Ecma(v) /\ CanonicalString(again.value) = canonical
    /\ Ecma(Parse(NoQuotes(WrittenAs("document", v)), NoDepthLimit).value) = Ecma(v)

\* What holds of a text of tokens and of what the reader makes of it.
TokensMean(read) ==
  /\ ReaderIsGrammar(read) /\ SpacesAreSkipped(read)
  /\ read.kind = "read" =>
       /\ DepthIsNesting(read.value) /\ LoopsAreStructural(read.value)
       /\ DebugIsDerived(read.value) /\ CanonicalIsTheValue(read.value)

-----------------------------------------------------------------------------
\* The number reader takes the lexemes of RFC 8259: int frac? exp?.
IsDigits(t) == t # << >> /\ \A k \in DOMAIN t : t[k] \in Digits
IsInt(t) == IsDigits(t) /\ (t[1] = "0" => Len(t) = 1)
IsFraction(t) == t = << >> \/ (Head(t) = "." /\ IsDigits(Tail(t)))
IsExponent(t) ==
  \/ t = << >>
  \/ /\ Head(t) = "e"
     /\ IsDigits(IF Len(t) > 1 /\ t[2] \in { "+", "-" } THEN SubSeq(t, 3, Len(t)) ELSE Tail(t))
NumbersAreTheGrammar ==
  family = "number" =>
    LET unsigned == IF text # << >> /\ Head(text) = "-" THEN Tail(text) ELSE text IN
    IsNumber(text)
    = \E i, j \in 0 .. Len(unsigned) :
        /\ i <= j
        /\ IsInt(SubSeq(unsigned, 1, i))
        /\ IsFraction(SubSeq(unsigned, i + 1, j))
        /\ IsExponent(SubSeq(unsigned, j + 1, Len(unsigned)))

\* The text of a number is read back as the digits at the place they were in,
\* on both sides of both thresholds.
PlaceRead(t) ==
  LET exponents == { k \in DOMAIN t : t[k] = "e" }
      mantissa == IF exponents = {} THEN t ELSE SubSeq(t, 1, Min(exponents) - 1)
      exponent == IF exponents = {} THEN 0
                  ELSE LET magnitude == CHOOSE n \in 0 .. 20 : ToString(n) = Last(t) IN
                       IF t[Len(t) - 1] = "-" THEN -magnitude ELSE magnitude
      points == { k \in DOMAIN mantissa : mantissa[k] = "." }
      whole == IF points = {} THEN Len(mantissa) ELSE Min(points) - 1
      digits == SelectSeq(mantissa, LAMBDA ch : ch # ".")
      leading == Min({ k \in DOMAIN digits : digits[k] # "0" }) - 1
      trailing == Max({ k \in DOMAIN digits : digits[k] # "0" }) IN
  << SubSeq(digits, leading + 1, trailing), whole - leading + exponent >>
NumberTextIsItsValue ==
  (family = "digits" /\ text # << >>) => \A n \in -6 .. 8 : PlaceRead(Layout(text, n)) = << text, n >>

-----------------------------------------------------------------------------
\* A string is read exactly when it is well-formed: no control character, no
\* half of a surrogate pair without the other; and what is read of a text that
\* escapes nothing else is written back as that text.
Halves == { k \in DOMAIN text : k > 1 /\ text[k] \in { "hi", "lo" } /\ text[k - 1] = "\\u" }
StringsAreWellFormed ==
  family = "string" =>
    LET read == ReadString(text)
        opens == { k \in DOMAIN text : text[k] = "\\u" }
        paired == \A k \in Halves :
                    IF text[k] = "hi" THEN k + 2 \in Halves /\ text[k + 2] = "lo"
                    ELSE k - 2 \in Halves /\ text[k - 2] = "hi"
        bare == { k \in DOMAIN text : k - 1 \notin opens } IN
    /\ (read # NotText)
       = /\ paired
         /\ \A k \in opens : Peek(text, k + 1) \in { "x", "ctl", "hi", "lo" }
         /\ \A k \in bare : text[k] \notin { "ctl", "hi", "lo" }
    /\ read # NotText => ReadString(WriteString(read)) = read

-----------------------------------------------------------------------------
\* A pointer says its tokens: splitting what joins them gives them back, and
\* joining what a pointer is split into gives a pointer that says the same.
PointersSayTheirTokens ==
  family = "pointer" =>
    /\ PointerTokens(PointerOf(<< text >>)) = << text >>
    /\ PointerTokens(PointerOf(<< text, text >>)) = << text, text >>
    /\ PointerTokens(PointerOf(PointerTokens(text))) = PointerTokens(text)

-----------------------------------------------------------------------------
Applied == family = "patch" /\ text # << >>
LastOp == Last(text)
After == rust[1]

\* The two appliers make the same document of an operation, or both refuse it.
\* (A `test` of null is left out: the oracle lets it pass where nothing is.)
AppliersAgree == family = "patch" => rust = oracle

\* The corpus refuses a test of a path that addresses nothing.
UnresolvableTestThrows ==
  (family = "patch" /\ rust # Refused) =>
    \A path \in Paths :
      Resolve(After, path, OracleIndex) = NoNode =>
        OracleApply(After, Op("test", path, << >>, JNull, 0)) = Refused

Replaces(document, path) == Resolve(document, path, RustIndex) # NoNode
HolderIsArray(document, path) ==
  path # << >> /\ LET holder == Resolve(document, Front(path), RustIndex) IN holder # NoNode /\ holder[1].kind = "array"

\* What was added or put in place is what the path addresses, and removing
\* what was added where nothing was gives the document back.
AddedIsAddressed ==
  (Applied /\ rust # Refused /\ LastOp.op \in { "add", "replace", "copy" }) =>
    LET path == LastOp.path
        appended == path # << >> /\ Last(path) = "-" /\ HolderIsArray(before, path)
        added == IF LastOp.op = "copy" THEN Resolve(before, LastOp.from, RustIndex) ELSE Found(LastOp.value)
        inserted == LastOp.op # "replace" /\ (HolderIsArray(before, path) \/ ~ Replaces(before, path)) IN
    /\ ~ appended => Resolve(After, path, RustIndex) = added
    /\ inserted /\ ~ appended => RemoveAtPath(After, path, RustIndex) = Done(before)

\* A move loses nothing and makes nothing: the scalars of the document are the
\* same ones, unless it replaced a member.
RECURSIVE Scalars(_)
Scalars(v) ==
  IF IsContainer(v) THEN FoldLeft(LAMBDA bag, part : bag (+) Scalars(part[2]), EmptyBag, v.parts)
  ELSE SetToBag({ << v.kind, v.text >> })
MoveKeepsScalars ==
  (Applied /\ rust # Refused /\ LastOp.op = "move"
   /\ LET removed == RemoveAtPath(before, LastOp.from, RustIndex)[1] IN
      HolderIsArray(removed, LastOp.path) \/ ~ Replaces(removed, LastOp.path)) =>
    Scalars(After) = Scalars(before)

\* An x-repeat that appends leaves as many copies as it says, each naming the
\* next: the `$n` of one is the `$i` of the one after it.
RepeatsChain ==
  (Applied /\ rust # Refused /\ LastOp.op = "x-repeat" /\ HolderIsArray(before, LastOp.path)
   /\ Last(LastOp.path) = "-" /\ LastOp.value.kind = "array") =>
    LET items == Resolve(After, Front(LastOp.path), RustIndex)[1].parts
        earlier == Len(Resolve(before, Front(LastOp.path), RustIndex)[1].parts)
        Link(k) == items[earlier + k][2].parts[1][2].parts[1] IN
    /\ Len(items) = earlier + LastOp.count
    /\ \A k \in 1 .. LastOp.count - 1 : JString(Link(k)[1]) = Link(k + 1)[2]
    /\ Link(1)[2] = JString("0")

\* The nearest declaration that owns a node is the one the oracle finds, which
\* walks on past a token that addresses nothing.
IxNames == { "ix1", "ix2" }
OracleOwnerFor(root, path) ==
  LET node == [ k \in 0 .. Len(path) |-> Resolve(root, SubSeq(path, 1, k), OracleIndex) ]
      Owns(k) ==
        /\ node[k] # NoNode
        /\ Has(node[k][1], "identity")
        /\ Get(node[k][1], "identity") \in { JString(identity) : identity \in IxNames }
      owners == { k \in 0 .. Len(path) : Owns(k) } IN
  IF owners = {} THEN OracleOwner ELSE Get(node[Max(owners)][1], "identity").text
OwnersAgree ==
  (family = "patch" /\ rust # Refused) =>
    \A path \in Paths : OwnerFor(After, path, IxNames) = OracleOwnerFor(After, path)

-----------------------------------------------------------------------------
(***************************************************************************)
(* The pure algorithms of the repository over every small input.  One      *)
(* behaviour builds one input, an element at a time: two versions, a graph,*)
(* the types of a Rust crate, the spelling of a coefficient, a document of *)
(* dimensions and units, or the definitions of a TypeScript package.       *)
(***************************************************************************)

CONSTANTS
    Numbers,         \* values of major, minor and patch
    UnitValues,          \* values of a prerelease identifier
    MaxIdentifiers,  \* bound on a prerelease's length
    MaxNodes,        \* nodes of a graph
    MaxTypes,        \* types of a Rust crate
    MaxDeclarations, \* dimensions, or units, of a document
    MaxDefinitions   \* definitions of a TypeScript package

VARIABLES
    question,  \* which algorithm the input is for
    input      \* the elements built so far

algorithmsVars == <<question, input>>

Questions == {"versions", "graph", "crate", "coefficient", "dimensions", "units",
              "names"}

AlgorithmsIdle == question = "idle" /\ input = <<>>
AlgorithmsInit ==
    /\ question \in Questions
    /\ input = <<>>

Add(asked, bound, elements) ==
    /\ question = asked
    /\ Len(input) < bound
    /\ \E e \in elements : input' = Append(input, e)
    /\ UNCHANGED question

Asked(which, length) == question = which /\ Len(input) = length

----------------------------------------------------------------------------
(* Versions: module SemVer.                                                *)

Versions == SemVersion(Numbers, Identifier(UnitValues), MaxIdentifiers)

AddVersion == Add("versions", 2, Versions)

Below0(n) == n < 0
Positive(n) == n > 0

(* SemVer 2.0.0, section 11, stated on its own: a version precedes another *)
(* when its triple does, or the triples agree and it is a prerelease of    *)
(* the other, or its prerelease is lexicographically smaller.              *)
BelowIdentifier(a, b) ==
    IF a.numeric = b.numeric THEN a.value < b.value ELSE a.numeric

BelowPrerelease(s, t) ==
    \/ /\ Len(s) < Len(t)
       /\ s = SubSeq(t, 1, Len(s))
    \/ \E i \in DOMAIN s \cap DOMAIN t :
          /\ SubSeq(s, 1, i - 1) = SubSeq(t, 1, i - 1)
          /\ BelowIdentifier(s[i], t[i])

BelowTriple(v, w) ==
    \/ v.major < w.major
    \/ v.major = w.major /\ v.minor < w.minor
    \/ v.major = w.major /\ v.minor = w.minor /\ v.patch < w.patch

Earlier(v, w) ==
    \/ BelowTriple(v, w)
    \/ /\ SameTriple(v, w)
       /\ ~Release(v)
       /\ Release(w) \/ BelowPrerelease(v.prerelease, w.prerelease)

\* compareVersions is SemVer precedence: negative exactly below, positive
\* exactly above, so `alpha.2` precedes `alpha.10` and a prerelease its release.
ComparesByPrecedence ==
    Asked("versions", 2) =>
        LET left == input[1]
            right == input[2]
        IN  /\ Below0(compareVersions(left, right)) <=> Earlier(left, right)
            /\ Positive(compareVersions(left, right)) <=> Earlier(right, left)

\* byIdentity's sort has a comparator that is a strict weak order: without it
\* the highest candidate depends on the order the directories were listed in.
SortsConsistently ==
    Asked("versions", 2) =>
        \A third \in Versions :
            /\ Below0(compareVersions(input[1], input[2]))
               /\ ~Positive(compareVersions(input[2], third))
                  => Below0(compareVersions(input[1], third))
            /\ compareVersions(input[1], input[2]) = 0
               /\ compareVersions(input[2], third) = 0
                  => compareVersions(input[1], third) = 0

NextBreaking(v) ==
    [major |-> IF v.major > 0 THEN v.major + 1 ELSE 0,
     minor |-> CASE v.major > 0 -> 0
                 [] v.major = 0 /\ v.minor > 0 -> v.minor + 1
                 [] OTHER -> 0,
     patch |-> IF v.major = 0 /\ v.minor = 0 THEN v.patch + 1 ELSE 0,
     prerelease |-> <<>>]

\* A caret range is the half-open interval from its base to the next breaking
\* release, less the prereleases of any release the base does not name.
CaretIsAnInterval ==
    Asked("versions", 2) =>
        LET left == input[1]
            right == input[2]
        IN  satisfies(left, Caret(right)) <=>
                /\ ~Earlier(left, right)
                /\ Earlier(left, NextBreaking(right))
                /\ Release(left) \/ (~Release(right) /\ SameTriple(left, right))

----------------------------------------------------------------------------
(* Graphs: the components of UnitGraph, against mutual reachability.       *)

Targets == 1..MaxNodes

\* What a node may point at: nothing, one node, or two in either order.
Adjacencies == {<<>>} \cup {<<a>> : a \in Targets}
               \cup {<<a, b>> : a \in Targets, b \in Targets}

AddNode == Add("graph", MaxNodes, Adjacencies)

RECURSIVE Closure(_, _)
Closure(successors, reached) ==
    LET more == reached \cup UNION {successors[n] : n \in reached}
    IN  IF more = reached THEN reached ELSE Closure(successors, more)

\* For each node, the nodes a path of at least one edge leads to.
Reaches(successors) == [n \in DOMAIN successors |-> Closure(successors, successors[n])]

Partners(reaches, n) ==
    {n} \cup {m \in DOMAIN reaches : m \in reaches[n] /\ n \in reaches[m]}

\* The two passes and Tarjan agree with mutual reachability: the readers report
\* exactly the components that hold a cycle, and two nodes have one Tarjan
\* number exactly when each reaches the other.
ComponentsAreMutualReach ==
    Asked("graph", MaxNodes) =>
        LET reaches == Reaches([n \in DOMAIN input |-> ToSet(input[n])])
            cyclic == {Partners(reaches, n) :
                          n \in {n \in DOMAIN input : n \in reaches[n]}}
            number == componentOf(input)
        IN  /\ ToSet(components(input)) = cyclic
            /\ Len(components(input)) = Cardinality(cyclic)
            /\ \A n, m \in DOMAIN input :
                   number[n] = number[m] <=> m \in Partners(reaches, n)

\* What a document reports does not depend on the traversal: the Rust reader's
\* groups come out by their first member and the crate's numbers are given in
\* declared order.
ComponentOrderIsDeclared ==
    Asked("graph", MaxNodes) =>
        LET groups == cyclic_components(input)
            number == componentOf(input)
        IN  /\ \A i, j \in DOMAIN groups : i < j => Least(groups[i]) < Least(groups[j])
            /\ \A n \in DOMAIN input :
                   \/ \E m \in 1..(n - 1) : number[m] = number[n]
                   \/ \A m \in 1..(n - 1) : number[m] < number[n]

----------------------------------------------------------------------------
(* Rust crates: the type graph of UnitGraph.                               *)

RustType(rendering, target, fields, payloads, operations) ==
    [rendering |-> rendering, target |-> target, fields |-> fields,
     payloads |-> payloads, operations |-> operations]

RustField(type, upper) == [type |-> type, upper |-> upper]

TypeNames == 1..MaxTypes

\* An alias may also name a type the document does not declare.
RustTypes ==
    {RustType(r, t, <<>>, <<>>, <<>>) :
        r \in {"alias", "reference", "sequence"}, t \in TypeNames \cup {MaxTypes + 1}}
    \cup {RustType("record", 0, fs, <<>>, <<>>) :
             fs \in {<<>>} \cup {<<RustField(t, u)>> : t \in TypeNames,
                                                       u \in {1, 2, Unbounded}}
                    \cup {<<RustField(a, 1), RustField(b, 1)>> : a \in TypeNames,
                                                                 b \in TypeNames}}
    \cup {RustType("union", 0, <<>>, <<t>>, <<>>) : t \in TypeNames}
    \cup {RustType("record", 0, <<>>, <<>>, <<t>>) : t \in TypeNames}

AddRustType == Add("crate", MaxTypes, RustTypes)

\* What a type's Rust definition holds inline: its direct references without a
\* Box. A cycle of these is a type of infinite size, which rustc refuses.
Inline(types) ==
    LET kept == boxed(types)
        held == {e \in collectEdges(types) :
                    e.position = "direct" /\ e.key \notin kept}
    IN  [n \in DOMAIN types |->
            {e.to : e \in {e \in held : e.from = n /\ e.to \in DOMAIN types}}]

\* Every generated Rust type has a finite size, also when the cycle closes
\* through an alias or a variant's payload rather than a field.
RustTypesAreFinite ==
    Asked("crate", MaxTypes) =>
        LET reaches == Reaches(Inline(input))
        IN  \A n \in DOMAIN input : n \notin reaches[n]

\* A Box is only where the references lead back to the owner.
BoxesCloseCycles ==
    Asked("crate", MaxTypes) =>
        LET adjacent == Adjacency(input)
            reaches == Reaches([n \in DOMAIN input |-> ToSet(adjacent[n])])
            kept == boxed(input)
        IN  \A e \in collectEdges(input) :
                e.key \in kept => e.from \in reaches[e.to]

----------------------------------------------------------------------------
(* Coefficients and documents of dimensions and units: modules Rational    *)
(* and UnitGraph.                                                          *)

Parts == [value : (I128_MIN - 1)..(I128_MAX + 1), canonical : BOOLEAN]

AddPart == Add("coefficient", 2, Parts)

Numerator(spelling) == spelling[1].value
Denominator(spelling) == IF Len(spelling) = 2 THEN spelling[2].value ELSE 1

\* The spellings that may denote the number another one does.
Spellings == {<<p>> : p \in Parts} \cup {<<p, q>> : p \in Parts, q \in Parts}

SameNumber(s, t) == Numerator(s) * Denominator(t) = Numerator(t) * Denominator(s)

\* A coefficient that is accepted has no other accepted spelling, so documents
\* that mean the same conversion are byte-identical.
SpellingIsUnique ==
    question = "coefficient" /\ Len(input) \in 1..2 /\ rational(input).ok =>
        \A other \in Spellings :
            rational(other).ok /\ SameNumber(input, other)
                => Numerator(other) = Numerator(input)
                   /\ Denominator(other) = Denominator(input)

\* Canonical parts in range that share no factor are accepted: the most
\* negative numerator too, whose magnitude has no i128.
LowestTermsAccepted ==
    Asked("coefficient", 2) =>
        LET n == Numerator(input)
            d == Denominator(input)
            common == {k \in 2..(I128_MAX + 1) : n % k = 0 /\ d % k = 0}
        IN  (/\ input[1].canonical /\ input[2].canonical
             /\ n \in I128_MIN..I128_MAX /\ d \in 2..I128_MAX
             /\ common = {}) <=> rational(input).ok

Canonical(n) == <<[value |-> n, canonical |-> TRUE]>>
Misspelt == <<[value |-> 1, canonical |-> FALSE]>>
Outside == Canonical(I128_MAX + 1)
Half == Canonical(1) \o Canonical(2)

Exponents == {Canonical(1)[1], Canonical(0)[1], Misspelt[1], Outside[1]}

Undeclared == MaxDeclarations + 1

Terms ==
    {<<>>}
    \cup {<<[dimension |-> d, exponent |-> Canonical(2)[1]]>> : d \in 1..Undeclared}
    \cup {<<[dimension |-> a, exponent |-> Canonical(1)[1]],
            [dimension |-> b, exponent |-> Canonical(1)[1]]>> :
             a \in 1..MaxDeclarations, b \in 1..MaxDeclarations}
    \cup {<<[dimension |-> 1, exponent |-> e]>> : e \in Exponents}

\* The dimension declared next: under its own identity or, repeating one, the
\* first; base or derived; its identity may misname it.
Dimensions(n) ==
    {[identity |-> i, named |-> TRUE, base |-> ts = <<>>, terms |-> ts] :
        i \in {n, 1}, ts \in Terms}
    \cup {[identity |-> n, named |-> named, base |-> TRUE, terms |-> ts] :
             named \in BOOLEAN, ts \in {<<>>, CHOOSE ts \in Terms : Len(ts) = 1}}

AddDimension == Add("dimensions", MaxDeclarations, Dimensions(Len(input) + 1))

UnitNode(identity, named, dimension, target, scale, offset) ==
    [identity |-> identity, named |-> named, dimension |-> dimension,
     target |-> target, scale |-> scale, offset |-> offset]

\* The unit declared next: a root or a conversion of either dimension, or one
\* that breaks a single rule.
UnitNodes(n) ==
    {UnitNode(n, TRUE, d, None, Canonical(1), Canonical(0)) : d \in {1, 2}}
    \cup {UnitNode(n, TRUE, d, t, Half, Canonical(5)) :
             d \in {1, 2}, t \in 1..MaxDeclarations}
    \cup {UnitNode(1, TRUE, 1, None, Canonical(1), Canonical(0)),
          UnitNode(n, FALSE, 1, None, Canonical(1), Canonical(0)),
          UnitNode(n, TRUE, Undeclared, None, Canonical(1), Canonical(0)),
          UnitNode(n, TRUE, 1, Undeclared, Half, Canonical(0)),
          UnitNode(n, TRUE, 1, None, Canonical(0), Canonical(0)),
          UnitNode(n, TRUE, 1, None, Half, Canonical(5)),
          UnitNode(n, TRUE, 1, None, Misspelt, Outside),
          UnitNode(n, TRUE, 1, 1, Canonical(0), Canonical(3))}

AddUnit == Add("units", MaxDeclarations, UnitNodes(Len(input) + 1))

BaseDimension(i) == [identity |-> i, named |-> TRUE, base |-> TRUE, terms |-> <<>>]

Document ==
    IF question = "dimensions"
    THEN [dimensions |-> input, units |-> <<>>]
    ELSE [dimensions |-> <<BaseDimension(1), BaseDimension(2)>>, units |-> input]

\* Two independent readers refuse a document for the same defects, each at the
\* same pointer.
UnitReadersAgree ==
    question \in {"dimensions", "units"} => checkUnitGraph(Document) = decide(Document)

\* A dimension expands when every term's dimension is declared and expands.
Expanding(dimensions, ready) ==
    {d \in DOMAIN dimensions :
        \A i \in DOMAIN dimensions[d].terms :
            \E e \in ready : dimensions[e].identity = dimensions[d].terms[i].dimension}

RECURSIVE Expandable(_, _)
Expandable(dimensions, ready) ==
    LET more == ready \cup Expanding(dimensions, ready)
    IN  IF more = ready THEN ready ELSE Expandable(dimensions, more)

\* A dimension the reader accepts is a product of base dimensions, whatever way
\* the derived ones refer to each other.
AcceptedDimensionsExpand ==
    question = "dimensions" /\ checkUnitGraph(Document) = {} =>
        Expandable(input, {}) = DOMAIN input

\* The root a unit's conversions lead to, if they do.
RECURSIVE RootOf(_, _, _)
RootOf(units, n, steps) ==
    IF steps = 0 THEN 0
    ELSE IF units[n].target = None THEN n
    ELSE LET next == {m \in DOMAIN units : units[m].identity = units[n].target}
         IN  IF next = {} THEN 0
             ELSE RootOf(units, CHOOSE m \in next : TRUE, steps - 1)

\* Any two units of one dimension the reader accepts convert into each other:
\* their targets lead to one root, which has their dimension and scale 1.
AcceptedUnitsConvert ==
    question = "units" /\ checkUnitGraph(Document) = {} =>
        /\ \A n \in DOMAIN input :
               LET root == RootOf(input, n, Len(input) + 1)
               IN  /\ root # 0
                   /\ input[root].dimension = input[n].dimension
                   /\ One(input[root].scale) /\ Zero(input[root].offset)
        /\ \A n, m \in DOMAIN input :
               input[n].dimension = input[m].dimension =>
                   RootOf(input, n, Len(input) + 1) = RootOf(input, m, Len(input) + 1)

----------------------------------------------------------------------------
(* TypeScript packages: module TypeScriptNames.                            *)

DisplayNames == {<<"Order">>, <<"Order", "State">>, <<"Order", "Equals">>,
                 <<"Order", "Of">>, <<"validate", "Order">>, <<"class">>,
                 <<"class", "_">>, <<" ", "Order">>, <<"_u0020", "Order">>, <<" ">>,
                 <<"2">>, <<"_", "2">>, <<>>, <<"ValidationError">>, <<"TYPE_KIND">>, <<"fail">>}

Shapes == {<<"record", "none", FALSE>>, <<"record", "value", FALSE>>,
           <<"record", "identity", FALSE>>, <<"record", "identity", TRUE>>,
           <<"state_machine", "none", FALSE>>, <<"state_machine", "identity", FALSE>>,
           <<"reference", "none", FALSE>>, <<"interface", "none", FALSE>>,
           <<"namespace", "none", FALSE>>}

Definition(identity, displayName, shape) ==
    [identity |-> identity, displayName |-> displayName, rendering |-> shape[1],
     equality |-> shape[2], abstract |-> shape[3]]

AddDefinition ==
    Add("names", MaxDefinitions,
        {Definition(Len(input) + 1, name, shape) : name \in DisplayNames,
                                                   shape \in Shapes})

OnePerName(declarations) ==
    \A e, f \in declarations : e.name = f.name => e = f

ExportedTwice(definitions) ==
    {e.export.name : e \in {d \in barrel(definitions) :
        \E f \in barrel(definitions) : f # d /\ f.export.name = d.export.name}}

\* The names given to what belongs to a type: those of a module that are not
\* its own.
Given(definitions) ==
    {e \in typesModule(definitions).types \cup Constructors(definitions) \cup validatorsModule(definitions) :
        \E d \in definitions : e.of = d.identity /\ e.name # NameOf(d)}

\* Of the names given to types, those buildModel compares with no minted one.
Uncompared(definitions) ==
    {g \in Given(definitions) :
        \A d \in definitions : d.identity = g.of => g.name \notin derived(d)}

\* The meetings of names buildModel does not look for: a type named like the
\* validator or the constructor of another, or like the equality function of a
\* state machine, or like what the package itself exports and RESERVED_NAMES
\* does not list; and one name given to two types.
Overlooked(definitions) ==
    LET exported == {NameOf(d) : d \in {c \in definitions : c.rendering # "namespace"}}
        unreserved == {<<w>> : w \in (FixedSurface \cup Internals) \ Reserved}
    IN  {name \in exported : name \in unreserved \/ \E g \in Uncompared(definitions) : g.name = name}
        \cup {g.name : g \in {e \in Given(definitions) :
                 \E f \in Given(definitions) : f.of # e.of /\ f.name = e.name}}

\* Inside types.ts a package that is written declares each type and each value
\* once.  The names its barrel joins, of types, validators and the fixed
\* surface, are apart exactly where none of the meetings buildModel overlooks
\* occurs: what it does compare (model.mjs:588-606, reserveNames, the escapes
\* and RESERVED_NAMES) is enough against every other.
NamesAreDeclaredOnce ==
    question = "names" /\ losses(ToSet(input)) = {} =>
        /\ OnePerName(typesModule(ToSet(input)).types)
        /\ OnePerName(typesModule(ToSet(input)).values)
        /\ ExportedTwice(ToSet(input)) = Overlooked(ToSet(input))

\* Not so: a package that is written exports each name once.
ExportsAreApart ==
    question = "names" /\ losses(ToSet(input)) = {} => ExportedTwice(ToSet(input)) = {}

\* renderBarrel never throws on what the renderers emit: every exported name is
\* declared public or internal.
SurfaceIsDeclared ==
    question = "names" /\ losses(ToSet(input)) = {} => Leaks(ToSet(input)) = {}

\* FR-064: a derived <Name>State or <Name>Equals that equals a minted identifier
\* is refused. Of a state machine buildModel compares the state type alone, and
\* one with an equality is given an Equals function besides.
DerivedNamesRefused ==
    question = "names" /\ losses(ToSet(input)) = {} =>
        \A e \in typesModule(ToSet(input)).types : \A f \in validatorsModule(ToSet(input)) :
            e.name = f.name => Last(f.name) # "Equals"

----------------------------------------------------------------------------
AlgorithmsNext ==
    \/ AddVersion
    \/ AddNode
    \/ AddRustType
    \/ AddPart
    \/ AddDimension
    \/ AddUnit
    \/ AddDefinition

-----------------------------------------------------------------------------
(***************************************************************************)
(* Texts and the pure functions of the repository, whose inputs are built  *)
(* an element at a time: texts that travel on the wire, JSON and patches,  *)
(* and the graph, unit and naming algorithms.  One of three at a time.     *)
(***************************************************************************)

VARIABLE subject

wireVars == <<language, word>>
vars == <<subject, wireVars, jsonVars, algorithmsVars>>

Init ==
  \/ subject = "wire" /\ TextInit /\ JsonIdle /\ AlgorithmsIdle
  \/ subject = "json" /\ TextIdle /\ JsonInit /\ AlgorithmsIdle
  \/ subject = "algorithms" /\ TextIdle /\ JsonIdle /\ AlgorithmsInit

Wire == subject = "wire" /\ TextNext /\ UNCHANGED <<subject, jsonVars, algorithmsVars>>
Json == subject = "json" /\ JsonNext /\ UNCHANGED <<subject, wireVars, algorithmsVars>>
Compute == subject = "algorithms" /\ AlgorithmsNext /\ UNCHANGED <<subject, wireVars, jsonVars>>

Next == Wire \/ Json \/ Compute
Spec == Init /\ [][Next]_vars

\* A pattern of a locus or a string means what a regular-expression engine says
\* it means, in the compiler that lowers it and in the crate that matches it: a
\* lowered pattern matches the same texts, no pattern makes the matcher spin,
\* what one language can express the other compiles, and a class has one
\* spelling (regex262.rs, rust-serde/patterns.mjs and support-template.rs).
PatternsMeanTheSame ==
    /\ LoweredMatchesEngine
    /\ NothingSpins
    /\ ExpressibleCompiles
    /\ ClassesAreCanonical

\* Who reads the text of a scalar reads what the others read, or differs from
\* them exactly where it is said here.  The locus paths of the generated crate
\* are the published language; its decimals and integers are those of generated
\* TypeScript, compared alike; its bytes are those whose unused bits are zero,
\* its durations also have fractions of other parts than seconds and no sign.
\* The IR readers differ on a decimal that ends in its point.  Days are counted
\* in Rust alone, one for each date (support-template.rs, validators.mjs,
\* reader.mjs, rules.rs).
ScalarsAgree ==
    /\ LocusPathIsPublished
    /\ LocusLanguagesNest
    /\ DecimalsAgree
    /\ DecimalsAreOrdered
    /\ OperandsAreInstances
    /\ IntegersAreCanonical
    /\ BytesHaveOneText
    /\ DaysAreSuccessive
    /\ DurationsNest

\* The schema crate's own JSON reader accepts the JSON grammar and nothing
\* else, its depth bound counts nesting, and what its writers and debug forms
\* say is the value read (json.rs).
JsonIsReadAndWritten ==
    /\ family = "tokens" => TokensMean(Parse(text, NoDepthLimit))
    /\ NumbersAreTheGrammar
    /\ NumberTextIsItsValue
    /\ StringsAreWellFormed

\* The two appliers of a conformance case's patch leave the same document, or
\* both refuse it, however its operations follow one another; a pointer says
\* its tokens, and the owner of a place is the same for the two that look for
\* it.
PatchesAgree ==
    /\ PointersSayTheirTokens
    /\ AppliersAgree
    /\ AddedIsAddressed
    /\ MoveKeepsScalars
    /\ RepeatsChain
    /\ OwnersAgree

\* The pure algorithms return what they are for: SemVer's order and ranges, the
\* components of mutual reachability in the declared order, Rust types of
\* finite size with a Box only where a cycle closes, and a TypeScript package
\* that exports what it may, and a name twice only where the name of a type is
\* one that nobody compares it with: a validator's, a constructor's, that of a
\* state machine's equality or one of the package's own not reserved.
AlgorithmsReturnTheirMeaning ==
    /\ ComparesByPrecedence
    /\ SortsConsistently
    /\ CaretIsAnInterval
    /\ ComponentsAreMutualReach
    /\ ComponentOrderIsDeclared
    /\ RustTypesAreFinite
    /\ BoxesCloseCycles
    /\ NamesAreDeclaredOnce
    /\ SurfaceIsDeclared

\* Every two units of a dimension in an accepted document convert into each
\* other, over dimensions that expand to base ones, and the two readers of
\* units accept the same documents; a coefficient has one spelling, its lowest
\* terms (unit_graph.rs, unit-graph.mjs).
UnitsConvert ==
    /\ SpellingIsUnique
    /\ LowestTermsAccepted
    /\ UnitReadersAgree
    /\ AcceptedDimensionsExpand
    /\ AcceptedUnitsConvert
=============================================================================
