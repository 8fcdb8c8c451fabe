---------------------------- MODULE JsonReader ----------------------------
(***************************************************************************)
(* The reader of crates/semantic-ir/src/json.rs, over a text of tokens for *)
(* the structure of a document and over characters for a number and a      *)
(* string.  It keeps the containers it has opened on a stack of its own.   *)
(***************************************************************************)
EXTENDS JsonValue

NoDepthLimit == -1

\* The tokens: a string is read as a value and as a member's name.
Space == " "
StringTokens == { "a", "astral", "private" }
NumberTokens == { "1" }

\* What a read answers: the value read, or where and why it stopped.
Stopped(kind, at) == [ kind |-> kind, at |-> at, value |-> JNull ]
ReadAs(value, at) == [ kind |-> "read", at |-> at, value |-> value ]

Peek(text, at) == IF at \in DOMAIN text THEN text[at] ELSE "end"
SkipWhitespace(text, at) ==
  CHOOSE k \in at .. Len(text) + 1 : Peek(text, k) # Space /\ \A j \in at .. k - 1 : Peek(text, j) = Space

ColonAt(text, at) == SkipWhitespace(text, at)
MemberName(text, at) ==
  LET name == SkipWhitespace(text, at)
      colon == ColonAt(text, name + 1) IN
  IF Peek(text, name) \notin StringTokens THEN Stopped("malformed", name)
  ELSE IF Peek(text, colon) # ":" THEN Stopped("malformed", colon)
  ELSE ReadAs(JString(Peek(text, name)), colon + 1)

\* An open container: what it has read, and the name of the member being read.
Opened(kind, name) == [ node |-> Node(kind, "", << >>), name |-> name ]
Closes(kind, token) == token = (IF kind = "array" THEN "]" ELSE "}")
TooDeep(open, limit) == limit # NoDepthLimit /\ Len(open) > limit

\* document: `ReadValue` is the outer loop, `Attach` the inner one, which
\* closes every container the value finishes.
RECURSIVE ReadValue(_, _, _, _)
RECURSIVE Attach(_, _, _, _, _)
ReadValue(text, from, open, limit) ==
  LET at == SkipWhitespace(text, from)
      token == Peek(text, at)
      inside == SkipWhitespace(text, at + 1)
      name == MemberName(text, inside) IN
  IF TooDeep(open, limit) THEN Stopped("depth", at)
  ELSE IF token = "null" THEN Attach(text, at + 1, open, limit, JNull)
  ELSE IF token \in StringTokens THEN Attach(text, at + 1, open, limit, JString(token))
  ELSE IF token \in NumberTokens THEN Attach(text, at + 1, open, limit, JNumber(token))
  ELSE IF token = "[" /\ Peek(text, inside) = "]" THEN Attach(text, inside + 1, open, limit, JArray(<< >>))
  ELSE IF token = "[" THEN ReadValue(text, inside, Append(open, Opened("array", "")), limit)
  ELSE IF token = "{" /\ Peek(text, inside) = "}" THEN Attach(text, inside + 1, open, limit, JObject(<< >>))
  ELSE IF token = "{" /\ name.kind = "read"
  THEN ReadValue(text, name.at, Append(open, Opened("object", name.value.text)), limit)
  ELSE IF token = "{" THEN name
  ELSE Stopped("malformed", at)
Attach(text, from, open, limit, value) ==
  IF open = << >> THEN ReadAs(value, from)
  ELSE LET innermost == Last(open)
           node == [ innermost.node EXCEPT !.parts = Append(@, Part(innermost.name, value)) ]
           Next(name) == Append(Front(open), [ node |-> node, name |-> name ])
           at == SkipWhitespace(text, from)
           name == MemberName(text, at + 1) IN
       IF Closes(node.kind, Peek(text, at)) THEN Attach(text, at + 1, Front(open), limit, node)
       ELSE IF Peek(text, at) # "," THEN Stopped("malformed", at)
       ELSE IF node.kind = "array" THEN ReadValue(text, at + 1, Next(""), limit)
       ELSE IF name.kind = "read" THEN ReadValue(text, name.at, Next(name.value.text), limit)
       ELSE name
ReadDocument(text, limit) == ReadValue(text, 1, << >>, limit)

\* parse_with: nothing but whitespace may follow.
Complete(text, read) ==
  LET end == SkipWhitespace(text, read.at) IN
  IF read.kind # "read" \/ end = Len(text) + 1 THEN read ELSE Stopped("malformed", end)
Parse(text, limit) == Complete(text, ReadDocument(text, limit))

-----------------------------------------------------------------------------
\* number: the lexeme of a number, character by character.  What it returns is
\* the position after the lexeme, or 0.
Digits == { "0", "1" }
AfterDigits(text, at) ==
  CHOOSE k \in at .. Len(text) + 1 : Peek(text, k) \notin Digits /\ \A j \in at .. k - 1 : Peek(text, j) \in Digits
Fraction(text, at) ==
  IF Peek(text, at) # "." THEN at
  ELSE IF Peek(text, at + 1) \notin Digits THEN 0
  ELSE AfterDigits(text, at + 1)
Exponent(text, at) ==
  LET digits == IF Peek(text, at + 1) \in { "+", "-" } THEN at + 2 ELSE at + 1 IN
  IF Peek(text, at) # "e" THEN at
  ELSE IF Peek(text, digits) \notin Digits THEN 0
  ELSE AfterDigits(text, digits)
Whole(text, at) ==
  IF Peek(text, at) = "0" THEN at + 1 ELSE IF Peek(text, at) \in Digits THEN AfterDigits(text, at) ELSE 0
NumberEnd(text) ==
  LET whole == Whole(text, IF Peek(text, 1) = "-" THEN 2 ELSE 1)
      fraction == IF whole = 0 THEN 0 ELSE Fraction(text, whole) IN
  IF fraction = 0 THEN 0 ELSE Exponent(text, fraction)
IsNumber(text) == NumberEnd(text) = Len(text) + 1

\* ecma_number_to_string: the digits `k` of them, the point `n` places from
\* their left; `Plain` and `Leading` are its thresholds, 21 and 6.
CONSTANTS Plain, Leading
Zeros(count) == [ j \in 1 .. count |-> "0" ]
ExponentOf(n) == n - 1
Layout(digits, n) ==
  LET k == Len(digits)
      e == ExponentOf(n) IN
  IF k <= n /\ n <= Plain THEN digits \o Zeros(n - k)
  ELSE IF 0 < n /\ n <= Plain THEN SubSeq(digits, 1, n) \o << "." >> \o SubSeq(digits, n + 1, k)
  ELSE IF -Leading < n /\ n <= 0 THEN << "0", "." >> \o Zeros(-n) \o digits
  ELSE SubSeq(digits, 1, 1) \o (IF k = 1 THEN << >> ELSE << "." >> \o Tail(digits))
       \o << "e", IF e >= 0 THEN "+" ELSE "-", ToString(IF e >= 0 THEN e ELSE -e) >>

-----------------------------------------------------------------------------
\* string: the text between the quotes, one symbol a character or an escape.
\* The symbols: `x` and `astral` stand for characters, `ctl` for a control
\* character; `\n` and `\u` open an escape, `hi`, `lo`, `x` and `ctl` standing
\* for the four digits after a `\u`, and `bad` for ones that are not four hex
\* digits.
NotText == << "not text" >>
\* What the symbols at a position stand for, and how many they are.
Character(char, length) == [ char |-> char, length |-> length ]
NoCharacter == Character("none", 1)
Escape(text, at) ==
  LET digits == Peek(text, at + 1) IN
  IF digits \in { "x", "ctl" } THEN Character(digits, 2)
  ELSE IF digits = "hi" /\ Peek(text, at + 2) = "\\u" /\ Peek(text, at + 3) = "lo" THEN Character("astral", 4)
  ELSE NoCharacter
CharacterAt(text, at) ==
  CASE text[at] \in { "x", "astral" } -> Character(text[at], 1)
    [] text[at] = "\\n" -> Character("ctl", 1)
    [] text[at] = "\\u" -> Escape(text, at)
    [] OTHER -> NoCharacter
RECURSIVE StringFrom(_, _, _)
StringFrom(text, at, out) ==
  IF at > Len(text) THEN out
  ELSE LET read == CharacterAt(text, at) IN
       IF read = NoCharacter THEN NotText ELSE StringFrom(text, at + read.length, Append(out, read.char))
ReadString(text) == StringFrom(text, 1, << >>)
\* write_string: a control character is escaped, everything else written as it is.
WriteString(chars) == FlattenSeq([ k \in DOMAIN chars |-> IF chars[k] = "ctl" THEN << "\\u", "ctl" >> ELSE << chars[k] >> ])

-----------------------------------------------------------------------------
(***************************************************************************)
(* The two appliers of the corpus's patches: patch.rs of the Rust reader,  *)
(* whose documents keep duplicate members, and json.mjs of the oracle,     *)
(* whose documents are what JSON.parse left of them; and the pointers both *)
(* read, a pointer being a sequence of characters.                         *)
(***************************************************************************)

CONSTANTS
  MaxCopies           \* the most copies an x-repeat makes: 512 in patch.rs

\* escapeToken / token, and unescapeToken / split: two replacements in a row.
ReplaceIn(chars, from, to) ==
  LET n == Len(from)
      At(k) == k + n - 1 <= Len(chars) /\ SubSeq(chars, k, k + n - 1) = from
      \* A match starts where the one before it has ended.
      Starts[k \in 1 .. Len(chars)] == At(k) /\ (n = 1 \/ k = 1 \/ ~ Starts[k - 1])
      Kept(k) == IF Starts[k] THEN to ELSE IF n = 2 /\ k > 1 /\ Starts[k - 1] THEN << >> ELSE << chars[k] >> IN
  FlattenSeq([ k \in DOMAIN chars |-> Kept(k) ])
EscapeToken(token) == ReplaceIn(ReplaceIn(token, << "~" >>, << "~", "0" >>), << "/" >>, << "~", "1" >>)
\* Mutant: the tilde is unescaped first.
UnescapeTildeFirst(token) == ReplaceIn(ReplaceIn(token, << "~", "0" >>, << "~" >>), << "~", "1" >>, << "/" >>)
UnescapeToken(token) == ReplaceIn(ReplaceIn(token, << "~", "1" >>, << "/" >>), << "~", "0" >>, << "~" >>)
PointerOf(tokens) == FlattenSeq([ k \in DOMAIN tokens |-> << "/" >> \o EscapeToken(tokens[k]) ])
Slashes(chars) == { k \in DOMAIN chars : chars[k] = "/" }
\* Everything before the first slash of a pointer is dropped.
PointerTokens(chars) ==
  LET starts == SetToSortSeq(Slashes(chars), <)
      Ends(k) == IF k < Len(starts) THEN starts[k + 1] - 1 ELSE Len(chars) IN
  [ k \in DOMAIN starts |-> UnescapeToken(SubSeq(chars, starts[k] + 1, Ends(k))) ]

-----------------------------------------------------------------------------
\* What a token of a path says to an array: `parse::<usize>` and `Number`.
NoIndex == -2
RustIndex(token) ==
  CASE token = "0" -> 0 [] token \in { "1", "+1", "01" } -> 1 [] token = "2" -> 2 [] OTHER -> NoIndex
OracleIndex(token) ==
  CASE token \in { "0", "", "-0" } -> 0 [] token \in { "1", "+1", "01", "1.0" } -> 1 [] token = "2" -> 2
    [] token = "-1" -> -1 [] OTHER -> NoIndex

\* A document, or a refusal.
Refused == << >>
Done(document) == << document >>
NoNode == << >>
Found(node) == << node >>

\* resolve and resolve_mut; resolvePointer.
Step(node, token, Index(_)) ==
  IF node.kind = "object" THEN (IF Has(node, token) THEN Found(Get(node, token)) ELSE NoNode)
  ELSE IF node.kind = "array" /\ Index(token) + 1 \in DOMAIN node.parts
  THEN Found(node.parts[Index(token) + 1][2])
  ELSE NoNode
Resolve(document, path, Index(_)) ==
  FoldLeft(LAMBDA found, token : IF found = NoNode THEN NoNode ELSE Step(found[1], token, Index),
           Found(document), path)

\* The position a path's step takes in its node.
PositionOf(node, token, Index(_)) ==
  IF node.kind = "object" THEN LastPosition(node.parts, token) ELSE Index(token) + 1
RECURSIVE PutBack(_, _, _)
\* `node` with `inner` put at the positions `path`.
PutBack(node, path, inner) ==
  IF path = << >> THEN inner
  ELSE [ node EXCEPT !.parts[Head(path)][2] = PutBack(@, Tail(path), inner) ]
PositionsOf(document, path, Index(_)) ==
  [ k \in DOMAIN path |-> PositionOf(Resolve(document, SubSeq(path, 1, k - 1), Index)[1], path[k], Index) ]

\* `holder` is the parent a path's last token is read in; `Change` what is done to it.
InParent(document, path, Index(_), Change(_, _)) ==
  LET parents == Front(path)
      found == Resolve(document, parents, Index)
      changed == Change(found[1], Last(path)) IN
  IF found = NoNode \/ changed = NoNode THEN Refused
  ELSE Done(PutBack(document, PositionsOf(document, parents, Index), changed[1]))

-----------------------------------------------------------------------------
PartAt(node, at, value) == [ node EXCEPT !.parts = InsertAt(@, at + 1, Part("", value)) ]
\* insert, setAt.
Insert(node, token, value, at) ==
  IF node.kind = "object"
  THEN Found(IF Has(node, token) THEN [ node EXCEPT !.parts[LastPosition(node.parts, token)][2] = value ]
             ELSE [ node EXCEPT !.parts = Append(@, Part(token, value)) ])
  ELSE IF node.kind # "array" THEN NoNode
  ELSE IF token = "-" THEN Found([ node EXCEPT !.parts = Append(@, Part("", value)) ])
  ELSE IF at \in 0 .. Len(node.parts) THEN Found(PartAt(node, at, value)) ELSE NoNode
\* set, replaceAt: the position of the member stays.
SetIn(node, token, value, at) ==
  IF node.kind = "object" /\ Has(node, token)
  THEN Found([ node EXCEPT !.parts[LastPosition(node.parts, token)][2] = value ])
  ELSE IF node.kind = "array" /\ at \in 0 .. Len(node.parts) - 1
  THEN Found([ node EXCEPT !.parts[at + 1][2] = value ]) ELSE NoNode
ItemRemoved(node, at) == [ node EXCEPT !.parts = RemoveAt(@, at + 1) ]
RemoveIn(node, token, at) ==
  IF node.kind = "object" /\ Has(node, token)
  THEN Found([ node EXCEPT !.parts = RemoveAt(@, LastPosition(node.parts, token)) ])
  ELSE IF node.kind = "array" /\ at \in 0 .. Len(node.parts) - 1
  THEN Found(ItemRemoved(node, at)) ELSE NoNode

InsertAtPath(document, path, value, Index(_)) ==
  IF path = << >> THEN Done(value)
  ELSE InParent(document, path, Index, LAMBDA node, token : Insert(node, token, value, Index(token)))
SetAtPath(document, path, value, Index(_)) ==
  IF path = << >> THEN Done(value)
  ELSE InParent(document, path, Index, LAMBDA node, token : SetIn(node, token, value, Index(token)))
RemoveAtPath(document, path, Index(_)) ==
  IF path = << >> THEN Refused
  ELSE InParent(document, path, Index, LAMBDA node, token : RemoveIn(node, token, Index(token)))

-----------------------------------------------------------------------------
\* substitute: `$i` and `$n` of a template's strings and names; the templates
\* of the model write each once.
Substituted(text, copy) ==
  CASE text = "$i" -> ToString(copy) [] text = "$n" -> ToString(copy + 1)
    [] text = "L$i" -> "L" \o ToString(copy) [] text = "L$n" -> "L" \o ToString(copy + 1)
    [] OTHER -> text

\* patch.rs: frames of the containers entered, each with what it has finished.
Scalar(node, copy) == IF node.kind = "string" THEN JString(Substituted(node.text, copy)) ELSE node
Frame(node) == [ from |-> node, out |-> [ node EXCEPT !.parts = << >> ] ]
NameOfCopy(name, copy) == Substituted(name, copy)
RECURSIVE RustSubstitute(_, _, _)
\* `finished` holds the node just finished, or nothing.
RustSubstitute(stack, finished, copy) ==
  IF stack = << >> THEN finished[1]
  ELSE LET top == Last(stack)
           read == Len(top.out.parts) + Len(finished)
           out == IF finished = NoNode THEN top.out
                  ELSE [ top.out EXCEPT !.parts =
                           Append(@, Part(NameOfCopy(top.from.parts[Len(@) + 1][1], copy), finished[1])) ]
           below == Append(Front(stack), [ top EXCEPT !.out = out ])
           child == top.from.parts[read + 1][2] IN
       IF read = Len(top.from.parts) THEN RustSubstitute(Front(stack), Found(out), copy)
       ELSE IF IsContainer(child) THEN RustSubstitute(Append(below, Frame(child)), NoNode, copy)
       ELSE RustSubstitute(below, Found(Scalar(child, copy)), copy)
RustTemplate(template, copy) ==
  IF IsContainer(template) THEN RustSubstitute(<< Frame(template) >>, NoNode, copy) ELSE Scalar(template, copy)

\* json.mjs: recursive, a member of a substituted name set over an earlier one.
RECURSIVE OracleTemplate(_, _)
OracleTemplate(node, copy) ==
  LET parts == [ k \in DOMAIN node.parts |->
                   Part(Substituted(node.parts[k][1], copy), OracleTemplate(node.parts[k][2], copy)) ] IN
  CASE node.kind = "string" -> JString(Substituted(node.text, copy))
    [] node.kind = "object" -> [ node EXCEPT !.parts = ResolvedMembers(parts) ]
    [] node.kind = "array" -> [ node EXCEPT !.parts = parts ]
    [] OTHER -> node

CopyIndex(copy) == copy - 1
Repeated(document, op, Index(_), Template(_, _)) ==
  FoldLeft(LAMBDA done, copy :
             IF done = Refused THEN Refused
             ELSE InsertAtPath(done[1], op.path, Template(op.value, CopyIndex(copy)), Index),
           Done(document), [ copy \in 1 .. op.count |-> copy ])

Moved(document, op, moved, Index(_)) ==
  LET removed == RemoveAtPath(document, op.from, Index) IN
  IF removed = Refused THEN Refused ELSE InsertAtPath(removed[1], op.path, moved, Index)

\* apply_one of patch.rs.  An op is [op, path, from, value, count].
RustApply(document, op) ==
  LET found == Resolve(document, op.path, RustIndex)
      source == Resolve(document, op.from, RustIndex) IN
  CASE op.op = "test" ->
         IF found # NoNode /\ CanonicalString(found[1]) = CanonicalString(op.value) THEN Done(document) ELSE Refused
    [] op.op = "add" -> InsertAtPath(document, op.path, op.value, RustIndex)
    [] op.op = "replace" -> IF found = NoNode THEN Refused ELSE SetAtPath(document, op.path, op.value, RustIndex)
    [] op.op = "remove" -> RemoveAtPath(document, op.path, RustIndex)
    [] op.op = "copy" ->
         IF source = NoNode THEN Refused ELSE InsertAtPath(document, op.path, source[1], RustIndex)
    [] op.op = "move" -> IF source = NoNode THEN Refused ELSE Moved(document, op, source[1], RustIndex)
    [] op.op = "x-repeat" ->
         IF op.count \in 1 .. MaxCopies THEN Repeated(document, op, RustIndex, RustTemplate) ELSE Refused

\* applyPatch of json.mjs: a path to nothing is compared as null.
OracleApply(document, op) ==
  LET found == Resolve(document, op.path, OracleIndex)
      source == Resolve(document, op.from, OracleIndex)
      actual == IF found = NoNode THEN JNull ELSE found[1] IN
  CASE op.op = "test" -> IF OracleCanonical(actual) = OracleCanonical(op.value) THEN Done(document) ELSE Refused
    [] op.op = "add" -> InsertAtPath(document, op.path, op.value, OracleIndex)
    [] op.op = "replace" -> SetAtPath(document, op.path, op.value, OracleIndex)
    [] op.op = "remove" -> RemoveAtPath(document, op.path, OracleIndex)
    [] op.op = "copy" ->
         IF source = NoNode THEN Refused ELSE InsertAtPath(document, op.path, source[1], OracleIndex)
    [] op.op = "move" -> IF source = NoNode THEN Refused ELSE Moved(document, op, source[1], OracleIndex)
    [] op.op = "x-repeat" ->
         IF op.count >= 1 THEN Repeated(document, op, OracleIndex, OracleTemplate) ELSE Refused

-----------------------------------------------------------------------------
\* chain of diag.rs: the nodes a pointer walks through, as far as it reaches.
Chain(root, path) ==
  LET reached == { k \in 0 .. Len(path) : Resolve(root, SubSeq(path, 1, k), RustIndex) # NoNode } IN
  [ k \in 1 .. Cardinality(reached) |-> Resolve(root, SubSeq(path, 1, k - 1), RustIndex)[1] ]
NearestOf(owners) == CHOOSE k \in owners : \A j \in owners : j <= k
\* owner_for: `identities` are the texts that are semantic identities.
OracleOwner == "oracle"
OwnerFor(root, path, identities) ==
  LET nodes == Chain(root, path)
      Declares(node) ==
        Has(node, "identity") /\ Get(node, "identity").kind = "string" /\ Get(node, "identity").text \in identities
      owners == { k \in DOMAIN nodes : Declares(nodes[k]) } IN
  IF owners = {} THEN OracleOwner ELSE Get(nodes[NearestOf(owners)], "identity").text
=============================================================================
