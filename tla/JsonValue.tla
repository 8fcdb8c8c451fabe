----------------------------- MODULE JsonValue ------------------------------
(***************************************************************************)
(* The JSON value of crates/semantic-ir/src/json.rs: a tree that keeps the *)
(* order of its members and their duplicates.  Cloning, comparing,         *)
(* formatting and writing it are loops over a stack of the program's own,  *)
(* so that no document overflows a thread's.                               *)
(***************************************************************************)
EXTENDS Integers, Sequences, SequencesExt

\* A part of an array has the empty name.
Part(name, value) == << name, value >>
Node(kind, text, parts) == [ kind |-> kind, text |-> text, parts |-> parts ]
JNull == Node("null", "", << >>)
JNumber(lexeme) == Node("number", lexeme, << >>)
JString(text) == Node("string", text, << >>)
JArray(items) == Node("array", "", [ k \in DOMAIN items |-> Part("", items[k]) ])
JObject(members) == Node("object", "", members)
Values(node) == [ k \in DOMAIN node.parts |-> node.parts[k][2] ]
IsContainer(node) == node.kind \in { "array", "object" }

\* Clone: `work` holds the nodes still to enter and the containers still to
\* close, `done` the finished clones.
Enter(node) == [ enters |-> TRUE, node |-> node ]
Close(node) == [ enters |-> FALSE, node |-> node ]
Enters(node) == Reverse([ k \in DOMAIN node.parts |-> Enter(node.parts[k][2]) ])
RECURSIVE Cloned(_, _)
Cloned(work, done) ==
  IF work = << >> THEN (IF done = << >> THEN JNull ELSE Last(done))
  ELSE LET frame == Last(work)
           node == frame.node
           rest == Front(work)
           count == Len(node.parts)
           below == SubSeq(done, 1, Len(done) - count)
           values == SubSeq(done, Len(done) - count + 1, Len(done)) IN
       IF ~ frame.enters
       THEN Cloned(rest, Append(below,
              [ node EXCEPT !.parts = [ k \in 1 .. count |-> Part(node.parts[k][1], values[k]) ] ]))
       ELSE IF IsContainer(node)
       THEN Cloned(Append(rest, Close(node)) \o Enters(node), done)
       ELSE Cloned(rest, Append(done, node))
Clone(value) == Cloned(<< Enter(value) >>, << >>)

SameHead(left, right) ==
  /\ left.kind = right.kind
  /\ left.text = right.text
  /\ Len(left.parts) = Len(right.parts)
  /\ \A k \in DOMAIN left.parts : left.parts[k][1] = right.parts[k][1]
Pairs(left, right) == [ k \in DOMAIN left.parts \cap DOMAIN right.parts |-> << left.parts[k][2], right.parts[k][2] >> ]
RECURSIVE EqualPairs(_)
EqualPairs(pairs) ==
  \/ pairs = << >>
  \/ LET left == Last(pairs)[1]
         right == Last(pairs)[2] IN
     SameHead(left, right) /\ EqualPairs(Front(pairs) \o Pairs(left, right))
JsonEquals(left, right) == EqualPairs(<< << left, right >> >>)

-----------------------------------------------------------------------------
(***************************************************************************)
(* The writers.  A piece of work is text to write or a node to expand into *)
(* pieces; the pieces of a node go onto the stack last one first.          *)
(***************************************************************************)
Words(text) == [ expands |-> FALSE, text |-> text, node |-> JNull, level |-> 0 ]
Expand(node, level) == [ expands |-> TRUE, text |-> "", node |-> node, level |-> level ]
Indent(level) == [ k \in 1 .. level |-> Words("    ") ]

\* The pieces between the parts of a container, `first` before the first of them.
Between(parts, separator, OfPart(_)) ==
  FlattenSeq([ k \in DOMAIN parts |-> (IF k > 1 THEN separator ELSE << >>) \o OfPart(parts[k]) ])

Quoted(text) == << Words("'"), Words(text), Words("'") >>
Variant(kind) ==
  CASE kind = "null" -> "Null" [] kind = "number" -> "Number" [] kind = "string" -> "Str"
    [] kind = "array" -> "Array" [] kind = "object" -> "Object"

\* Debug, `{:?}` and `{:#?}`.
CompactPart(object, level, part) ==
  IF object THEN << Words("(") >> \o Quoted(part[1]) \o << Words(", "), Expand(part[2], level), Words(")") >>
  ELSE << Expand(part[2], level) >>
DebugCompact(piece) ==
  LET node == piece.node IN
  IF node.kind = "null" THEN << Words("Null") >>
  ELSE IF ~ IsContainer(node) THEN << Words(Variant(node.kind)), Words("(") >> \o Quoted(node.text) \o << Words(")") >>
  ELSE << Words(Variant(node.kind)), Words("("), Words("[") >>
       \o Between(node.parts, << Words(", ") >>, LAMBDA part : CompactPart(node.kind = "object", piece.level, part))
       \o << Words("]"), Words(")") >>
PrettyPart(object, level, part) ==
  IF ~ object THEN Indent(level + 2) \o << Expand(part[2], level + 2), Words(",\n") >>
  ELSE Indent(level + 2) \o << Words("(\n") >>
       \o Indent(level + 3) \o Quoted(part[1]) \o << Words(",\n") >>
       \o Indent(level + 3) \o << Expand(part[2], level + 3), Words(",\n") >>
       \o Indent(level + 2) \o << Words("),\n") >>
DebugPretty(piece) ==
  LET node == piece.node
      level == piece.level IN
  IF node.kind = "null" THEN << Words("Null") >>
  ELSE IF ~ IsContainer(node)
  THEN << Words(Variant(node.kind)), Words("(\n") >> \o Indent(level + 1) \o Quoted(node.text)
       \o << Words(",\n") >> \o Indent(level) \o << Words(")") >>
  ELSE << Words(Variant(node.kind)), Words("(\n") >> \o Indent(level + 1)
       \o (IF node.parts = << >> THEN << Words("[],\n") >>
           ELSE << Words("[\n") >>
                \o FlattenSeq([ k \in DOMAIN node.parts |-> PrettyPart(node.kind = "object", level, node.parts[k]) ])
                \o Indent(level + 1) \o << Words("],\n") >>)
       \o Indent(level) \o << Words(")") >>
-----------------------------------------------------------------------------
\* get: JSON.parse keeps the last of the members of one name.
Positions(members, name) == { k \in DOMAIN members : members[k][1] = name }
LastPosition(members, name) == CHOOSE k \in Positions(members, name) : \A j \in Positions(members, name) : j <= k
Has(node, name) == node.kind = "object" /\ Positions(node.parts, name) # {}
Get(node, name) == node.parts[LastPosition(node.parts, name)][2]

ResolvedMembers(members) ==
  FoldLeft(LAMBDA resolved, member :
             IF Positions(resolved, member[1]) = {} THEN Append(resolved, member)
             ELSE [ resolved EXCEPT ![LastPosition(resolved, member[1])] = member ],
           << >>, members)

\* compare_utf16 and compareCodeUnits: the names of the model, by the UTF-16
\* units they are written in (`astral` is a character above U+FFFF, `private`
\* one of U+E000 and above, whose code point is lower and whose unit is higher).
Utf16(name) ==
  CASE name = "a" -> << 97 >> [] name = "aa" -> << 97, 97 >> [] name = "b" -> << 98 >>
    [] name = "astral" -> << 55357, 56832 >> [] name = "private" -> << 63743 >> [] OTHER -> << 0 >>
CodePoints(name) == IF name = "astral" THEN << 128512 >> ELSE Utf16(name)
Precedes(left, right) ==
  \/ Len(left) < Len(right) /\ SubSeq(right, 1, Len(left)) = left
  \/ \E k \in DOMAIN left \cap DOMAIN right :
       left[k] < right[k] /\ \A j \in 1 .. k - 1 : left[j] = right[j]
CodePointLess(left, right) == Precedes(CodePoints(left), CodePoints(right))
Utf16Less(left, right) == Precedes(Utf16(left), Utf16(right))
\* Mutant: the names are ordered by code point, as a Rust string compares.
InCodePointOrder(members) == SortSeq(members, LAMBDA left, right : CodePointLess(left[1], right[1]))
InOrder(members) == SortSeq(members, LAMBDA left, right : Utf16Less(left[1], right[1]))

\* write_iteratively: sorted for the canonical form, in document order for a
\* node copied out of its document.
Emit(piece, sorted) ==
  LET node == piece.node
      resolved == IF sorted THEN InOrder(ResolvedMembers(node.parts)) ELSE ResolvedMembers(node.parts) IN
  CASE node.kind = "null" -> << Words("null") >>
    [] node.kind = "number" -> << Words(node.text) >>
    [] node.kind = "string" -> Quoted(node.text)
    [] node.kind = "array" ->
         << Words("[") >> \o Between(node.parts, << Words(",") >>, LAMBDA part : << Expand(part[2], 0) >>)
         \o << Words("]") >>
    [] node.kind = "object" ->
         << Words("{") >>
         \o Between(resolved, << Words(",") >>, LAMBDA part : Quoted(part[1]) \o << Words(":"), Expand(part[2], 0) >>)
         \o << Words("}") >>

\* The loop every writer is: `form` says which one.
Pieces(form, piece) ==
  CASE form = "compact" -> DebugCompact(piece) [] form = "pretty" -> DebugPretty(piece)
    [] form = "document" -> Emit(piece, FALSE) [] form = "canonical" -> Emit(piece, TRUE)
RECURSIVE Written(_, _, _)
Written(form, stack, out) ==
  IF stack = << >> THEN out
  ELSE LET piece == Last(stack) IN
       IF piece.expands THEN Written(form, Front(stack) \o Reverse(Pieces(form, piece)), out)
       ELSE Written(form, Front(stack), Append(out, piece.text))
WrittenAs(form, value) == Written(form, << Expand(value, 0) >>, << >>)
CanonicalString(value) == WrittenAs("canonical", value)

\* canonical of the oracle: the keys of each object, which JSON.parse left without duplicates.
RECURSIVE OracleCanonical(_)
OracleCanonical(value) ==
  LET keys == SortSeq(SetToSeq({ value.parts[k][1] : k \in DOMAIN value.parts }), Utf16Less)
      Pair(key) == << "'", key, "'", ":" >> \o OracleCanonical(Get(value, key))
      Joined(texts) == FlattenSeq([ k \in DOMAIN texts |-> (IF k > 1 THEN << "," >> ELSE << >>) \o texts[k] ]) IN
  CASE value.kind = "array" ->
         << "[" >> \o Joined([ k \in DOMAIN value.parts |-> OracleCanonical(value.parts[k][2]) ]) \o << "]" >>
    [] value.kind = "object" -> << "{" >> \o Joined([ k \in DOMAIN keys |-> Pair(keys[k]) ]) \o << "}" >>
    [] value.kind = "string" -> << "'", value.text, "'" >>
    [] value.kind = "number" -> << value.text >>
    [] value.kind = "null" -> << "null" >>
=============================================================================
