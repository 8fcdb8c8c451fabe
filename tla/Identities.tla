----------------------------- MODULE Identities -----------------------------
(***************************************************************************)
(* The identities two frontends mint for the nodes of a package: the Rust  *)
(* extraction-frontend (identity.rs) and the TypeSpec frontend             *)
(* (identity.mjs).  A name is a sequence of characters; a keyword, a slot  *)
(* and a number are one symbol each.  An identity is what follows          *)
(* ix://<org>/<name>/.                                                     *)
(***************************************************************************)
EXTENDS Integers, FiniteSets, SequencesExt

UpperOf ==
  [ a |-> "A", b |-> "B", c |-> "C", d |-> "D", e |-> "E", f |-> "F", n |-> "N", r |-> "R", s |-> "S" ]
Lowercase == DOMAIN UpperOf
Uppercase == { UpperOf[letter] : letter \in Lowercase }
Digits == { "0", "1", "2" }
Words ==
  { "Integer", "items", "values", "Return", "Param", "width", "narrowed", "min", "max", "pattern",
    "nonEmpty", "int8", "int16", "constraint", "variant", "relationship", "transition" }
Letters == Lowercase \union Uppercase \union Words
Alphanumerics == Letters \union Digits
ToUpper(symbol) == IF symbol \in Lowercase THEN UpperOf[symbol] ELSE symbol

NoSegment == << >>     \* Unsluggable: the name mints no segment

\* Mutant: a separator is written for every character that is none.
SlugPerCharacter(name) ==
  FoldLeft(LAMBDA out, symbol : IF symbol \in Alphanumerics THEN Append(out, symbol)
                                ELSE IF out = << >> THEN out ELSE Append(out, "-"), << >>, name)
\* slug: a run of other characters becomes one hyphen, written only once a
\* character follows it and one went before.
slug(name) ==
  FoldLeft(LAMBDA s, symbol :
             IF symbol \notin Alphanumerics THEN [ s EXCEPT !.pending = TRUE ]
             ELSE [ out |-> s.out \o (IF s.pending /\ s.out # << >> THEN << "-" >> ELSE << >>) \o << symbol >>,
                    pending |-> FALSE ],
           [ out |-> << >>, pending |-> FALSE ], name).out

SegmentCharacters == { ".", "_", "~", "-" }
id_segment(id) ==
  IF ToSet(id) \subseteq Alphanumerics \union SegmentCharacters /\ ToSet(id) \intersect Alphanumerics # {}
  THEN id ELSE NoSegment
member_segment(name) ==
  IF name # << >> /\ name[1] \in Letters /\ ToSet(name) \subseteq Alphanumerics \union { "_" }
  THEN name ELSE NoSegment
capitalized(name) == IF name = << >> THEN name ELSE << ToUpper(name[1]) >> \o Tail(name)

\* Parts between separators; one that mints no segment leaves the node without
\* an identity.
Joined(parts, separator) ==
  IF NoSegment \in ToSet(parts) THEN NoSegment
  ELSE FlattenSeq([ k \in DOMAIN parts |-> (IF k > 1 THEN << separator >> ELSE << >>) \o parts[k] ])
Under(slot, tail) == IF tail = NoSegment THEN NoSegment ELSE << slot, "/" >> \o tail

type_identity(id) == id_segment(id)
alias_identity(id, field) ==
  LET part == slug(field) IN
  IF id_segment(id) = NoSegment \/ part = << >> THEN NoSegment ELSE id \o capitalized(part)
\* A field, an operation, a clause, a state and a step are members of a type.
member_identity(owner, name) == Joined(<< id_segment(owner), member_segment(name) >>, "/")
transition_identity(machine, position) == member_identity(machine, << "transition", position >>)
param_identity(owner, operation, name) ==
  Joined(<< id_segment(owner), member_segment(operation), member_segment(name) >>, "/")
constraint_identity(owner, field, keyword) ==
  Under("constraint", Joined(<< id_segment(owner), slug(field), slug(keyword) >>, "-"))
type_constraint_identity(owner, keyword) ==
  Under("constraint", Joined(<< id_segment(owner), slug(keyword) >>, "/"))
relationship_identity(owner, verb, target) ==
  Under("relationship", Joined(<< id_segment(owner), slug(verb), id_segment(target) >>, "-"))
variant_identity(enumeration, value) == Under("variant", Joined(<< id_segment(enumeration), slug(value) >>, "-"))

Screaming(name) == [ k \in DOMAIN name |-> IF name[k] = "-" THEN "_" ELSE ToUpper(name[k]) ]
\* diagnostic_code: owner and field are slugged as one name.
diagnostic_code(owner, field, keyword) ==
  Screaming(slug(owner \o << "-" >> \o field)) \o << "_" >> \o Screaming(slug(keyword))

-----------------------------------------------------------------------------
(* identity.mjs *)

IsOther(symbol) == symbol \notin Alphanumerics
\* A run of other characters becomes one hyphen...
RunsReplaced(name) ==
  FlattenSeq([ k \in DOMAIN name |->
    IF ~IsOther(name[k]) THEN << name[k] >> ELSE IF k > 1 /\ IsOther(name[k - 1]) THEN << >> ELSE << "-" >> ])
\* ... and those at the ends are trimmed.
Trimmed(name) ==
  LET kept == { k \in DOMAIN name : name[k] # "-" } IN
  IF kept = {} THEN << >> ELSE SubSeq(name, Min(kept), Max(kept))
JsSlug(name) == Trimmed(RunsReplaced(name))

\* mintIdentity throws on a member that is none, and on an owner no artifact
\* id could be; other slots drop an empty part.
Thrown == << "throws" >>
isArtifactIdSegment(id) == id_segment(id) # NoSegment
NonEmptySlugs(parts) == SelectSeq([ k \in DOMAIN parts |-> JsSlug(parts[k]) ], LAMBDA part : part # << >>)
MintMember(parts) ==
  IF isArtifactIdSegment(parts[1]) /\ \A k \in 2 .. Len(parts) : member_segment(parts[k]) # NoSegment
  THEN Joined(parts, "/") ELSE Thrown
Slotted(slot, path) ==
  IF slot = "type" THEN path ELSE << IF slot = "typeConstraint" THEN "constraint" ELSE slot, "/" >> \o path
MintSlot(slot, parts) == Slotted(slot, Joined(NonEmptySlugs(parts), IF slot \in { "type", "typeConstraint" } THEN "/" ELSE "-"))
mintIdentity(slot, parts) == IF slot \in { "field", "operation", "parameter" } THEN MintMember(parts) ELSE MintSlot(slot, parts)

constraintDiagnosticCode(parts, keyword) ==
  LET named == SelectSeq([ k \in DOMAIN parts |-> Screaming(JsSlug(parts[k])) ], LAMBDA part : part # << >>) IN
  Joined(Append(named, Screaming(JsSlug(keyword))), "_")
=============================================================================
