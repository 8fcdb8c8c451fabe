--------------------------- MODULE SchemaLowering ---------------------------
(***************************************************************************)
(* The lowering of a bundle of JSON Schema documents (frontend/            *)
(* json-schema).  A schema is a function from its keywords: $id is id,     *)
(* $ref is ref, $schema is dialect and x-agent-ix-semantic-id semanticId;  *)
(* properties is the sequence of << name, schema >> the object lists, and  *)
(* Mistyped is a value of another JSON type than the keyword takes; a      *)
(* schema of a property or a branch is an object.  A reference and an      *)
(* identity are the names they end in; loci, messages, descriptions and    *)
(* the members every definition carries alike are left out.                *)
(*                                                                         *)
(* document   == [file, named, schema]: its place in the order of file     *)
(*               names and the name the file name ends in                  *)
(* definition == [name, kind, scalar, bounds, fields, variants, untagged,  *)
(*               preserve]                                                 *)
(***************************************************************************)
EXTENDS Identities

CONSTANT Mistyped

Has(schema, keyword) == keyword \in DOMAIN schema
IsType(schema, name) == Has(schema, "type") /\ schema.type = name
IsGiven(schema, keyword) == Has(schema, keyword) /\ schema[keyword] # Mistyped
NamesIn(properties) == { properties[k][1] : k \in DOMAIN properties }
Property(properties, name) == properties[CHOOSE k \in DOMAIN properties : properties[k][1] = name][2]

-----------------------------------------------------------------------------
(* Keywords (keywords.mjs). *)

RECOGNISED_KEYWORDS ==
  { "dialect", "id", "ref", "type", "properties", "required", "unevaluatedProperties", "not", "description", "const",
    "enum", "anyOf", "oneOf", "items", "minItems", "pattern", "minLength", "minimum", "maximum", "semanticId" }
Single == { "items", "not", "unevaluatedProperties" }
Several == { "anyOf", "oneOf" }
Named == { "properties", "defs" }

\* The schemas below a keyword, each with where it stands under the keyword.
Below(schema, keyword) ==
  IF schema[keyword] = Mistyped THEN { }
  ELSE CASE keyword \in Single  -> { << << >>, schema[keyword] >> }
         [] keyword \in Several -> { << << k >>, schema[keyword][k] >> : k \in DOMAIN schema[keyword] }
         [] keyword \in Named   -> { << << schema[keyword][k][1] >>, schema[keyword][k][2] >> : k \in DOMAIN schema[keyword] }
         [] OTHER -> { }

\* The names under properties and $defs are data; $defs itself is passed over.
RECURSIVE unrecognisedKeywords(_, _)
unrecognisedKeywords(schema, at) ==
  UNION { IF keyword \in RECOGNISED_KEYWORDS \union Named
          THEN UNION { unrecognisedKeywords(child[2], at \o << keyword >> \o child[1]) : child \in Below(schema, keyword) }
          ELSE { at \o << keyword >> } : keyword \in DOMAIN schema }

\* Where a oneOf stands that is none of the three positions of a union: the
\* document, a property of the document and the items of an array property.
\* Below the document a property's own name is taken for a keyword.
PositionBelow(schema, keyword, position) ==
  CASE keyword = "properties" /\ position = "top" -> "property"
    [] keyword = "items" /\ position = "property" /\ IsType(schema, "array") -> "item"
    [] OTHER -> "other"
RECURSIVE misplacedOneOf(_, _, _)
misplacedOneOf(schema, at, position) ==
  UNION { LET below == PositionBelow(schema, keyword, position)
              children == Below(schema, keyword)
          IN { place \in { at \o << keyword >> } : keyword = "oneOf" /\ position = "other" }
             \union { at \o << keyword >> \o child[1] : child \in { child \in children :
                        keyword \in Named /\ below = "other" /\ child[1] = << << "oneOf" >> >> } }
             \union UNION { misplacedOneOf(child[2], at \o << keyword >> \o child[1], below) : child \in children } :
          keyword \in DOMAIN schema }

-----------------------------------------------------------------------------
(* Minted names (mint.mjs). *)

segment(property) == capitalized(property)
mintName(owner, property) == owner \o segment(property)
mintPath(owner, path) == FoldLeft(mintName, owner, path)
mintCollisions(positions) ==
  { name \in { mintPath(p.owner, p.path) : p \in positions } :
      Cardinality({ p \in positions : mintPath(p.owner, p.path) = name }) > 1 }

-----------------------------------------------------------------------------
(* Definitions. *)

Definition(name, kind) ==
  [ name |-> name, kind |-> kind, scalar |-> "none", bounds |-> << >>, fields |-> << >>, variants |-> << >>,
    untagged |-> FALSE, preserve |-> FALSE ]
Scalar(name, scalar) == [ Definition(name, "scalar") EXCEPT !.scalar = scalar ]
Bounded(name, bounds) == [ Scalar(name, "integer") EXCEPT !.bounds = bounds ]
Union(name, variants, untagged) == [ Definition(name, "union") EXCEPT !.variants = variants, !.untagged = untagged ]
Enum(name, values) == [ Definition(name, "enum") EXCEPT !.variants = [ k \in DOMAIN values |-> [ name |-> values[k], payload |-> << >> ] ] ]
AnyObject(name) == [ Definition(name, "record") EXCEPT !.preserve = TRUE ]

SCALAR_OF == [ string |-> "string", number |-> "float64", integer |-> "integer", boolean |-> "boolean" ]
barePrimitive(schema) ==
  /\ schema # Mistyped
  /\ DOMAIN schema \subseteq { "type", "semanticId" }
  /\ Has(schema, "type")
  /\ schema.type \in DOMAIN SCALAR_OF

-----------------------------------------------------------------------------
(* Adjacent unions: closed objects of a constant kind and a value. *)

Kind == << "kind" >>
Payload == << "value" >>
PayloadOf(branch) == LET p == branch.properties IN IF Payload \in NamesIn(p) THEN Property(p, Payload) ELSE Mistyped
TagOf(branch) == Property(branch.properties, Kind).const
HasPayload(branch) == Payload \in NamesIn(branch.properties)
IsReference(schema) == schema # Mistyped /\ Has(schema, "ref")
IsSeal(seal) == seal # Mistyped /\ DOMAIN seal = { "not" }

adjacentBranch(branch) ==
  /\ branch # Mistyped /\ IsType(branch, "object") /\ IsGiven(branch, "properties")
  /\ LET names == NamesIn(branch.properties) IN
       /\ Kind \in names /\ names \subseteq { Kind, Payload }
       /\ IsGiven(branch, "required") /\ Len(branch.required) = Cardinality(names) /\ names \subseteq ToSet(branch.required)
  /\ LET tag == Property(branch.properties, Kind) IN
       /\ tag # Mistyped /\ IsGiven(tag, "const") /\ DOMAIN tag \subseteq { "const", "type" }
       /\ Has(tag, "type") => tag.type = "string"
  /\ Has(branch, "unevaluatedProperties") /\ IsSeal(branch.unevaluatedProperties)
  /\ branch.unevaluatedProperties.not # Mistyped /\ DOMAIN branch.unevaluatedProperties.not = { }
  /\ DOMAIN branch \subseteq { "type", "properties", "required", "unevaluatedProperties", "description" }
  /\ HasPayload(branch) =>
       \/ IsReference(PayloadOf(branch)) /\ DOMAIN PayloadOf(branch) \subseteq { "ref", "semanticId" }
       \/ barePrimitive(PayloadOf(branch))

AreAdjacent(branches) ==
  /\ Len(branches) >= 2
  /\ \A k \in DOMAIN branches : adjacentBranch(branches[k])
  /\ \A j, k \in DOMAIN branches : TagOf(branches[j]) = TagOf(branches[k]) => j = k

\* The union of such branches under a name, after the scalars it mints.
adjacentVariants(branches, name) ==
  LET bare == SelectSeq(branches, LAMBDA branch : HasPayload(branch) /\ ~IsReference(PayloadOf(branch)))
      payload(branch) == IF ~HasPayload(branch) THEN << >>
                         ELSE IF IsReference(PayloadOf(branch)) THEN PayloadOf(branch).ref
                         ELSE mintName(name, TagOf(branch))
  IN [ k \in DOMAIN bare |-> Scalar(mintName(name, TagOf(bare[k])), SCALAR_OF[PayloadOf(bare[k]).type]) ]
     \o << Union(name, [ k \in DOMAIN branches |-> [ name |-> TagOf(branches[k]), payload |-> payload(branches[k]) ] ], FALSE) >>

AreReferences(branches) == \A k \in DOMAIN branches : IsReference(branches[k])
ArePrimitive(branches) == \A k \in DOMAIN branches : barePrimitive(branches[k])
ReferenceUnion(branches, name) ==
  << Union(name, [ k \in DOMAIN branches |-> [ name |-> branches[k].ref, payload |-> branches[k].ref ] ], TRUE) >>
mintPrimitiveUnion(branches, name) ==
  LET scalar(branch) == mintName(name, << branch.type >>)
  IN [ k \in DOMAIN branches |-> Scalar(scalar(branches[k]), SCALAR_OF[branches[k].type]) ]
     \o << Union(name, [ k \in DOMAIN branches |-> [ name |-> << branches[k].type >>, payload |-> scalar(branches[k]) ] ], TRUE) >>

-----------------------------------------------------------------------------
(* A property.  The first row whose condition holds takes it. *)

FirstRow(rows) == rows[CHOOSE k \in DOMAIN rows : rows[k][2] /\ \A j \in 1 .. k - 1 : ~rows[j][2]][1]
MisplacedAmong(schema, keywords) == Has(schema, "oneOf") /\ (schema.oneOf = Mistyped \/ ~(DOMAIN schema \subseteq keywords))

Refused(at) == [ said |-> { at }, minted |-> << >>, ref |-> << >> ]
Refers(name) == [ said |-> { }, minted |-> << >>, ref |-> name ]
Mints(definitions) == [ said |-> { }, minted |-> definitions, ref |-> Last(definitions).name ]

ItemRow(items) ==
  FirstRow(<< << "misplaced", items # Mistyped /\ MisplacedAmong(items, { "oneOf", "semanticId" }) >>,
              << "ref", IsReference(items) >>,
              << "tagged", items # Mistyped /\ IsGiven(items, "oneOf") >>,
              << "untagged", items # Mistyped /\ IsGiven(items, "anyOf") /\ ArePrimitive(items.anyOf) >>,
              << "scalar", barePrimitive(items) >>,
              << "none", TRUE >> >>)
LoweredItems(name, items, at) ==
  LET row == ItemRow(items) IN
  CASE row = "ref" -> Refers(items.ref)
    [] row = "tagged" /\ AreAdjacent(items.oneOf) -> Mints(adjacentVariants(items.oneOf, name))
    [] row = "untagged" -> Mints(mintPrimitiveUnion(items.anyOf, name))
    [] row = "scalar" -> Mints(<< Scalar(name, SCALAR_OF[items.type]) >>)
    [] row = "none" -> Refused(at)
    [] OTHER -> Refused(at \o << "items", "oneOf" >>)

PropertyRow(schema) ==
  FirstRow(<< << "misplaced", MisplacedAmong(schema, { "oneOf", "semanticId" }) >>,
              << "ref", Has(schema, "ref") >>,
              << "tagged", IsGiven(schema, "oneOf") >>,
              << "untagged", IsGiven(schema, "anyOf") >>,
              << "constant", IsType(schema, "string") /\ IsGiven(schema, "const") >>,
              << "enum", IsType(schema, "string") /\ IsGiven(schema, "enum") >>,
              << "integer", IsType(schema, "integer") >>,
              << "array", IsType(schema, "array") >>,
              << "any", DOMAIN schema = { } >>,
              << "scalar", barePrimitive(schema) /\ ~IsType(schema, "string") >>,
              << "string", IsType(schema, "string") >>,
              << "none", TRUE >> >>)
LoweredShape(name, schema, at) ==
  LET row == PropertyRow(schema)
      bound(keyword, from) == IF IsGiven(schema, from) THEN << << keyword, schema[from] >> >> ELSE << >>
  IN
  CASE row = "ref" -> Refers(schema.ref)
    [] row = "tagged" /\ AreAdjacent(schema.oneOf) -> Mints(adjacentVariants(schema.oneOf, name))
    [] row = "untagged" /\ ArePrimitive(schema.anyOf) -> Mints(mintPrimitiveUnion(schema.anyOf, name))
    [] row = "untagged" /\ ~ArePrimitive(schema.anyOf) /\ AreReferences(schema.anyOf) -> Mints(ReferenceUnion(schema.anyOf, name))
    [] row = "constant" -> Mints(<< Enum(name, << schema.const >>) >>)
    [] row = "enum" -> Mints(<< Enum(name, schema.enum) >>)
    [] row = "integer" -> Mints(<< Bounded(name, bound("min", "minimum") \o bound("max", "maximum")) >>)
    [] row = "array" -> LoweredItems(name, IF Has(schema, "items") THEN schema.items ELSE Mistyped, at)
    [] row = "any" -> Mints(<< AnyObject(name) >>)
    [] row = "scalar" -> Mints(<< Scalar(name, SCALAR_OF[schema.type]) >>)
    [] row = "string" -> Mints(<< Scalar(name, "string") >>)
    [] row \in { "misplaced", "tagged" } -> Refused(at \o << "oneOf" >>)
    [] OTHER -> Refused(at)

\* Mutant: an array, too, is at least one if it is required.
multiplicityByRequired(schema, isRequired) == [ lower |-> IF isRequired THEN 1 ELSE 0, many |-> IsType(schema, "array") ]

\* The bounds of an array are its own, whether or not it is required.
multiplicityOf(schema, isRequired) ==
  IF IsType(schema, "array")
  THEN [ lower |-> IF IsGiven(schema, "minItems") THEN schema.minItems ELSE 0, many |-> TRUE ]
  ELSE [ lower |-> IF isRequired THEN 1 ELSE 0, many |-> FALSE ]

FieldOf(property, shape, multiplicity) ==
  [ said |-> shape.said, minted |-> shape.minted,
    fields |-> IF shape.said # { } THEN << >>
               ELSE << [ name |-> property, ref |-> shape.ref, lower |-> multiplicity.lower, many |-> multiplicity.many ] >> ]
lowerProperty(owner, property, schema, isRequired) ==
  FieldOf(property, LoweredShape(mintName(owner, property), schema, << "properties", property >>), multiplicityOf(schema, isRequired))

-----------------------------------------------------------------------------
(* Documents and bundles. *)

nameFromUrl(document) == IF Has(document.schema, "id") THEN document.schema.id.name ELSE document.named

DocumentRow(name, schema) ==
  FirstRow(<< << "unnamed", ~Has(schema, "semanticId") \/ schema.semanticId # name >>,
              << "misplaced", MisplacedAmong(schema, { "dialect", "id", "description", "oneOf", "semanticId" }) >>,
              << "unsealed", /\ IsType(schema, "object")
                             /\ \/ ~Has(schema, "unevaluatedProperties")
                                \/ ~IsSeal(schema.unevaluatedProperties)
                                \/ LET open == schema.unevaluatedProperties.not IN open # Mistyped /\ DOMAIN open # { } >>,
              << "record", IsType(schema, "object") >>,
              << "enum", IsType(schema, "string") /\ IsGiven(schema, "enum") >>,
              << "string", IsType(schema, "string") >>,
              << "tagged", IsGiven(schema, "oneOf") >>,
              << "untagged", IsGiven(schema, "anyOf") >>,
              << "none", TRUE >> >>)

Says(at) == [ said |-> { at }, types |-> << >> ]
Defines(types) == [ said |-> { }, types |-> types ]
RecordWith(name, lowered) ==
  LET each(Part(_)) == FlattenSeq([ k \in DOMAIN lowered |-> Part(lowered[k]) ])
  IN [ said |-> UNION { lowered[k].said : k \in DOMAIN lowered },
       types |-> << [ Definition(name, "record") EXCEPT !.fields = each(LAMBDA p : p.fields) ] >> \o each(LAMBDA p : p.minted) ]
RecordOf(name, schema) ==
  LET properties == IF Has(schema, "properties") THEN schema.properties ELSE << >>
      required == IF Has(schema, "required") THEN ToSet(schema.required) ELSE { }
  IN RecordWith(name, [ k \in DOMAIN properties |->
                          lowerProperty(name, properties[k][1], properties[k][2], properties[k][1] \in required) ])

\* A union of the document is the definition, before the scalars it mints.
LoweredDocument(document) ==
  LET schema == document.schema
      name == nameFromUrl(document)
      row == DocumentRow(name, schema)
  IN
  CASE row = "record" -> RecordOf(name, schema)
    [] row = "enum" -> Defines(<< Enum(name, schema.enum) >>)
    [] row = "string" -> Defines(<< Scalar(name, "string") >>)
    [] row = "tagged" /\ AreAdjacent(schema.oneOf) ->
         LET union == adjacentVariants(schema.oneOf, name) IN Defines(<< Last(union) >> \o Front(union))
    [] row = "untagged" /\ AreReferences(schema.anyOf) -> Defines(ReferenceUnion(schema.anyOf, name))
    [] row = "unnamed" -> Says(<< "semanticId" >>)
    [] row = "unsealed" -> Says(<< "unevaluatedProperties" >>)
    [] row \in { "misplaced", "tagged" } -> Says(<< "oneOf" >>)
    [] row = "untagged" /\ ~AreReferences(schema.anyOf) -> Says(<< "anyOf" >>)
    [] OTHER -> Says(<< >>)

\* The version is the first given document's, not the first file's.
bundleSource(documents) ==
  IF documents # << >> /\ Has(documents[1].schema, "id") THEN documents[1].schema.id.version ELSE Mistyped

Said(code, document, places) == { [ code |-> code, file |-> document.file, at |-> place ] : place \in places }
Failed(said) == [ said |-> said, types |-> << >>, source |-> Mistyped ]
ScreenedBundle(sorted, lowered, source) ==
  LET screened == UNION { Said("UNSUPPORTED_SCHEMA_KEYWORD", sorted[k], unrecognisedKeywords(sorted[k].schema, << >>))
                          \union Said("UNSUPPORTED_SCHEMA_SHAPE", sorted[k], misplacedOneOf(sorted[k].schema, << >>, "top")) :
                          k \in DOMAIN sorted }
      refused == UNION { Said("UNSUPPORTED_SCHEMA_SHAPE", sorted[k], lowered[k].said) : k \in DOMAIN sorted }
  IN IF screened # { } THEN Failed(screened)
     ELSE IF refused # { } THEN Failed(refused)
     ELSE IF source = Mistyped THEN Failed({ [ code |-> "UNSUPPORTED_SCHEMA_SHAPE", file |-> 0, at |-> << "documents" >> ] })
     ELSE [ said |-> { }, types |-> FlattenSeq([ k \in DOMAIN sorted |-> lowered[k].types ]), source |-> source ]
SortedBundle(sorted, source) == ScreenedBundle(sorted, [ k \in DOMAIN sorted |-> LoweredDocument(sorted[k]) ], source)
lowerBundle(documents, supplied) ==
  SortedBundle(SortSeq(documents, LAMBDA d, e : d.file < e.file),
               IF supplied # Mistyped THEN supplied ELSE bundleSource(documents))

\* The frontend: an empty bundle is one that failed to load.
run(documents) ==
  IF documents = << >> THEN Failed({ [ code |-> "UNSUPPORTED_SCHEMA_SHAPE", file |-> 0, at |-> << "documents" >> ] })
  ELSE lowerBundle(documents, Mistyped)
=============================================================================
