----------------------------- MODULE MCSchemas -----------------------------
(***************************************************************************)
(* Bundles of JSON Schema documents: a record T whose properties are each  *)
(* one of a set of shapes, beside a record, an enumeration, a text and one *)
(* more document of any form; what a bundle's schemas admit, and what the  *)
(* definitions it is lowered to do.                                        *)
(***************************************************************************)
EXTENDS SchemaLowering

VARIABLES
  schemas,        \* the documents, in the order they are given
  outcome         \* what the frontend answers

\* JSON values: numbers are whole but for one.
JsonOf(is, text, number, members) == [is |-> is, text |-> text, number |-> number, members |-> members]
JText(name) == JsonOf("string", name, 0, <<>>)
JWhole(n) == JsonOf("number", <<>>, n, <<>>)
JHalf == JsonOf("fraction", <<>>, 0, <<>>)
JTrue == JsonOf("boolean", <<>>, 1, <<>>)
JNothing == JsonOf("null", <<>>, 0, <<>>)
JList(values) == JsonOf("array", <<>>, 0, [k \in DOMAIN values |-> <<<<>>, values[k]>>])
JMap(members) == JsonOf("object", <<>>, 0, members)

X == <<"a">>
Y == <<"b">>
Basic == {JText(X), JText(Y), JWhole(0), JWhole(2), JHalf, JTrue, JNothing}
Tagged == {JMap(<<<<<<"kind">>, JText(X)>>>>)}
          \cup {JMap(<<<<<<"kind">>, JText(tag)>>, <<<<"value">>, v>>>>) : tag \in {X, Y}, v \in {JText(X), JWhole(2)}}
Inner == Basic \cup Tagged \cup {JMap(<<>>)}
Leaves == Inner \cup {JList(<<>>)} \cup {JList(<<v>>) : v \in Inner} \cup {JList(<<JText(X), v>>) : v \in Basic}
Holding == {JMap(<<>>), JMap(<<<<<<"d">>, JText(X)>>>>)} \cup {JMap(<<<<X, v>>>>) : v \in Leaves}
           \cup {JMap(<<<<X, v>>, <<<<"d">>, w>>>>) : v \in {JText(X), JWhole(2)}, w \in {JText(X), JWhole(0)}}
AllValues == Leaves \cup Holding

Closed == [not |-> <<>>]
Primitive(type) == [type |-> type]
RefTo(name) == [ref |-> name]
Branch(tag, payload) ==
  [type |-> "object", unevaluatedProperties |-> Closed,
   properties |-> <<<<<<"kind">>, [const |-> tag]>>>> \o payload,
   required |-> <<<<"kind">>>> \o [k \in DOMAIN payload |-> <<"value">>]]
Carries(schema) == <<<<<<"value">>, schema>>>>
Branches == {Branch(X, <<>>), Branch(X, Carries(Primitive("string"))), Branch(Y, Carries(RefTo(<<"S">>))),
             [Branch(Y, Carries(Primitive("integer"))) EXCEPT !.required = <<<<"kind">>>>],
             [Branch(Y, <<>>) EXCEPT !.unevaluatedProperties = [not |-> Mistyped]]}
OneOfs == {<<Branch(X, <<>>)>>} \cup {<<p, q>> : p, q \in Branches}
AnyOfs == {<<RefTo(<<"S">>), RefTo(<<"A">>)>>, <<Primitive("string"), Primitive("integer")>>,
           <<Primitive("boolean")>>, <<RefTo(<<"S">>), Primitive("integer")>>}
Strings == {Primitive("string"), [type |-> "string", pattern |-> "p"], [type |-> "string", const |-> X],
            [type |-> "string", enum |-> <<X, Y>>], [type |-> "string", const |-> Mistyped]}
Numbers == {Primitive("integer"), [type |-> "integer", minimum |-> 1], [type |-> "integer", maximum |-> 1],
            [type |-> "integer", minimum |-> 1, maximum |-> 1], Primitive("number"), [type |-> "number", minimum |-> 1],
            Primitive("boolean")}
Positions == {RefTo(<<"A">>), RefTo(<<"S">>)} \cup {[anyOf |-> branches] : branches \in AnyOfs}
             \cup {[oneOf |-> branches] : branches \in OneOfs}
Items == Positions \cup {Primitive("string"), Primitive("integer"), [type |-> "string", minLength |-> 1]}
Arrays == {[type |-> "array", items |-> items] : items \in Items}
          \cup {[type |-> "array", items |-> items, minItems |-> 1] : items \in {RefTo(<<"S">>), Primitive("string")}}
          \cup {Primitive("array")}
Others == {[format |-> "f"], [const |-> X],
           [type |-> "array", items |-> [type |-> "array", items |-> [oneOf |-> Mistyped]]]}
Siblings == {[ref |-> <<"S">>, minimum |-> 1], [anyOf |-> <<RefTo(<<"S">>)>>, type |-> "string"],
             [type |-> "integer", enum |-> <<X>>]}
Shapes == Positions \cup Strings \cup Numbers \cup Arrays \cup Others \cup Siblings
\* Those that hold the schema of no keywords (apart: TLC orders no set of both).
Empties == <<<<>>, [type |-> "array", items |-> <<>>], [type |-> "object", properties |-> <<<<<<"oneOf">>, <<>>>>>>]>>

Headed(name, schema) == [id |-> [version |-> "1", name |-> name], semanticId |-> name] @@ schema
Sealed(properties, required) ==
  [type |-> "object", properties |-> properties, required |-> required, unevaluatedProperties |-> Closed]
File(name) == CHOOSE k \in 1..5 : <<<<"A">>, <<"S">>, <<"T">>, <<"T", "A">>, <<"U">>>>[k] = name
Document(name, schema) == [file |-> File(name), named |-> name, schema |-> schema]
Headline(name, schema) == Document(name, Headed(name, schema))

Beside == <<Headline(<<"A">>, Sealed(<<<<<<"d">>, Primitive("string")>>>>, <<>>)),
            Headline(<<"S">>, [type |-> "string", enum |-> <<X>>])>>
T(properties, required) == Headline(<<"T">>, Sealed(properties, required))
Forms ==
  {[type |-> "string"], [type |-> "string", pattern |-> "p"], [type |-> "integer"], [description |-> "d"],
   [anyOf |-> <<RefTo(<<"S">>), Primitive("string")>>], [oneOf |-> Mistyped],
   [type |-> "object", properties |-> <<>>],
   [Sealed(<<>>, <<>>) EXCEPT !.unevaluatedProperties = [type |-> "string"]],
   [Sealed(<<>>, <<>>) EXCEPT !.unevaluatedProperties = [not |-> Primitive("string")]],
   Sealed(<<<<X, Primitive("string")>>>>, <<X, X>>)}
  \cup {[anyOf |-> branches] : branches \in AnyOfs} \cup {[oneOf |-> branches] : branches \in OneOfs}
Fourth == {Headline(<<"U">>, form) : form \in Forms}
          \cup {Document(<<"U">>, [semanticId |-> <<"U">>, type |-> "string"]),
                Document(<<"U">>, [Headed(<<"U">>, Primitive("string")) EXCEPT !.semanticId = X]),
                Headline(<<"T", "A">>, Primitive("string"))}

NotRun == [said |-> {}, types |-> <<>>, source |-> "not run"]
SchemasIdle == schemas = <<>> /\ outcome = NotRun
SchemasInit == schemas = Append(Beside, T(<<>>, <<>>)) /\ outcome = NotRun

Described == schemas[3].schema.properties
Second == {<<<<"d">>, Primitive("string")>>, <<<<"A">>, Primitive("string")>>, <<<<"a", "string">>, Primitive("integer")>>}

\* A property is added to T, or a document to the bundle.
Describe ==
  /\ Len(schemas) = 3 /\ outcome = NotRun /\ UNCHANGED outcome
  /\ \E required \in {<<>>, <<X>>} :
       \/ Described = <<>> /\ \E shape \in Shapes : schemas' = [schemas EXCEPT ![3] = T(<<<<X, shape>>>>, required)]
       \/ Described = <<>> /\ \E k \in DOMAIN Empties : schemas' = [schemas EXCEPT ![3] = T(<<<<X, Empties[k]>>>>, required)]
       \/ /\ Len(Described) = 1 /\ required = schemas[3].schema.required
          /\ \E second \in Second, also \in BOOLEAN :
               schemas' = [schemas EXCEPT ![3] = T(Append(Described, second), required \o IF also THEN <<second[1]>> ELSE <<>>)]
Accompany ==
  /\ Len(schemas) = 3 /\ Len(Described) <= 1 /\ outcome = NotRun /\ UNCHANGED outcome
  /\ \E document \in Fourth :
       /\ Described # <<>> => document.named = <<"T", "A">>
       /\ schemas' = Append(schemas, document)
Reversion ==
  /\ schemas # <<>> /\ outcome = NotRun /\ UNCHANGED outcome
  /\ Described = <<>> /\ schemas[1].schema.id.version = "1"
  /\ \E version \in {"2", Mistyped} : schemas' = [schemas EXCEPT ![1].schema.id.version = version]
RunFrontend == outcome = NotRun /\ schemas # <<>> /\ outcome' = run(schemas) /\ UNCHANGED schemas
SchemasNext == Describe \/ Accompany \/ Reversion \/ RunFrontend

SchemaNamed(name) == schemas[CHOOSE k \in DOMAIN schemas : nameFromUrl(schemas[k]) = name].schema
TypeNamed(name) == outcome.types[CHOOSE k \in DOMAIN outcome.types : outcome.types[k].name = name]
Lifted == schemas # <<>> /\ outcome # NotRun /\ outcome.said = {}
Members(v) == NamesIn(v.members)
Member(v, name) == Property(v.members, name)

\* What a schema admits, by the vocabulary of JSON Schema 2020-12.
IsOf(v, type) ==
  CASE type = "integer" -> v.is = "number"
    [] type = "number" -> v.is \in {"number", "fraction"}
    [] OTHER -> v.is = type
RECURSIVE Admits(_, _)
Admits(schema, v) ==
  LET has(keyword) == keyword \in DOMAIN schema IN
  /\ has("ref") => Admits(SchemaNamed(schema.ref), v)
  /\ has("type") => IsOf(v, schema.type)
  /\ has("const") => v = JText(schema.const)
  /\ has("enum") => \E k \in DOMAIN schema.enum : v = JText(schema.enum[k])
  /\ has("anyOf") => \E k \in DOMAIN schema.anyOf : Admits(schema.anyOf[k], v)
  /\ has("oneOf") => Cardinality({k \in DOMAIN schema.oneOf : Admits(schema.oneOf[k], v)}) = 1
  /\ v.is = "object" =>
       LET properties == IF has("properties") THEN schema.properties ELSE <<>> IN
       /\ has("required") => ToSet(schema.required) \subseteq Members(v)
       /\ \A name \in NamesIn(properties) \cap Members(v) : Admits(Property(properties, name), Member(v, name))
       /\ has("unevaluatedProperties") => Members(v) \subseteq NamesIn(properties)
  /\ v.is = "array" =>
       /\ has("items") => \A k \in DOMAIN v.members : Admits(schema.items, v.members[k][2])
       /\ has("minItems") => Len(v.members) >= schema.minItems
  /\ v.is = "string" => (has("pattern") => v.text = Y) /\ (has("minLength") => Len(v.text) > schema.minLength)
  /\ v.is = "number" => (has("minimum") => v.number >= schema.minimum) /\ (has("maximum") => v.number <= schema.maximum)
  /\ v.is = "fraction" => ~has("minimum")

\* What a lowered type admits: a union that is not marked untagged travels as
\* an object of its variant's name and value.
RECURSIVE Inhabits(_, _)
Inhabits(name, v) ==
  LET type == TypeNamed(name)
      carries(field, w) ==
        IF field.many THEN w.is = "array" /\ Len(w.members) >= field.lower
                           /\ \A k \in DOMAIN w.members : Inhabits(field.ref, w.members[k][2])
        ELSE Inhabits(field.ref, w)
      fields == {type.fields[k] : k \in DOMAIN type.fields}
      variants == {type.variants[k] : k \in DOMAIN type.variants}
  IN
  CASE type.kind = "scalar" ->
         /\ IsOf(v, IF type.scalar = "float64" THEN "number" ELSE type.scalar)
         /\ \A k \in DOMAIN type.bounds :
              IF type.bounds[k][1] = "min" THEN v.number >= type.bounds[k][2] ELSE v.number <= type.bounds[k][2]
    [] type.kind = "enum" -> \E w \in variants : v = JText(w.name)
    [] type.kind = "union" /\ type.untagged -> \E w \in variants : Inhabits(w.payload, v)
    [] type.kind = "union" /\ ~type.untagged ->
         v.is = "object" /\ \E w \in variants :
           /\ Members(v) = {<<"kind">>} \cup {n \in {<<"value">>} : w.payload # <<>>}
           /\ Member(v, <<"kind">>) = JText(w.name)
           /\ w.payload # <<>> => Inhabits(w.payload, Member(v, <<"value">>))
    [] type.kind = "record" ->
         /\ v.is = "object"
         /\ type.preserve \/ Members(v) \subseteq {f.name : f \in fields}
         /\ \A f \in fields : IF f.name \in Members(v) THEN carries(f, Member(v, f.name)) ELSE f.lower = 0

\* The keywords the row that takes a schema says something with.  The rest of
\* its keywords go unsaid: json-schema/lower.mjs:488 names pattern and minLength, and the siblings of a reference or a union, or
\* of an integer's bounds, are as lost.
Heading == {"id", "dialect", "semanticId", "description"}
Spoken(row) ==
  CASE row = "ref" -> {"ref"} [] row = "tagged" -> {"oneOf"} [] row = "untagged" -> {"anyOf"}
    [] row = "constant" -> {"type", "const"} [] row = "enum" -> {"type", "enum"}
    [] row = "integer" -> {"type", "minimum", "maximum"} [] row = "array" -> {"type", "items", "minItems"}
    [] row = "record" -> {"type", "properties", "required", "unevaluatedProperties"}
    [] OTHER -> {"type"}
SaysAll(schema, row) == DOMAIN schema \subseteq Spoken(row) \cup Heading
PropertySaysAll(schema) ==
  LET row == PropertyRow(schema)
  IN SaysAll(schema, row) /\ (row = "array" => SaysAll(schema.items, ItemRow(schema.items)))
DocumentSaysAll(d) ==
  LET row == DocumentRow(nameFromUrl(d), d.schema) IN
  /\ SaysAll(d.schema, row)
  /\ row = "record" => /\ \A k \in DOMAIN d.schema.properties : PropertySaysAll(d.schema.properties[k][2])
                       /\ ToSet(d.schema.required) \subseteq NamesIn(d.schema.properties)
Present(d, v) == "required" \in DOMAIN d.schema /\ v.is = "object" => ToSet(d.schema.required) \subseteq Members(v)
Repeated == \E j, k \in DOMAIN outcome.types : j # k /\ outcome.types[j].name = outcome.types[k].name
Whole == {k \in DOMAIN schemas : DocumentSaysAll(schemas[k])}

\* A bundle that is lowered admits nothing its schemas refuse: "IR quietly less
\* constrained than its source" (lower.mjs, lowerBundle) is what the refusals
\* are for.  The one declared loss is that a required array may be absent.
NeverLooser ==
  Lifted /\ ~Repeated =>
    \A k \in Whole : \A v \in AllValues :
      Present(schemas[k], v) /\ Inhabits(nameFromUrl(schemas[k]), v) => Admits(schemas[k].schema, v)

\* Nor does it refuse what they admit, but for the declared narrowing of {} to
\* objects, and an optional array that may not be empty.
Narrows(shape, isRequired) == DOMAIN shape = {} \/ ("minItems" \in DOMAIN shape /\ ~isRequired)
NeverTighter ==
  Lifted /\ ~Repeated =>
    \A k \in Whole :
      LET schema == schemas[k].schema IN
      ~("properties" \in DOMAIN schema /\ \E j \in DOMAIN schema.properties :
            Narrows(schema.properties[j][2], schema.properties[j][1] \in ToSet(schema.required)))
      => \A v \in AllValues : Admits(schema, v) => Inhabits(nameFromUrl(schemas[k]), v)

\* The positions of a bundle that take a name: its documents, its anonymous
\* shapes, and the primitive branches below them.
At(owner, path) == [owner |-> owner, path |-> path]
BranchPositions(owner, path, shape) ==
  IF "oneOf" \in DOMAIN shape
  THEN {At(owner, Append(path, TagOf(b))) : b \in {b \in ToSet(shape.oneOf) : HasPayload(b) /\ ~IsReference(PayloadOf(b))}}
  ELSE IF "anyOf" \in DOMAIN shape THEN {At(owner, Append(path, <<b.type>>)) : b \in {b \in ToSet(shape.anyOf) : ~IsReference(b)}}
  ELSE {}
ShapePositions(owner, property, schema) ==
  LET shape == IF PropertyRow(schema) = "array" THEN schema.items ELSE schema
  IN IF "ref" \in DOMAIN shape THEN {} ELSE {At(owner, <<property>>)} \cup BranchPositions(owner, <<property>>, shape)
DocumentPositions(d) ==
  LET name == nameFromUrl(d) IN
  {At(name, <<>>)} \cup BranchPositions(name, <<>>, d.schema)
  \cup (IF "properties" \in DOMAIN d.schema
        THEN UNION {ShapePositions(name, d.schema.properties[k][1], d.schema.properties[k][2]) : k \in DOMAIN d.schema.properties}
        ELSE {})
\* Two definitions come to one name exactly where mintCollisions would have
\* said so, had the lowering asked it (mint.mjs).
CollisionsAreForetold ==
  Lifted => (Repeated <=> mintCollisions(UNION {DocumentPositions(d) : d \in ToSet(schemas)}) # {})

\* What a lowered bundle refers to is in it.
SchemaRefsResolve ==
  Lifted =>
    LET names == {type.name : type \in ToSet(outcome.types)} IN
    \A type \in ToSet(outcome.types) :
      /\ \A field \in ToSet(type.fields) : field.ref \in names
      /\ \A variant \in ToSet(type.variants) : variant.payload # <<>> => variant.payload \in names

\* The order the documents are given in changes nothing, unless they are of
\* different versions: the bundle is named by the first one given.
VersionOf(k) == IF "id" \in DOMAIN schemas[k].schema THEN schemas[k].schema.id.version ELSE Mistyped
AsGiven(other) ==
  /\ (\A j, k \in DOMAIN schemas : VersionOf(j) = VersionOf(k)) => other = outcome
  /\ Lifted /\ other.said = {} => other.types = outcome.types
GivenOrderFree == schemas # <<>> /\ outcome # NotRun => AsGiven(run(Reverse(schemas)))
=============================================================================
