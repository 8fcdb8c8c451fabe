---------------------------- MODULE MCLowering ----------------------------
(***************************************************************************)
(* The ways into the IR: every short name, every pair of nodes of a small  *)
(* set and every program of a few declarations (Identities,                *)
(* TypeSpecLowering), bundles of documents (ArtifactLowering), answers     *)
(* kept along references (TypeRefs) and bundles of schemas (MCSchemas).    *)
(***************************************************************************)
EXTENDS TypeSpecLowering, ArtifactLowering, TypeRefs, TLC

CONSTANTS NameLength, ProgramLength

VARIABLES
  family,             \* "name", "nodes", "members" or "program"
  input,              \* the characters, nodes, members or declarations so far
  lowered             \* what the program they make is lowered to

frontendsVars == << family, input, lowered >>

-----------------------------------------------------------------------------
(* Names and nodes. *)

Characters == { "a", "B", "1", "_", "-", "." }
Ids == { << "A" >>, << "A", "_", "1" >>, << "A", "B" >>, << "A", "-", "b" >>, << "constraint" >> }
MemberNames == { << "b" >>, << "B" >>, << "a", "_", "b" >>, << "a", "1" >> }
Keywords == { << "min" >>, << "nonEmpty" >> }
Nodes ==
  { << "type", id >> : id \in Ids } \union { << "alias", id, field >> : id \in Ids, field \in MemberNames }
  \union { << slot, id, field >> : slot \in { "field", "variant" }, id \in Ids, field \in MemberNames }
  \union { << "parameter", id, operation, name >> : id \in Ids, operation \in { << "b" >>, << "A" >> }, name \in MemberNames \union Keywords }
  \union { << "constraint", id, field, keyword >> : id \in Ids, field \in MemberNames, keyword \in Keywords }
  \union { << "typeConstraint", id, keyword >> : id \in Ids, keyword \in Keywords }
  \union { << "relationship", id, verb, target >> : id \in Ids, verb \in MemberNames, target \in Ids }
RustIdentity(node) ==
  CASE node[1] = "type" -> type_identity(node[2])
    [] node[1] = "alias" -> alias_identity(node[2], node[3])
    [] node[1] = "field" -> member_identity(node[2], node[3])
    [] node[1] = "variant" -> variant_identity(node[2], node[3])
    [] node[1] = "parameter" -> param_identity(node[2], node[3], node[4])
    [] node[1] = "constraint" -> constraint_identity(node[2], node[3], node[4])
    [] node[1] = "typeConstraint" -> type_constraint_identity(node[2], node[3])
    [] node[1] = "relationship" -> relationship_identity(node[2], node[3], node[4])

-----------------------------------------------------------------------------
(* Programs. *)

NamedType(of, name) == [ of |-> of, name |-> name ]
Builtin(name) == NamedType("builtin", << name >>)
Declared(name) == NamedType("declared", name)
Member ==
  [ name |-> << "b" >>, type |-> Builtin("string"), nullable |-> FALSE, many |-> FALSE, optional |-> FALSE, own |-> {},
    multiplicity |-> << >>, presence |-> Unset, collection |-> << >>, decimal |-> << >>,
    defaulted |-> FALSE, defaultKind |-> Unset, unit |-> FALSE, valued |-> FALSE ]
MemberOf(name, type) == [ Member EXCEPT !.name = name, !.type = type ]
FieldNames == { << "b" >>, << "B" >>, << "a", "_", "b" >>, << "a", "_", "_", "b" >> }
FieldTypes == { Builtin("int8"), Builtin("int16"), Builtin("decimal"), Builtin("string"), Builtin("plainDate"), Builtin("numeric"),
                Declared(<< "A" >>), Declared(<< "S" >>), NamedType("unmapped", << >>), NamedType("anonymous", << >>), NamedType("unknown", << >>) }
Owns == { {}, { << "min", "1" >> }, { << "min", "1" >>, << "max", "2" >> }, { << "pattern", "x" >> }, { << "nonEmpty", "0" >> }, { << "nonEmpty", "1" >> } }
Authored ==
  { Member, [ Member EXCEPT !.multiplicity = << 0, 1 >>, !.optional = TRUE ], [ Member EXCEPT !.multiplicity = << 0, 1 >> ],
    [ Member EXCEPT !.multiplicity = << 2, 1 >> ], [ Member EXCEPT !.many = TRUE, !.collection = << TRUE, TRUE >>, !.optional = TRUE ],
    [ Member EXCEPT !.collection = << TRUE, FALSE >>, !.nullable = TRUE ], [ Member EXCEPT !.decimal = << 3, 1 >> ],
    [ Member EXCEPT !.decimal = << 1, 3 >> ], [ Member EXCEPT !.defaultKind = "wire" ], [ Member EXCEPT !.unit = TRUE ],
    [ Member EXCEPT !.multiplicity = << 0, Unbounded >>, !.presence = "required", !.defaulted = TRUE ] }
\* The compiler has checked the decorators against the type they are given:
\* bounds on a number, a pattern on a string, a number of items on a sequence.
Fits(own, type, many) ==
  \A c \in own : CASE c[1] = "nonEmpty" -> many [] many -> FALSE
                   [] c[1] = "pattern" -> type = Builtin("string") \/ type.of = "declared"
                   [] OTHER -> type.of = "declared" \/ (type.of = "builtin" /\ type # Builtin("string"))
\* A member of any type and bounds, and of any authoring.
MemberNodes ==
  { [ MemberOf(name, type) EXCEPT !.own = own ] : name \in FieldNames, type \in { Builtin("int8"), Builtin("int16") },
                                                           own \in { own \in Owns : Fits(own, Builtin("int8"), FALSE) } }
  \union { [ m[1] EXCEPT !.type = m[2], !.own = m[3] ] :
             m \in { m \in Authored \X FieldTypes \X Owns : Fits(m[3], m[2], m[1].many) } }
  \union { MemberOf(name, Builtin("int16")) : name \in { << "int8" >>, << "a", "-", "b" >> } }

Decl(name, kind) ==
  [ name |-> name, kind |-> kind, template |-> FALSE, value |-> Builtin("string"), own |-> {}, members |-> << >>,
    clauses |-> << >>, relations |-> << >>, operations |-> << >> ]
Operation0 == [ name |-> << "b" >>, params |-> << >>, pre |-> {}, post |-> {}, returns |-> NamedType("anonymous", << >>) ]
\* The declarations of programs, in name order.
TypeNames == << << "A" >>, << "A", "B" >>, << "A", "_", "B" >>, << "A", "_", "_", "B" >>, << "A", "b" >>, << "Integer" >>, << "S" >> >>
Bodies(name) ==
  { [ Decl(name, "record") EXCEPT !.members = << MemberOf(member, Builtin(type)) >> ] :
      member \in { << "b" >>, << "B" >> }, type \in { "int8", "string" } }
  \union
  { [ Decl(name, "record") EXCEPT !.operations =
        << [ Operation0 EXCEPT !.params = << MemberOf(<< "b" >>, Builtin("int8")) >>, !.returns = Builtin("int16"), !.pre = { << "c" >> } ] >>,
      !.clauses = clauses, !.relations = << [ verb |-> << "r" >>, target |-> << "S" >>, inverse |-> "part_of", bounds |-> << 1 >> ] >> ] :
      clauses \in { << << "c" >> >>, << << "d" >> >>, << << "c" >>, << "c" >> >> } }
  \union { [ Decl(name, kind) EXCEPT !.value = value ] :
             kind \in { "sequence", "map" }, value \in { Builtin("int8"), Declared(<< "S" >>), NamedType("anonymous", << >>) } }
  \union { [ Decl(name, "scalar") EXCEPT !.value = value, !.own = own ] :
             value \in { Builtin("int8"), Builtin("string"), NamedType("unmapped", << >>) }, own \in { {}, { << "min", "1" >> } } }
  \union { [ Decl(name, "alias") EXCEPT !.value = Declared(<< "S" >>), !.own = { << "max", "2" >> } ] }
  \union { [ Decl(name, "enum") EXCEPT !.members = << [ Member EXCEPT !.valued = valued ] >> ] : valued \in BOOLEAN }
  \union { [ Decl(name, "union") EXCEPT !.members = << MemberOf(<< "b" >>, Builtin("int16")), MemberOf(variant, type) >> ] :
             variant \in { << "c" >>, << >> }, type \in { Builtin("string"), NamedType("anonymous", << >>) } }
  \union { [ Decl(name, "reference") EXCEPT !.members = members ] : members \in { << >>, << Member >> } }
  \union { Decl(name, "unsupported"), [ Decl(name, "record") EXCEPT !.template = TRUE ] }
Rank(name) == CHOOSE k \in DOMAIN TypeNames : TypeNames[k] = name

S(value) == [ Decl(<< "S" >>, "scalar") EXCEPT !.value = value ]
\* Members are those of a record and the parameters of an operation.
ProgramOf(of, some) ==
  IF of = "members"
  THEN << [ Decl(<< "A" >>, "record") EXCEPT !.members = some ],
          [ Decl(<< "B" >>, "record") EXCEPT !.operations = << [ Operation0 EXCEPT !.params = some ] >> ], S(Builtin("int8")) >>
  ELSE IF of = "program" THEN some ELSE << >>
Program == ProgramOf(family, input)

\* What is authored is written piece by piece and lowered.
Unlowered == [ unlowered |-> TRUE ]
FrontendsIdle == family = "idle" /\ input = << >> /\ lowered = Unlowered
FrontendsInit == family \in { "name", "nodes", "members", "program" } /\ input = << >> /\ lowered = Unlowered
Grow ==
  \/ /\ family = "name" /\ Len(input) < NameLength
     /\ \E c \in Characters : input' = Append(input, c)
  \/ /\ family = "nodes" /\ Len(input) < 1
     /\ \E node \in Nodes : input' = << node >>
  \/ /\ family = "members" /\ Len(input) < 2
     /\ \E member \in MemberNodes :
          /\ Len(input) = 1 => member.name # input[1].name /\ HasWidth(builtinBase(<< >>, input[1].type)) /\ HasWidth(builtinBase(<< >>, member.type))
          /\ input' = Append(input, member)
  \/ /\ family = "program" /\ Len(input) < ProgramLength
     /\ \E k \in DOMAIN TypeNames : \E declaration \in Bodies(TypeNames[k]) :
          /\ input # << >> => Rank(Last(input).name) < k
          /\ input' = Append(input, declaration)
Author == lowered = Unlowered /\ Grow /\ UNCHANGED << family, lowered >>
Lower == family \in { "members", "program" } /\ lowered = Unlowered /\ lowered' = lowerProgram(Program) /\ UNCHANGED << family, input >>
FrontendsNext == Author \/ Lower

-----------------------------------------------------------------------------
(* Identities. *)

\* Reference: the runs of letters and digits of a name, joined by hyphens.
RunStarts(name) == { k \in DOMAIN name : name[k] \in Alphanumerics /\ (k = 1 \/ name[k - 1] \notin Alphanumerics) }
RunAt(name, k) ==
  LET ends == { j \in k .. Len(name) : name[j] \notin Alphanumerics } IN
  SubSeq(name, k, IF ends = {} THEN Len(name) ELSE Min(ends) - 1)
RunsJoined(name) == Joined([ k \in 1 .. Cardinality(RunStarts(name)) |-> RunAt(name, SetToSortSeq(RunStarts(name), <)[k]) ], "-")

\* Both slugs of a name are its runs of letters and digits joined by hyphens,
\* by a fold that looks ahead and by two replacements.
SlugsAgree == family = "name" => slug(input) = RunsJoined(input) /\ JsSlug(input) = slug(input)

IsPlain(name) == ToSet(name) \subseteq Alphanumerics
\* A name the TypeSpec frontend, which slugs it, and the Rust one, which keeps
\* an artifact id, come to one segment for.
OwnSlug(name) == name # << >> /\ JsSlug(name) = name

\* For a type whose name has a letter or a digit, as both frontends ask first:
\* a member, and the code of a constraint, are one for both whatever the names
\* hold, or refused by both.  The type itself, the alias of a field, a field's
\* constraint, a variant and a relationship are one exactly where each type
\* named is its own slug and each other part has one: A_B is A-B from TypeSpec
\* and A_B from Markdown (contracts-v1.md:206).  There its members, which keep
\* A_B, are not under the identity of their type; and a type's own constraint
\* is never one, as TypeSpec makes no use of the slot for it (lower.mjs:1512).
MintersAgree ==
  family = "name" =>
    \A owner \in { owner \in { << "A" >>, << "A", "B" >>, << "A", "_", "1" >>, input } : type_identity(owner) # NoSegment } :
      /\ mintIdentity("type", << owner >>) = type_identity(owner) <=> OwnSlug(owner)
      /\ LET minted == member_identity(owner, input) IN
         /\ mintIdentity("field", << owner, input >>) = (IF minted = NoSegment THEN Thrown ELSE minted)
         /\ minted # NoSegment =>
              (minted = Joined(<< mintIdentity("type", << owner >>), input >>, "/") <=> OwnSlug(owner))
      /\ LET whole == OwnSlug(owner) /\ slug(input) # NoSegment IN
         /\ mintIdentity("constraint", << owner, input, << "min" >> >>) = constraint_identity(owner, input, << "min" >>) <=> whole
         /\ mintIdentity("variant", << owner, input >>) = variant_identity(owner, input) <=> whole
         /\ slug(input) # NoSegment => (typeIdentity(FlatName(<< owner, input >>)) = alias_identity(owner, input) <=> whole)
         /\ \A target \in { << "A" >>, << "A", "_", "1" >> } :
              mintIdentity("relationship", << owner, input, target >>) = relationship_identity(owner, input, target)
                <=> whole /\ OwnSlug(target)
      /\ slug(input) # NoSegment => constraintDiagnosticCode(<< owner, input >>, << "min" >>) = diagnostic_code(owner, input, << "min" >>)
      /\ mintIdentity("constraint", << owner, << "min" >> >>) # type_constraint_identity(owner, << "min" >>)

\* Two nodes of a package mint one identity only if one is an alias, or their
\* names differ in separators alone, or one hangs off a type named as a slot.
Parts(node) == [ k \in DOMAIN node |-> IF k = 1 THEN << node[1] >> ELSE slug(node[k]) ]
MintsApart ==
  family = "nodes" /\ input # << >> =>
    \A node \in Nodes \ { input[1] } :
      RustIdentity(node) = RustIdentity(input[1]) =>
        \/ "alias" \in { node[1], input[1][1] }
        \/ Parts(node) = Parts(input[1])
        \/ << "constraint" >> \in { node[2], input[1][2] }

-----------------------------------------------------------------------------
(* TypeSpecLowering. *)

Clean(s) == s.said = {}

\* Where a value of some type is declared, the alias its width would be given,
\* and what its reference came out as.
ValueSite(at, type, own, alias, ref) == [ at |-> at, type |-> type, own |-> own, alias |-> alias, ref |-> ref ]
RefNodes(nodes, name, Ref(_)) == { Ref(node) : node \in { node \in nodes : node.name = name } }
FieldSites(owner, members, nodes) ==
  UNION { { ValueSite(Append(owner, members[k].name), members[k].type, members[k].own, Site(Program, owner, members[k]).alias, ref) :
              ref \in RefNodes(nodes, members[k].name, LAMBDA field : field.typeRef) } : k \in DOMAIN members }
OperationSites(d, op, nodes) ==
  FieldSites(<< d.name, op.name >>, op.params, UNION { node.params : node \in nodes })
  \union { ValueSite(<< d.name, op.name >>, op.returns, {}, typeIdentity(FlatName(<< d.name, op.name, << "Return" >> >>)), node.returns) : node \in nodes }
SitesOf(d, definition) ==
  CASE d.kind \in { "sequence", "map" } ->
         { ValueSite(<< d.name >>, d.value, {}, typeIdentity(FlatName(<< d.name, << IF d.kind = "map" THEN "values" ELSE "items" >> >>)), definition.items) }
    [] d.kind = "union" ->
         UNION { { ValueSite(<< d.name, d.members[k].name >>, d.members[k].type, {}, typeIdentity(FlatName(<< d.name, d.members[k].name >>)), ref) :
                     ref \in RefNodes(definition.variants, d.members[k].name, LAMBDA variant : variant.payload) } : k \in DOMAIN d.members }
    [] d.kind = "record" ->
         FieldSites(<< d.name >>, d.members, definition.fields)
         \union UNION { OperationSites(d, d.operations[k], definition.operations) : k \in DOMAIN d.operations }
    [] OTHER -> {}
Sites ==
  UNION { SitesOf(Program[k], lowered.definitions[typeIdentity(Program[k].name)]) : k \in DOMAIN Program }
Wide(site) == HasWidth(builtinBase(Program, site.type)) /\ site.type.of = "builtin"
WideSites == { site \in Sites : Wide(site) }

\* A declaration and an alias, or the aliases of two sites, have one identity.
CollidingOf(sites) ==
  LET minted == { << "declared", << >>, typeIdentity(Program[k].name) >> : k \in DOMAIN Program }
                \union { << "alias", site.at, site.alias >> : site \in sites }
                \union { << "Integer", << >>, << "Integer" >> >> : site \in sites } IN
  Cardinality({ m[3] : m \in minted }) < Cardinality(minted)
\* A member named as a built-in width is taken for one (see the README).
WidthNamed == family = "members" /\ \E k \in DOMAIN input : IsBuiltinName(input[k].name)
Accepted == family \in { "members", "program" } /\ lowered # Unlowered /\ Clean(lowered)
Collides == CollidingOf(WideSites)
Sound(sites) == ~WidthNamed /\ ~CollidingOf(sites)

\* Every place a value of a built-in integer width is declared refers to a
\* definition that carries its bounds, those its decorators narrow narrowed.
WidthsAreKept(sites) ==
    \A site \in sites :
      LET width == BUILTIN_INTEGER_BOUNDS[site.type.name[1]]
          definition == lowered.definitions[site.ref] IN
      /\ site.ref \in DOMAIN lowered.definitions
      /\ { << c.keyword, c.value >> : c \in definition.constraints }
           = (site.own \ { << "nonEmpty", "0" >> }) \union { << b, width[b] >> : b \in { b \in { "min", "max" } : \A c \in site.own : c[1] # b } }
      /\ resolvedKindOf(lowered, site.ref) = [ kind |-> "scalar", scalar |-> "integer" ]
      /\ lowered.definitions[definition.target].constraints = {}

\* A program nothing was said of is lowered in full: every declaration has its
\* definition, every member its field, every operation and variant its own.
NothingIsLost ==
    \A k \in DOMAIN Program :
      LET d == Program[k]
          definition == lowered.definitions[typeIdentity(d.name)] IN
      /\ typeIdentity(d.name) \in DOMAIN lowered.definitions
      /\ definition.displayName = d.name /\ definition.kind = d.kind
      /\ d.kind \in { "enum", "union" } =>
           { v.name : v \in definition.variants } = { d.members[j].name : j \in DOMAIN d.members }
      /\ d.kind = "record" =>
           /\ { field.name : field \in definition.fields } = { d.members[j].name : j \in DOMAIN d.members }
           /\ { << op.name, Cardinality(op.params), op.pre >> : op \in definition.operations }
                = { << d.operations[j].name, Len(d.operations[j].params), d.operations[j].pre >> : j \in DOMAIN d.operations }
           /\ Cardinality(definition.clauses) = Len(d.clauses)
      /\ { c.keyword : c \in definition.constraints } = { c[1] : c \in constraintsOf(OwnBase(Program, d), d.own) }

\* A reference of an accepted program is native or names a definition.
DefinitionRefs(definition) ==
  { definition.target, definition.items } \union { v.payload : v \in definition.variants }
  \union { field.typeRef : field \in definition.fields \union UNION { op.params : op \in definition.operations } }
  \union { op.returns : op \in definition.operations }
RefsResolve ==
  \A i \in DOMAIN lowered.definitions : \A ref \in DefinitionRefs(lowered.definitions[i]) :
                ref = NoRef \/ IsNative(ref) \/ ref \in DOMAIN lowered.definitions

\* No node carries two constraints of one keyword, and each says it applies to
\* the node that carries it and does apply to that node's type.
HoldersOf(definition) ==
  { << definition.identity, definition.identity, definition.constraints >> }
  \union { << field.identity, field.typeRef, field.constraints >> :
             field \in definition.fields \union UNION { op.params : op \in definition.operations } }
OneBoundPerKeyword ==
    \A i \in DOMAIN lowered.definitions : \A holder \in HoldersOf(lowered.definitions[i]) :
      /\ \A c \in holder[3] : c.appliesTo = holder[1] /\ applies(c.keyword, resolvedKindOf(lowered, holder[2]))
      /\ \A c, d \in holder[3] : c.keyword = d.keyword => c = d

\* No two nodes of an accepted document mint one identity, when the names of
\* its types are letters and digits.
NodesOf(definition) ==
  { << definition.identity, "type" >> } \union { << v.identity, "variant" >> : v \in definition.variants }
  \union { << field.identity, "field" >> : field \in definition.fields }
  \union UNION { { << op.identity, "operation" >> } \union { << p.identity, "parameter" >> : p \in op.params } : op \in definition.operations }
  \union { << c, "clause" >> : c \in definition.clauses } \union { << r.identity, "relationship" >> : r \in definition.relationships }
  \union UNION { { << c.identity, << holder[1], c.keyword, c.value >> >> : c \in holder[3] } : holder \in HoldersOf(definition) }
IdentitiesAreOnce ==
  (\A k \in DOMAIN Program : IsPlain(Program[k].name)) =>
    LET nodes == UNION { { << node, i >> : node \in NodesOf(lowered.definitions[i]) } : i \in DOMAIN lowered.definitions } IN
    Cardinality({ node[1][1] : node \in nodes }) = Cardinality(nodes)

\* contracts-v1.md: two nodes of one identity are refused.
CollisionsAreRefused == Accepted /\ family = "program" => ~Collides

-----------------------------------------------------------------------------
(***************************************************************************)
(* Bundles of up to three documents, each one of a set of documents that   *)
(* differ from a plain record in one or two respects.                      *)
(***************************************************************************)

VARIABLES
  documents,      \* so far, in path order
  lifted          \* what their bundle lifts to

liftVars == <<documents, lifted>>

-----------------------------------------------------------------------------
Composes == <<"c">>
Uses == <<"f">>
Lost == <<"s">>
Type(module, form) ==
  [module |-> module, shape |-> form, roles |-> {}, links |-> {Composes, Uses, Lost}, forbids |-> {}, requires |-> {},
   rules |-> {}, admits |-> <<>>]
MCObjectTypes ==
  [ plain |-> Type("m", "none"),
    status |-> [Type("m", "enumeration") EXCEPT !.forbids = {"abstract"}],
    pair |-> Type("m", "tuple"),
    whole |-> [Type("m", "record") EXCEPT !.roles = {"root"}, !.forbids = {"owner"}],
    nested |-> [Type("m", "record") EXCEPT !.requires = {"owner"}, !.admits = [owner |-> {"root"}]],
    part |-> [Type("n", "record") EXCEPT !.rules = {"singleOwner", "identityFieldForbidden"}, !.admits = [declaredType |-> {"root"}]],
    machine |-> [Type("n", "record") EXCEPT !.rules = {"minOperations"}, !.forbids = {"owner", "field"}] ]
MCEdgeTypes == [v \in {Composes, Uses} |-> v = Composes]
MCScalars == {<<"n">>}

A == <<"A">>
B == <<"B">>
AB == <<"A", "B">>

Token(form, name) == [form |-> form, name |-> name]
Field(name, token) ==
  [name |-> name, token |-> token, many |-> FALSE, identity |-> FALSE, timestamp |-> FALSE, decimal |-> FALSE, keywords |-> <<>>,
   applies |-> TRUE]
Text == Token("scalar", <<"n">>)
Ref(id) == Token("type", id)
NameOf(id, operation) == [form |-> IF operation = <<>> THEN "bare" ELSE "own", id |-> id, operation |-> operation]

Members == {"owner", "declaredType", "interfaceType", "sourceEnd", "targetEnd", "sourceElement", "targetElement"}
Plain(id) ==
  [id |-> id, object |-> "plain", doctype |-> "none", title |-> <<"d">> \o id, name |-> <<>>, state |-> "available",
   fields |-> <<>>, located |-> TRUE, values |-> <<>>, payloads |-> <<>>, positions |-> <<>>, edges |-> <<>>, clauses |-> <<>>,
   states |-> <<>>, operations |-> <<>>, transitions |-> <<>>, steps |-> <<>>, features |-> {}, rows |-> FALSE,
   named |-> [m \in Members |-> NameOf(id, <<>>)], supertypes |-> <<>>, featureOrder |-> <<>>,
   big |-> FALSE, deep |-> FALSE, longClause |-> FALSE]
Of(id, type) == [Plain(id) EXCEPT !.object = type]

\* What any document may be.
Heads(id) ==
  LET d == Plain(id) IN
  { d, [d EXCEPT !.object = "none"], [d EXCEPT !.object = "unheard"], [d EXCEPT !.doctype = "section"],
    [d EXCEPT !.state = "legacy"], [d EXCEPT !.state = "unavailable"], [d EXCEPT !.title = <<"d">> \o A],
    [d EXCEPT !.name = <<"n">>], [d EXCEPT !.title = <<"-">>], [d EXCEPT !.big = TRUE], [d EXCEPT !.id = <<"A", "/">>],
    [d EXCEPT !.title = B, !.longClause = TRUE], [d EXCEPT !.id = A], [d EXCEPT !.id = <<>>] }
\* Records that name another.
Records(id, other) ==
  LET d == Plain(id)
      OpR == [name |-> <<"b">>, params |-> <<>>, returns |-> <<Ref(other)>>]
      OpP == [name |-> <<"b">>, params |-> <<Field(<<"c">>, Ref(other))>>, returns |-> <<>>]
  IN
  { [d EXCEPT !.fields = <<Field(<<"b">>, Ref(other))>>],
    [d EXCEPT !.fields = <<Field(<<"b">>, Text), Field(<<"b">>, Ref(other))>>],
    [d EXCEPT !.fields = <<[Field(<<"b">>, Text) EXCEPT !.decimal = TRUE, !.keywords = <<"min">>]>>],
    [d EXCEPT !.fields = <<[Field(<<"b">>, Text) EXCEPT !.keywords = <<"min", "max">>], [Field(<<"B">>, Text) EXCEPT !.keywords = <<"min">>]>>],
    [d EXCEPT !.fields = <<Field(<<"b">>, Text)>>, !.operations = <<OpP>>],
    [d EXCEPT !.operations = <<OpR>>], [d EXCEPT !.operations = <<OpP, OpP>>], [d EXCEPT !.operations = <<[OpP EXCEPT !.params = @ \o <<Field(<<"c">>, Text)>>]>>],
    [d EXCEPT !.edges = <<[verb |-> Composes, token |-> other, declared |-> TRUE]>>],
    [d EXCEPT !.edges = <<[verb |-> Uses, token |-> <<"d">> \o other, declared |-> TRUE]>>],
    [d EXCEPT !.edges = <<[verb |-> Lost, token |-> other, declared |-> TRUE]>>],
    [d EXCEPT !.edges = <<[verb |-> Uses, token |-> other, declared |-> FALSE], [verb |-> <<"r">>, token |-> other, declared |-> TRUE]>>],
    [d EXCEPT !.fields = <<Field(<<"b">>, Token("foreign", other))>>] }
Constructs(id, other) ==
  LET op == [name |-> <<"b">>, params |-> <<>>, returns |-> <<>>]
      t == [from |-> <<"a">>, to |-> <<"a">>, trigger |-> <<"b">>, guard |-> <<>>, emits |-> <<NameOf(other, <<>>)>>]
  IN
  { [Of(id, "status") EXCEPT !.values = <<<<"a">>, <<"b">>>>, !.payloads = <<[value |-> <<"a">>, token |-> <<Ref(other)>>]>>],
    [Of(id, "status") EXCEPT !.values = <<<<"a">>>>, !.payloads = <<[value |-> <<"a">>, token |-> <<>>], [value |-> <<"a">>, token |-> <<Ref(other)>>]>>],
    [Of(id, "status") EXCEPT !.values = <<<<"a", "_", "b">>, <<"a", "-", "b">>>>], [Of(id, "status") EXCEPT !.located = FALSE],
    [Of(id, "pair") EXCEPT !.positions = <<Text, Ref(other)>>],
    [Of(id, "whole") EXCEPT !.edges = <<[verb |-> Composes, token |-> other, declared |-> TRUE]>>],
    [Of(id, "whole") EXCEPT !.features = {"supertypes"}, !.supertypes = <<NameOf(other, <<>>)>>],
    Of(id, "nested"),
    [Of(id, "part") EXCEPT !.features = {"part"}, !.named["owner"] = NameOf(other, <<>>), !.named["declaredType"] = NameOf(other, <<>>)],
    [Of(id, "part") EXCEPT !.features = {"allocation"}, !.named["sourceElement"] = NameOf(other, <<"b">>), !.named["targetElement"] = NameOf(other, <<>>)],
    [Of(id, "machine") EXCEPT !.features = {"states", "transitions"}, !.operations = <<op>>, !.states = <<<<"a">>>>, !.transitions = <<t>>],
    [Of(id, "machine") EXCEPT !.features = {"states", "steps"}, !.operations = <<op>>, !.states = <<<<"b">>>>,
       !.steps = <<[name |-> <<"c">>, consumes |-> <<NameOf(other, <<>>)>>, emits |-> <<>>]>>],
    [Of(id, "machine") EXCEPT !.features = {"population"}, !.operations = <<op>>] }

Documents(position) ==
  CASE position = 1 -> Heads(A) \cup UNION {Records(A, other) \cup Constructs(A, other) : other \in {B, AB}}
    [] position = 2 -> Heads(B) \cup Records(B, A) \cup Constructs(B, A)
    [] OTHER -> {Plain(AB), Of(AB, "whole"), [Plain(AB) EXCEPT !.title = B],
                 [Plain(AB) EXCEPT !.fields = <<Field(<<"b">>, Ref(A))>>],
                 [Of(AB, "whole") EXCEPT !.edges = <<[verb |-> Composes, token |-> B, declared |-> TRUE]>>],
                 [Of(AB, "part") EXCEPT !.features = {"part"}, !.named["owner"] = NameOf(A, <<>>), !.named["declaredType"] = NameOf(A, <<>>)]}

Bundle(ds) == [identified |-> TRUE, modules |-> [m \in {"m", "n"} |-> "semantic"], documents |-> ds, engine |-> {}]

\* A bundle is written document by document and lifted; a longer one is another.
Unlifted == [outcome |-> "unlifted", types |-> <<>>]
LiftInit == documents = <<>> /\ lifted = Unlifted
Write ==
  /\ lifted = Unlifted /\ Len(documents) < 3
  /\ \E d \in Documents(Len(documents) + 1) : documents' = Append(documents, d)
  /\ UNCHANGED lifted
Lift == lifted = Unlifted /\ lifted' = lift(Bundle(documents)) /\ UNCHANGED documents
LiftNext == Write \/ Lift

-----------------------------------------------------------------------------
Written == lifted.outcome = "candidate"
DefinitionsOf(types) == UNION {{n \in ToSet(type.nodes) : n.kind \in {"type", "alias"}} : type \in ToSet(types)}

\* Nothing in a document the lift writes names a type or an operation that is
\* not in it: whatever was skipped, refused or failed without a word, and in
\* whichever of the passes, has left a diagnostic that blocks (lower_bundle).
ClosedWhenWritten ==
  Written =>
    \A type \in ToSet(lifted.types) :
      Refs(type.nodes) \subseteq {n.identity : n \in DefinitionsOf(lifted.types)}
                                 \cup (UNION {Identities(OfKind(t.nodes, "operation")) : t \in ToSet(lifted.types)})

\* A document is written only with every artifact of the bundle in it, but
\* for those in the legacy form: no early return loses one silently.
MissingIsLegacy ==
  Written =>
    {k \in DOMAIN documents : IsArtifact(documents[k])} \ {type.doc : type \in ToSet(lifted.types)}
      = {k \in DOMAIN documents : IsArtifact(documents[k]) /\ documents[k].state = "legacy"}

\* Each identity of a document is the identity of one node, of all kinds.
IdentitiesOnce ==
  Written =>
    LET minted == {<<type.doc, k>> : type \in ToSet(lifted.types), k \in 1 .. 12}
        at == {p \in minted : \E type \in ToSet(lifted.types) :
                  type.doc = p[1] /\ p[2] \in DOMAIN type.nodes /\ type.nodes[p[2]].identity # NoSegment}
        IdentityAt(p) == (CHOOSE type \in ToSet(lifted.types) : type.doc = p[1]).nodes[p[2]].identity
    IN \A p, q \in at : p # q => IdentityAt(p) # IdentityAt(q)

\* A name two artifacts carry is looked up in path order.
Ambiguous == \E j, k \in DOMAIN documents : j # k /\ NamesOf(documents[j]) \cap NamesOf(documents[k]) # {}
\* The paths of the documents decide neither whether the bundle is written nor
\* what is in it: no definition depends on one lowered before it.
TypeNodes(types) == {type.nodes : type \in ToSet(types)}
OrderFree ==
  lifted # Unlifted /\ ~Ambiguous =>
    \E other \in {lift(Bundle(Reverse(documents)))} :
      /\ other.outcome = lifted.outcome
      /\ TypeNodes(other.types) = TypeNodes(lifted.types)

-----------------------------------------------------------------------------
(***************************************************************************)
(* Every document of three identities, asked about in every order.         *)
(***************************************************************************)

CONSTANTS a, b, c, Decimal

ThreeIdentities == {a, b, c}
OneNative == {Decimal}

Targets == ThreeIdentities \cup {Decimal, Clock}

\* Policies sit where they matter: on an alias and on what a walk ends at.
EveryDocument ==
    [ThreeIdentities ->
        [is : {"field", "construct"}, to : Targets, policy : {FALSE}]
          \cup [is : {"alias"}, to : Targets, policy : BOOLEAN]
          \cup [is : {"plain"}, policy : BOOLEAN]
          \cup [is : {"none"}]]

ReferencesIdle ==
    /\ document = [r \in ThreeIdentities |-> [is |-> "none"]] /\ alias_depth = NoLimit
    /\ Unread

Interchangeable == Permutations(ThreeIdentities)

-----------------------------------------------------------------------------
(***************************************************************************)
(* The three ways into the IR: what is authored in TypeSpec and a bundle   *)
(* of JSON Schema documents are lowered by the compiler, and a bundle of   *)
(* specifications is lifted by the extraction frontend; and what a         *)
(* reference of the result stands for.  One at a time, from its own first  *)
(* state.                                                                  *)
(***************************************************************************)

CONSTANT Mistyped
VARIABLES schemas, outcome
schemaVars == <<schemas, outcome>>
Schemas == INSTANCE MCSchemas

VARIABLE subject

vars == <<subject, frontendsVars, liftVars, referencesVars, schemaVars>>

LiftIdle == LiftInit

Init ==
  \/ subject = "program" /\ FrontendsInit /\ LiftIdle /\ ReferencesIdle /\ Schemas!SchemasIdle
  \/ subject = "bundle" /\ FrontendsIdle /\ LiftInit /\ ReferencesIdle /\ Schemas!SchemasIdle
  \/ subject = "references" /\ FrontendsIdle /\ LiftIdle /\ ReferencesInit /\ Schemas!SchemasIdle
  \/ subject = "schemas" /\ FrontendsIdle /\ LiftIdle /\ ReferencesIdle /\ Schemas!SchemasInit

Compile == subject = "program" /\ FrontendsNext /\ UNCHANGED <<subject, liftVars, referencesVars, schemaVars>>
Extract == subject = "bundle" /\ LiftNext /\ UNCHANGED <<subject, frontendsVars, referencesVars, schemaVars>>
Ask == subject = "references" /\ ReferencesNext /\ UNCHANGED <<subject, frontendsVars, liftVars, schemaVars>>
Import == subject = "schemas" /\ Schemas!SchemasNext /\ UNCHANGED <<subject, frontendsVars, liftVars, referencesVars>>

Next == Compile \/ Extract \/ Ask \/ Import
Spec == Init /\ [][Next]_vars

\* The two frontends mint one identity for one node, but for exactly the kinds
\* of node and names MintersAgree says they do not; and two nodes of one package
\* share an identity only where their slugs do.
IdentitiesAreMintedAlike ==
    /\ SlugsAgree
    /\ MintersAgree
    /\ MintsApart

\* A program nothing is said of is lowered whole: each member is there with the
\* bounds of its width, its own constraints and one bound of a keyword, every
\* reference is of a type that was lowered, and no identity is given twice.
WideSitesAreKept(sites) ==
    Sound(sites) => WidthsAreKept(sites) /\ NothingIsLost /\ OneBoundPerKeyword /\ IdentitiesAreOnce
ProgramsAreKept == Accepted => RefsResolve /\ WideSitesAreKept(WideSites)

\* A bundle that is written is closed: what its types name is written with
\* them, what is missing is said, no identity is given twice, and the order the
\* files were found in changes nothing.
BundlesAreClosed ==
    /\ ClosedWhenWritten
    /\ MissingIsLegacy
    /\ IdentitiesOnce
    /\ OrderFree

\* A bundle of schemas that is lowered means what its schemas mean: each value
\* one of them admits is a value of its type and the other way round, but for
\* the declared losses and what goes unsaid; names come together only where
\* they are foretold to, what is referred to is there, and the order the
\* documents are given in changes nothing.
SchemasKeepTheirMeaning ==
    /\ Schemas!NeverLooser
    /\ Schemas!NeverTighter
    /\ Schemas!CollisionsAreForetold
    /\ Schemas!SchemaRefsResolve
    /\ Schemas!GivenOrderFree
=============================================================================
