-------------------------- MODULE TypeSpecLowering --------------------------
(***************************************************************************)
(* The lowering of a compiled TypeSpec program (frontend/typespec/         *)
(* lower.mjs).  A program is its declarations in the order of their names, *)
(* as collectDeclarations sorts them; their documentation, extensions and  *)
(* loci are left out, and so are the size limits.  An exception the        *)
(* lowering does not catch is the code "TypeError".                        *)
(*                                                                         *)
(* declaration == [name, kind, template, value, own, members, clauses,     *)
(*                 relations, operations]                                  *)
(* type        == [of, name, nullable, many]: a built-in scalar, a         *)
(*                declaration, "unknown", "null", a scalar over nothing    *)
(*                known ("unmapped") or any other type ("anonymous")       *)
(* own         == the set of << keyword, value >> its decorators declare   *)
(***************************************************************************)
EXTENDS Identities, Functions

BUILTIN_SCALARS ==
  [ boolean |-> "boolean", int8 |-> "integer", int16 |-> "integer", int64 |-> "integer", integer |-> "integer",
    safeint |-> "integer", uint8 |-> "integer", float |-> "float64", float32 |-> "float32",
    decimal |-> "decimal", decimal128 |-> "decimal", numeric |-> "number", string |-> "string", bytes |-> "bytes",
    plainDate |-> "date", utcDateTime |-> "datetime", duration |-> "duration" ]
BUILTIN_INTEGER_BOUNDS ==
  [ int8 |-> [ min |-> "-128", max |-> "127" ], int16 |-> [ min |-> "-32768", max |-> "32767" ],
    int64 |-> [ min |-> "-9223372036854775808", max |-> "9223372036854775807" ],
    uint8 |-> [ min |-> "0", max |-> "255" ] ]
HasWidth(base) == base \in DOMAIN BUILTIN_INTEGER_BOUNDS
KERNEL_NAMES ==
  [ any |-> "JsonObject", boolean |-> "Boolean", integer |-> "Integer", number |-> "Decimal", float32 |-> "Float32",
    float64 |-> "Float64", decimal |-> "Decimal", string |-> "String", bytes |-> "Bytes",
    datetime |-> "Timestamp", duration |-> "Duration", uuid |-> "UUID" ]

Numeric == { "integer", "number", "decimal", "float32", "float64", "date", "datetime", "duration" }
KEYWORD_APPLICABILITY ==
  [ min |-> Numeric, max |-> Numeric, pattern |-> { "string" }, nonEmpty |-> { "string", "bytes", "sequence", "map" } ]
applies(keyword, resolved) ==
  (IF resolved.kind = "scalar" THEN resolved.scalar ELSE resolved.kind) \in KEYWORD_APPLICABILITY[keyword]

\* References.  NATIVE_PREFIX holds no character a name is made of.
NATIVE_PREFIX == "ix://quire/native/"
Native(kernel) == << NATIVE_PREFIX, kernel >>
IsNative(ref) == ref # << >> /\ ref[1] = NATIVE_PREFIX
NoRef == << >>
Unset == "unset"

-----------------------------------------------------------------------------
(* What a declaration is. *)

Named(P) == { P[k].name : k \in DOMAIN P }
\* byName keeps the first declaration of a name.
byName(P, name) == P[Min({ k \in DOMAIN P : P[k].name = name })]

IsBuiltinName(name) == Len(name) = 1 /\ name[1] \in DOMAIN BUILTIN_SCALARS
RECURSIVE builtinBaseWithin(_, _, _)
\* A scalar's base is followed to the first name the table of built-in scalars
\* knows; a declared scalar of such a name is taken for it.
builtinBaseWithin(P, type, steps) ==
  CASE type.of = "builtin" -> type.name[1]
    [] type.of = "declared" /\ IsBuiltinName(type.name) -> type.name[1]
    [] type.of = "declared" /\ ~IsBuiltinName(type.name) /\ type.name \in Named(P) /\ steps > 0
       /\ byName(P, type.name).kind \in { "scalar", "alias" } -> builtinBaseWithin(P, byName(P, type.name).value, steps - 1)
    [] OTHER -> Unset
builtinBase(P, type) == builtinBaseWithin(P, type, Len(P))
\* constraintsOf asks it of the declaration or the member itself: a name the
\* table knows is enough, whatever carries it.
OwnBase(P, d) == builtinBase(P, [ of |-> "declared", name |-> d.name ])
MemberBase(p) == IF IsBuiltinName(p.name) THEN p.name[1] ELSE Unset

\* The first-match structural-kind table.
classified(P, d) ==
  CASE d.template -> "template"
    [] d.kind = "reference" /\ d.members # << >> -> "invalid-reference"
    [] d.kind = "scalar" /\ builtinBase(P, d.value) = Unset -> "unsupported-scalar"
    [] OTHER -> d.kind

-----------------------------------------------------------------------------
(* Definitions under way: by identity, a later one over an earlier, with   *)
(* what has been said so far, as << code, subject >>.                      *)

Start == [ definitions |-> << >>, said |-> {} ]
Say(s, code, subject) == [ s EXCEPT !.said = @ \union { << code, subject >> } ]
emit(s, definition) ==
  [ s EXCEPT !.definitions = [ i \in DOMAIN @ \union { definition.identity } |->
                                 IF i = definition.identity THEN definition ELSE @[i] ] ]
Has(s, identity) == identity \in DOMAIN s.definitions
typeIdentity(name) == mintIdentity("type", << name >>)

Definition(identity, name, kind) ==
  [ identity |-> identity, displayName |-> name, kind |-> kind, scalar |-> Unset, target |-> NoRef, items |-> NoRef,
    variants |-> {}, fields |-> {}, operations |-> {}, clauses |-> {}, relationships |-> {}, constraints |-> {} ]
Constraint(identity, keyword, value, appliesTo, code) ==
  [ identity |-> identity, keyword |-> keyword, value |-> value, appliesTo |-> appliesTo, diagnosticCode |-> code ]

\* resolveMemberType, and what is said when there is nothing to resolve to.
useKernel(scalar) == IF scalar \in DOMAIN KERNEL_NAMES THEN Native(KERNEL_NAMES[scalar]) ELSE NoRef
resolveMemberType(P, type) ==
  LET base == builtinBase(P, type) IN
  CASE type.of = "unknown" -> useKernel("any")
    [] type.of = "declared" /\ type.name \in Named(P) -> typeIdentity(type.name)
    [] type.of = "builtin" /\ base # "numeric" -> useKernel(BUILTIN_SCALARS[base])
    [] OTHER -> NoRef
ResolutionSays(P, type, subject) ==
  LET base == builtinBase(P, type) IN
  CASE type.of = "unmapped" -> { << "UNSUPPORTED_SCALAR_BASE", subject >> }
    [] type.of = "builtin" /\ base = "numeric" -> { << "AMBIGUOUS_NUMERIC", subject >> }
    [] type.of = "builtin" /\ base # "numeric" /\ BUILTIN_SCALARS[base] \notin DOMAIN KERNEL_NAMES ->
         { << "UNSUPPORTED_SCALAR_BASE", subject >> }
    [] OTHER -> {}
Resolving(P, s, type, subject) == [ s EXCEPT !.said = @ \union ResolutionSays(P, type, subject) ]

RECURSIVE resolvedKindWithin(_, _, _)
\* A native reference by its kernel name, an alias by its target.
NoType == [ kind |-> Unset, scalar |-> Unset ]
resolvedKindWithin(s, ref, seen) ==
  CASE IsNative(ref) ->
         [ kind |-> "scalar", scalar |-> CHOOSE scalar \in DOMAIN KERNEL_NAMES : KERNEL_NAMES[scalar] = ref[2]
                                           /\ (ref[2] = "Decimal" => scalar = "decimal") ]
    [] ~IsNative(ref) /\ (ref \in seen \/ ~Has(s, ref)) -> NoType
    [] OTHER -> LET definition == s.definitions[ref] IN
                IF definition.kind = "alias" THEN resolvedKindWithin(s, definition.target, seen \union { ref })
                ELSE [ kind |-> definition.kind, scalar |-> definition.scalar ]
resolvedKindOf(s, ref) == resolvedKindWithin(s, ref, {})

\* constraintsOf: a minimum of no items is no constraint, and a built-in width
\* gives the bounds the decorators leave open.
constraintsOf(base, own) ==
  { c \in own : c # << "nonEmpty", "0" >> } \union
  { << k, BUILTIN_INTEGER_BOUNDS[base][k] >> : k \in { k \in { "min", "max" } : HasWidth(base) /\ \A c \in own : c[1] # k } }

\* The package's unbounded Integer, which every width alias targets.
WithScalar(s, identity) ==
  IF Has(s, identity) THEN s
  ELSE emit(s, [ Definition(identity, << "Integer" >>, "scalar") EXCEPT !.scalar = "integer" ])
WithInteger(s) == WithScalar(s, typeIdentity(<< "Integer" >>))

FlatName(parts) ==
  FlattenSeq([ k \in DOMAIN parts |-> IF k = 1 THEN JsSlug(parts[k]) ELSE capitalized(JsSlug(parts[k])) ])
WidthConstraints(width, keywords, Minted(_), Code(_), appliesTo) ==
  { Constraint(Minted(keyword), keyword, width[keyword], appliesTo, Code(keyword)) : keyword \in keywords }

\* ensureIntegerWidthAlias: the items of a sequence, the payload of a variant
\* and what an operation returns.
WidthAlias(identity, parts, width) ==
  [ Definition(identity, FlatName(parts), "alias") EXCEPT
      !.target = typeIdentity(<< "Integer" >>),
      !.constraints = WidthConstraints(width, { "min", "max" },
          LAMBDA k : mintIdentity("constraint", Append(parts, << k >>)),
          LAMBDA k : constraintDiagnosticCode(parts, << k >>), identity) ]
\* The first to need the alias makes it, after the Integer it targets.
AliasMade(with, identity, parts, width) ==
  [ s |-> IF Has(with, identity) THEN with ELSE emit(with, WidthAlias(identity, parts, width)), ref |-> identity ]
ensureIntegerWidthAlias(P, s, type, ref, parts) ==
  LET base == builtinBase(P, type) IN
  IF ~HasWidth(base) \/ ~IsNative(ref) THEN [ s |-> s, ref |-> ref ]
  ELSE AliasMade(WithInteger(s), typeIdentity(FlatName(parts)), parts, BUILTIN_INTEGER_BOUNDS[base])

-----------------------------------------------------------------------------
(* Pass one: every declaration becomes a definition. *)

EnumVariants(d) ==
  { [ identity |-> mintIdentity("variant", << d.name, d.members[k].name >>), name |-> d.members[k].name, payload |-> NoRef ] :
      k \in DOMAIN d.members }
\* The variants of a union, in turn: each may mint an alias.
WithVariant(u, d, member, ensured) ==
  [ s |-> ensured.s,
    variants |-> u.variants \union
      { [ identity |-> mintIdentity("variant", << d.name, member.name >>), name |-> member.name, payload |-> ensured.ref ] } ]
UnionVariant(P, d, u, member) ==
  WithVariant(u, d, member,
    ensureIntegerWidthAlias(P, Resolving(P, u.s, member.type, d.name), member.type, resolveMemberType(P, member.type), << d.name, member.name >>))
UnionVariants(P, s, d) ==
  FoldLeft(LAMBDA u, member : IF member.name = << >> THEN [ u EXCEPT !.s = Say(@, "UNSUPPORTED_DECLARATION", d.name) ]
                              ELSE UnionVariant(P, d, u, member),
           [ s |-> s, variants |-> {} ], d.members)

\* What a collection holds, and a union's variants, once their aliases are made.
WithItems(base, items) == emit(items.s, [ base EXCEPT !.items = items.ref ])
WithVariants(base, union) == emit(union.s, [ base EXCEPT !.variants = union.variants ])
CollectionOf(P, s, d, base, ref) ==
  LET resolving == Resolving(P, s, d.value, d.name) IN
  IF ref = NoRef THEN Say(resolving, "UNRESOLVED_TYPE_REF", d.name)
  ELSE WithItems(base, ensureIntegerWidthAlias(P, resolving, d.value, ref,
                         << d.name, IF base.kind = "sequence" THEN << "items" >> ELSE << "values" >> >>))
DeclarationOf(P, s, d, base) ==
  CASE base.kind = "template" -> Say(s, "UNSUPPORTED_LOSS", d.name)
    [] base.kind \in { "invalid-reference", "unsupported" } -> Say(s, "UNSUPPORTED_DECLARATION", d.name)
    [] base.kind = "unsupported-scalar" -> Say(s, "UNSUPPORTED_SCALAR_BASE", d.name)
    [] base.kind = "alias" -> emit(s, [ base EXCEPT !.target = typeIdentity(d.value.name) ])
    [] base.kind = "scalar" -> emit(s, [ base EXCEPT !.scalar = BUILTIN_SCALARS[builtinBase(P, d.value)] ])
    [] base.kind \in { "sequence", "map" } -> CollectionOf(P, s, d, base, resolveMemberType(P, d.value))
    [] base.kind = "enum" ->
         emit([ s EXCEPT !.said = @ \union { << "UNSUPPORTED_LOSS", d.name >> : k \in { k \in DOMAIN d.members : d.members[k].valued } } ],
              [ base EXCEPT !.variants = EnumVariants(d) ])
    [] base.kind = "union" -> WithVariants(base, UnionVariants(P, s, d))
    [] base.kind \in { "record", "reference" } -> emit(s, base)
PassOne(P, s, d) == DeclarationOf(P, s, d, Definition(typeIdentity(d.name), d.name, classified(P, d)))

-----------------------------------------------------------------------------
(* Pass two: the members of records, which need every definition.         *)

\* What the field of a property, or of a parameter of an operation, refers
\* to: an alias of its own for an integer width, or for a decimal with bounds.
Site(P, owner, p) ==
  LET base == builtinBase(P, p.type)
      operation == Len(owner) > 1
      flat == FlattenSeq(IF operation THEN [ k \in DOMAIN owner |-> capitalized(owner[k]) ] ELSE owner)
              \o capitalized(p.name) \o (IF operation THEN << "Param" >> ELSE << >>)
      constraints == constraintsOf(MemberBase(p), p.own)
      native == IsNative(resolveMemberType(P, p.type)) IN
  [ width |-> HasWidth(base) /\ native, base |-> base, operation |-> operation, flat |-> flat,
    constraints |-> constraints, native |-> native,
    bounded |-> p.decimal # << >> /\ base # Unset /\ BUILTIN_SCALARS[base] = "decimal" /\ constraints # {},
    alias |-> IF HasWidth(base) /\ operation THEN mintIdentity("type", owner \o << p.name, << "width" >> >>)
              ELSE typeIdentity(flat) ]
HasAlias(site) == site.native /\ (site.width \/ site.bounded)

\* Mutant: the width's bounds are given beside those the property narrows.
OpenBoundsAll(site) == { "min", "max" }
OpenBounds(site) == { k \in { "min", "max" } : \A c \in site.constraints : c[1] # k }
\* The field carries the constraint too.
Narrowed(keyword) == << << "narrowed" >>, << keyword >> >>
\* In an operation the code keeps the parameter apart from its owner.
SiteCode(owner, p, site, keyword) ==
  IF ~site.operation THEN constraintDiagnosticCode(IF site.width THEN Append(owner, p.name) ELSE << site.flat >>, << keyword >>)
  ELSE LET ownerCode == constraintDiagnosticCode(owner, << keyword >>) IN
       SubSeq(ownerCode, 1, Len(ownerCode) - 2) \o << "_", "_" >> \o Screaming(JsSlug(p.name)) \o << "_", keyword >>
SiteAlias(owner, p, site, target) ==
  LET parts == IF site.width THEN Append(owner, p.name) ELSE << site.flat >>
      Minted(tail) == mintIdentity(IF site.operation THEN "typeConstraint" ELSE "constraint", parts \o tail) IN
  [ Definition(site.alias, site.flat, "alias") EXCEPT
      !.target = target,
      !.constraints =
         (IF ~site.width THEN {}
          ELSE WidthConstraints(BUILTIN_INTEGER_BOUNDS[site.base], OpenBounds(site), LAMBDA k : Minted(<< << k >> >>),
                 LAMBDA k : SiteCode(owner, p, site, k), site.alias))
         \union { Constraint(Minted(Narrowed(c[1])), c[1], c[2], site.alias, SiteCode(owner, p, site, c[1])) :
                    c \in site.constraints } ]
\* The first site of an alias makes it; a later one only refers to it.
AliasedField(s, owner, p, site, ref) ==
  LET with == IF site.width THEN WithInteger(s) ELSE s
      target == IF site.width THEN typeIdentity(<< "Integer" >>) ELSE ref IN
  IF ~HasAlias(site) \/ Has(with, site.alias) THEN with ELSE emit(with, SiteAlias(owner, p, site, target))

Unbounded == 9
FieldMultiplicity(p) ==
  IF p.multiplicity # << >> THEN p.multiplicity
  ELSE << IF p.optional THEN 0 ELSE 1, IF p.many THEN Unbounded ELSE 1 >>
MultiplicitySays(p) ==
  IF p.multiplicity = << >> THEN {}
  ELSE IF p.multiplicity[2] < p.multiplicity[1] THEN { "INVALID_MULTIPLICITY" }
  ELSE IF p.presence = Unset /\ (p.multiplicity[1] = 0) # p.optional THEN { "MULTIPLICITY_CONTRADICTS_OPTIONALITY" }
  ELSE {}

DecimalSays(p, resolved, base) ==
  IF resolved.scalar = "decimal" /\ p.decimal = << >> THEN { "DECIMAL_POLICY_MISSING" }
  ELSE IF p.decimal # << >> /\ (p.decimal[1] > (IF base = "decimal128" THEN 34 ELSE 38) \/ p.decimal[2] > p.decimal[1])
       THEN { "DECIMAL_PRECISION_EXCEEDS_BASE" } ELSE {}
DefaultSays(p) == IF ~p.defaulted /\ p.defaultKind # Unset THEN { "DEFAULT_KIND_WITHOUT_VALUE" } ELSE {}
UnitSays(p, resolved) == IF p.unit /\ resolved.kind # "scalar" THEN { "UNIT_ON_NON_SCALAR" } ELSE {}

\* The constraints a field keeps, and those that say nothing of its type.
Applying(site, resolved) ==
  { c \in site.constraints : applies(c[1], IF resolved = NoType THEN [ kind |-> "record", scalar |-> Unset ] ELSE resolved) }
FieldConstraints(owner, p, site, resolved, identity) ==
  { Constraint(mintIdentity("constraint", owner \o << p.name, << c[1] >> >>), c[1], c[2], identity,
               constraintDiagnosticCode(Append(owner, p.name), << c[1] >>)) : c \in Applying(site, resolved) }

\* What stops a field: the first refusal of those that could.
FirstOf(refusals) ==
  LET first == { k \in DOMAIN refusals : refusals[k] # {} } IN IF first = {} THEN {} ELSE refusals[Min(first)]
FieldStops(p, resolved, base) ==
  FirstOf(<< MultiplicitySays(p), DecimalSays(p, resolved, base), DefaultSays(p), UnitSays(p, resolved) >>)

FieldNode(owner, p, site, typeRef, resolved, identity) ==
  LET bounds == FieldMultiplicity(p)
      collection == IF p.collection # << >> /\ bounds[2] > 1 THEN p.collection ELSE << FALSE, FALSE >> IN
  [ identity |-> identity, name |-> p.name, typeRef |-> typeRef, lower |-> bounds[1], upper |-> bounds[2],
    ordered |-> collection[1], unique |-> collection[2],
    presence |-> IF p.presence # Unset THEN p.presence ELSE IF bounds[1] >= 1 THEN "required" ELSE "optional",
    nullable |-> p.nullable,
    constraints |-> IF site.bounded THEN {} ELSE FieldConstraints(owner, p, site, resolved, identity),
    decimal |-> IF site.bounded THEN << >> ELSE p.decimal,
    defaultKind |-> IF ~p.defaulted THEN "none" ELSE IF p.defaultKind = Unset THEN "semantic" ELSE p.defaultKind,
    unit |-> p.unit ]
\* A field once its alias is made.
TypedField(s, owner, p, site, typeRef, identity) ==
  LET resolved == resolvedKindOf(s, typeRef)
      stops == FieldStops(p, resolved, site.base)
      inapplicable == IF site.bounded THEN {} ELSE site.constraints \ Applying(site, resolved)
      said == stops \union (IF inapplicable # {} /\ MultiplicitySays(p) = {} THEN { "CONSTRAINT_NOT_APPLICABLE" } ELSE {}) IN
  [ s |-> [ s EXCEPT !.said = @ \union { << code, p.name >> : code \in said } ],
    fields |-> IF stops # {} THEN {} ELSE { FieldNode(owner, p, site, typeRef, resolved, identity) } ]
SitedField(s, owner, p, ref, identity, site) ==
  TypedField(AliasedField(s, owner, p, site, ref), owner, p, site, IF HasAlias(site) THEN site.alias ELSE ref, identity)
lowerField(P, s, owner, p) ==
  LET identity == mintIdentity("field", Append(owner, p.name))
      ref == resolveMemberType(P, p.type) IN
  IF identity = Thrown THEN [ s |-> Say(s, "TypeError", p.name), fields |-> {} ]
  ELSE IF ref = NoRef
  THEN [ s |-> Say(Resolving(P, s, p.type, p.name), "UNRESOLVED_TYPE_REF", p.name), fields |-> {} ]
  ELSE SitedField(s, owner, p, ref, identity, Site(P, owner, p))
\* The members of one owner, in turn.
WithFields(f, lowered) == [ s |-> lowered.s, fields |-> f.fields \union lowered.fields ]
LowerFields(P, s, owner, members) ==
  FoldLeft(LAMBDA f, p : WithFields(f, lowerField(P, f.s, owner, p)), [ s |-> s, fields |-> {} ], members)

Repeats(names) == \E j, k \in DOMAIN names : j < k /\ names[j] = names[k]

\* An operation: its parameters, the clauses it names and what it returns.
\* A return that resolves to nothing is left out, and null is dropped from it.
OperationNode(P, d, op, fields) ==
  LET owner == << d.name, op.name >>
      dangling == (op.pre \union op.post) \ ToSet(d.clauses)
      said == [ fields.s EXCEPT !.said = @ \union { << "DANGLING_CLAUSE_REF", clause >> : clause \in dangling } ]
      resolving == Resolving(P, said, op.returns, op.name)
      returns == ensureIntegerWidthAlias(P, resolving, op.returns, resolveMemberType(P, op.returns),
                                         << d.name, op.name, << "Return" >> >>)
      identity == mintIdentity("operation", owner) IN
  [ s |-> IF identity = Thrown THEN Say(said, "TypeError", op.name) ELSE returns.s,
    operations |-> IF identity = Thrown THEN {}
                   ELSE { [ identity |-> identity, name |-> op.name, params |-> fields.fields,
                            pre |-> op.pre, post |-> op.post, returns |-> returns.ref, nullable |-> FALSE ] } ]
Operation(P, s, d, op) == OperationNode(P, d, op, LowerFields(P, s, << d.name, op.name >>, op.params))
WithOperation(o, lowered) == [ s |-> lowered.s, operations |-> o.operations \union lowered.operations ]
OperationsOf(P, s, d) ==
  FoldLeft(LAMBDA o, op : WithOperation(o, Operation(P, o.s, d, op)), [ s |-> s, operations |-> {} ], d.operations)

\* A relationship has the cardinality of its target end; the source's is open.
Relationship(d, relation) ==
  [ identity |-> mintIdentity("relationship", << d.name, relation.verb, relation.target >>),
    source |-> typeIdentity(d.name), target |-> relation.target, composite |-> relation.inverse = "part_of",
    lower |-> IF relation.bounds = << >> THEN 0 ELSE relation.bounds[1],
    upper |-> CASE Len(relation.bounds) = 0 -> 1 [] Len(relation.bounds) = 1 -> Unbounded [] OTHER -> relation.bounds[2] ]
Clauses(d) == { mintIdentity("clause", << d.name, clause >>) : clause \in ToSet(d.clauses) }

RecordNode(d, fields, operations) ==
  LET identity == typeIdentity(d.name) IN
  [ operations.s EXCEPT
      !.definitions[identity].fields = fields.fields,
      !.definitions[identity].relationships = { Relationship(d, d.relations[k]) : k \in DOMAIN d.relations },
      !.definitions[identity].operations = operations.operations ]
FieldedRecord(P, d, fields) == RecordNode(d, fields, OperationsOf(P, fields.s, d))
PassTwo(P, s, d) ==
  LET identity == typeIdentity(d.name)
      claused == [ s EXCEPT !.definitions[identity].clauses = IF d.clauses = << >> THEN @ ELSE Clauses(d),
                            !.said = @ \union (IF Repeats(d.clauses) THEN { << "DUPLICATE_CLAUSE_ID", d.name >> } ELSE {}) ] IN
  IF ~Has(s, identity) THEN s
  ELSE IF s.definitions[identity].kind # "record"
  THEN IF d.relations = << >> /\ d.operations = << >> THEN claused ELSE Say(claused, "NODES_ON_NON_RECORD", d.name)
  ELSE FieldedRecord(P, d, LowerFields(P, claused, << d.name >>, d.members))

-----------------------------------------------------------------------------
(* Pass three, and the whole. *)

TypeConstraints(P, s, d) ==
  LET identity == typeIdentity(d.name)
      found == constraintsOf(OwnBase(P, d), d.own)
      known == resolvedKindOf(s, identity)
      resolved == IF known = NoType
                  THEN [ kind |-> s.definitions[identity].kind, scalar |-> s.definitions[identity].scalar ] ELSE known
      attached == { c \in found : applies(c[1], resolved) } IN
  IF ~Has(s, identity) \/ found = {} THEN s
  ELSE [ s EXCEPT
           !.said = @ \union (IF attached = found THEN {} ELSE { << "CONSTRAINT_NOT_APPLICABLE", d.name >> }),
           !.definitions[identity].constraints =
              { Constraint(mintIdentity("constraint", << d.name, << c[1] >> >>), c[1], c[2], identity,
                           constraintDiagnosticCode(<< d.name >>, << c[1] >>)) : c \in attached } ]

\* Two declared names of one slug.
SlugsClash(P) ==
  { P[k].name : k \in { k \in DOMAIN P : \E j \in 1 .. k - 1 :
                        P[j].name # P[k].name /\ JsSlug(P[j].name) = JsSlug(P[k].name)
                        /\ \A i \in 1 .. j - 1 : JsSlug(P[i].name) # JsSlug(P[k].name) } }

\* Declarations are taken by name; those of one name stay as they were visited.
lowerProgram(P) ==
  LET Said(s) == [ s EXCEPT !.said = @ \union { << "UNSLUGGABLE_NAME", name >> : name \in SlugsClash(P) } ]
      one == FoldLeft(LAMBDA s, d : PassOne(P, s, d), Said(Start), P)
      two == FoldLeft(LAMBDA s, d : PassTwo(P, s, d), one, P) IN
  FoldLeft(LAMBDA s, d : TypeConstraints(P, s, d), two, P)

\* The document handed on: none when anything said blocks.
Document(P) == LET lowered == lowerProgram(P) IN IF lowered.said = {} THEN Range(lowered.definitions) ELSE {}
=============================================================================
