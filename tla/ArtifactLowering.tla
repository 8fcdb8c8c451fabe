------------------------- MODULE ArtifactLowering -------------------------
(***************************************************************************)
(* What the extraction frontend makes of a bundle of documents before it   *)
(* lowers one: whether it loads (bundle.rs), which documents are artifacts,*)
(* which of them lower to a definition (pass one of resolve.rs), what a    *)
(* type token names (pass two), and the lifting of the bundle (lift.rs,    *)
(* lower_bundle of lower.rs, limits.rs): the documents are lowered one by  *)
(* one in path order, the pass over the whole bundle refuses what names    *)
(* something that lowered to nothing, and a document of the definitions is *)
(* written unless a diagnostic blocks it.                                  *)
(*                                                                         *)
(* A bundle is a record of `identified', the status of its `modules' and   *)
(* its `documents' in path order.  Of a document:                          *)
(*   id, title, name      names, as sequences of characters                *)
(*   object, doctype      frontmatter object and type, or "none"           *)
(*   state                what the engine says of its fields               *)
(*   big, deep, longClause   which limits of NFR-031 it is past            *)
(* A token, as the engine maps it, is [form, name], of form "scalar",      *)
(* "placeholder", "type" (of this package), "foreign" or "other".          *)
(***************************************************************************)
EXTENDS Identities, OwnerRules

CONSTANTS
    ObjectTypes,     \* of an object type: its module, shape, roles, links and construct
    EdgeTypes,       \* of a verb: its category and whether its inverse is part_of
    KernelScalars,   \* the names of the kernel scalars
    MaxDocuments,    \* how many documents a bundle may hold (limits.rs)
    MaxFields        \* how many fields a document may declare

-----------------------------------------------------------------------------
(* Loading. *)

\* A document typed by no object type belongs to the document it is composed
\* into and declares nothing of its own.
composed(d) == d.doctype \notin {"none", d.object} \cup DOMAIN ObjectTypes
object(d) == IF composed(d) THEN "none" ELSE d.object
IsArtifact(d) == object(d) # "none"

role_carriers(role) == {ObjectTypes[o].module : o \in {t \in DOMAIN ObjectTypes : role \in ObjectTypes[t].roles}}
with_roles(admitted) == UNION {{<<m, role>> : m \in role_carriers(role)} : role \in admitted}
roles(o) == {<<ObjectTypes[o].module, r>> : r \in {o} \cup ObjectTypes[o].roles}

ConstructRefused(o) ==
  \E k \in DOMAIN ObjectTypes[o].admits : \E role \in ObjectTypes[o].admits[k] : role_carriers(role) = {}

DocumentDefect(ds, k) ==
  IF ds[k].id = <<>> THEN IF IsArtifact(ds[k]) THEN "BUNDLE_UNIDENTIFIED" ELSE "ok"
  ELSE IF \E j \in 1 .. k - 1 : ds[j].id = ds[k].id THEN "DUPLICATE_ARTIFACT_ID" ELSE "ok"
check_documents(ds) ==
  LET bad == {k \in DOMAIN ds : DocumentDefect(ds, k) # "ok"}
  IN IF bad = {} THEN "ok" ELSE DocumentDefect(ds, Min(bad))

Statuses(b) == {b.modules[m] : m \in DOMAIN b.modules}
Load(b) ==
  IF ~b.identified THEN "BUNDLE_UNIDENTIFIED"
  ELSE IF "failed" \in Statuses(b) THEN "MODULE_REFUSED"
  ELSE IF "plain" \in Statuses(b) THEN "MODULE_WITHOUT_SEMANTIC_BLOCK"
  ELSE IF check_documents(b.documents) # "ok" THEN check_documents(b.documents)
  ELSE IF \E o \in DOMAIN ObjectTypes : ConstructRefused(o) THEN "MODULE_REFUSED"
  ELSE "ok"

-----------------------------------------------------------------------------
(* Names, and the index the engine keeps of them. *)

Typed(d) == IsArtifact(d) /\ object(d) \in DOMAIN ObjectTypes
is_enumeration(d) == Typed(d) /\ ObjectTypes[object(d)].shape = "enumeration"
is_tuple(d) == Typed(d) /\ ObjectTypes[object(d)].shape = "tuple"

\* Frontmatter names are Identifiers where they have the form of one.
is_identifier(name) == member_segment(name) # NoSegment
display_name(d) == IF is_identifier(d.name) THEN d.name ELSE d.title

NamesOf(d) == {d.title, d.name} \ {<<>>}
Objects(ds) == {k \in DOMAIN ds : Typed(ds[k]) /\ ~is_enumeration(ds[k])}
Enumerations(ds) == {k \in DOMAIN ds : is_enumeration(ds[k])}

\* indexed_artifact: an object by its id, else by a name, else an enumeration.
FirstOfId(ds, k) == Min({j \in DOMAIN ds : ds[j].id = ds[k].id})
Preferred(ds, finds) ==
  LET some == {n \in DOMAIN finds : finds[n] # {}}
  IN IF some = {} THEN 0 ELSE FirstOfId(ds, Min(finds[Min(some)]))
indexed_artifact(ds, token) ==
  Preferred(ds, <<{k \in Objects(ds) : ds[k].id = token},
                  {k \in Objects(ds) : token \in NamesOf(ds[k])},
                  {k \in Enumerations(ds) : ds[k].id = token \/ token \in NamesOf(ds[k])}>>)

-----------------------------------------------------------------------------
(* Pass one: which artifacts lower to a definition. *)

Extracted(d) == Typed(d)
Lowers(d) == Extracted(d) /\ d.state \in {"available", "not_applicable"}
NotLoweredSays(d) ==
  IF Extracted(d) /\ ~Lowers(d)
  THEN {IF d.state = "legacy" THEN "ARTIFACT_NOT_LOWERED legacy" ELSE "ARTIFACT_NOT_LOWERED"} ELSE {}
Shadowed(d) == IsArtifact(d) /\ NamesOf(d) \cap KernelScalars # {}
UnknownObject(d) == IsArtifact(d) /\ object(d) \notin DOMAIN ObjectTypes

\* What extraction and pass one say at the head of a document.
pass_one(d) ==
  (IF UnknownObject(d) THEN {"UNKNOWN_OBJECT_TYPE"} ELSE {})
  \cup NotLoweredSays(d)
  \cup (IF Shadowed(d) THEN {"KERNEL_NAME_SHADOWED"} ELSE {})

-----------------------------------------------------------------------------
(* Pass two: what a token names. *)

Scalar == <<"native">>
Unresolved(code) == <<"unresolved", code>>
Artifact(k) == <<"artifact", k>>
IsUnresolved(r) == r[1] = "unresolved"

classify_type(ds, k) ==
  IF k = 0 THEN Unresolved("UNRESOLVED_TYPE_TOKEN")
  ELSE IF Lowers(ds[k]) THEN Artifact(k) ELSE Unresolved("STALE_TYPE_TOKEN")
classify(ds, token) ==
  CASE token.form = "scalar" -> Scalar
    [] token.form = "foreign" -> Unresolved("IMPORT_UNSUPPORTED")
    [] token.form = "type" -> classify_type(ds, indexed_artifact(ds, token.name))
    [] OTHER -> Unresolved("UNRESOLVED_TYPE_TOKEN")

\* The type reference a resolution stands for: nothing if it has none.
type_ref(ds, r) ==
  CASE r = Scalar -> {Scalar}
    [] IsUnresolved(r) -> {}
    [] OTHER -> {type_identity(ds[r[2]].id)} \ {NoSegment}

\* resolve_target: what a relationship may point at.
resolve_target(ds, token) ==
  LET k == indexed_artifact(ds, token) IN IF k # 0 /\ Lowers(ds[k]) THEN k ELSE 0

-----------------------------------------------------------------------------
(***************************************************************************)
(* Lowering one artifact to the nodes of its definition (lower_record,     *)
(* lower_enum, lower_tuple and shape of the extraction frontend, with the  *)
(* edges, clauses and operations).  A node is [kind, identity, name, refs],*)
(* where refs are the identities of types or operations it names.  A step  *)
(* yields [nodes, says, failed]: the codes it says, and whether it fails,  *)
(* which it may do without a word (LowerError::Unresolved).                *)
(*                                                                         *)
(* Of a document, beside what BundleIndex names:                           *)
(*   fields      [name, token, many, identity, timestamp, decimal, keywords,  *)
(*               applies]                                                  *)
(*   located, values, payloads   the rows of an enumeration: whether they  *)
(*               are found, the values, and [value, token]                 *)
(*   positions   the tokens of a tuple's rows                              *)
(*   edges       [verb, token, declared]                                   *)
(*   clauses, states             names                                     *)
(*   operations  [name, params, returns]                                   *)
(*   transitions [from, to, trigger, guard, emits]                         *)
(*   steps       [name, consumes, emits]                                   *)
(*   features    the model tables it carries; rows, whether it carries     *)
(*               relationship rows or its model is unavailable             *)
(*   named       of a reference member, the artifact its row names, if any *)
(*   supertypes, featureOrder    names, and [kind, name]                   *)
(***************************************************************************)

-----------------------------------------------------------------------------
(* Steps. *)

\* Mutant: only the codes of errors of this frontend are.
BlockingButStale(code) ==
  code \notin {"DECLARED_LOSS", "KERNEL_NAME_SHADOWED", "ARTIFACT_NOT_LOWERED legacy", "STALE_TYPE_TOKEN"}
Blocking(code) == code \notin {"DECLARED_LOSS", "KERNEL_NAME_SHADOWED", "ARTIFACT_NOT_LOWERED legacy"}
Made(nodes) == [nodes |-> nodes, says |-> {}, failed |-> FALSE]
Said(code) == [nodes |-> <<>>, says |-> {code}, failed |-> FALSE]
Refused == [nodes |-> <<>>, says |-> {"ARTIFACT_NOT_LOWERED"}, failed |-> TRUE]
Silent == [nodes |-> <<>>, says |-> {}, failed |-> TRUE]
Nothing == Made(<<>>)

\* Both are done, unless the first fails: `?'.
Then(first, second) ==
  IF first.failed THEN first
  ELSE IF second.failed THEN second
  ELSE [nodes |-> first.nodes \o second.nodes, says |-> first.says \cup second.says, failed |-> FALSE]
InOrder(steps) == FoldLeft(Then, Nothing, steps)
\* A sink is looked at once, when everything in it has been done.
finish(step) ==
  IF ~step.failed /\ \E code \in step.says : Blocking(code) THEN [step EXCEPT !.failed = TRUE, !.nodes = <<>>] ELSE step

Node(kind, identity, name, refs) == [kind |-> kind, identity |-> identity, name |-> name, refs |-> refs]
Mint(kind, identity, name, refs) ==
  IF identity = NoSegment THEN Said("UNSLUGGABLE_NAME") ELSE Made(<<Node(kind, identity, name, refs)>>)
OfKind(nodes, kind) == SelectSeq(nodes, LAMBDA n : n.kind = kind)
Identities(nodes) == {nodes[k].identity : k \in DOMAIN nodes}
Refs(nodes) == UNION {nodes[k].refs : k \in DOMAIN nodes}

-----------------------------------------------------------------------------
(* Fields and their constraints. *)

FirstNamed(rows, name) == rows[Min({k \in DOMAIN rows : rows[k].name = name})]
\* A resolution is found by the name of its field, so of rows of one name the
\* first one's.
FieldType(ds, fields, k) == type_ref(ds, classify(ds, FirstNamed(fields, fields[k].name).token))

TypedMember(kind, identity, field, types) ==
  IF types = {} THEN Silent
  ELSE [Made(<<Node(kind, identity, field.name, types \ {Scalar})>>) EXCEPT
          !.says = IF field.many THEN {"DECLARED_LOSS"} ELSE {}]
lower_field(ds, kind, identity, fields, k) ==
  IF identity = NoSegment THEN Said("UNSLUGGABLE_NAME")
  ELSE TypedMember(kind, identity, fields[k], FieldType(ds, fields, k))

\* Every constraint of the record before this one has minted its code.
CodeTaken(d, k, i) ==
  LET Code(row, n) == diagnostic_code(display_name(d), d.fields[row].name, <<d.fields[row].keywords[n]>>)
  IN \E row \in 1 .. k : \E j \in DOMAIN d.fields[row].keywords :
       (row < k \/ j < i) /\ d.fields[row].applies /\ Code(row, j) = Code(k, i)
lower_constraint(d, k, i) ==
  LET field == d.fields[k] IN
  IF field.keywords[i] \in {field.keywords[j] : j \in 1 .. i - 1} \/ CodeTaken(d, k, i) THEN Said("DUPLICATE_CONSTRAINT")
  ELSE IF ~field.applies THEN Said("CONSTRAINT_NOT_APPLICABLE")
  ELSE Mint("constraint", constraint_identity(d.id, field.name, <<field.keywords[i]>>), <<>>, {})
lower_constraints(d, k) == InOrder([i \in DOMAIN d.fields[k].keywords |-> lower_constraint(d, k, i)])

\* A decimal field with constraints is typed by an alias that carries them.
Aliased(field) == field.decimal /\ field.keywords # <<>>
WithAlias(d, field, node) ==
  LET identity == alias_identity(d.id, field.name) IN
  IF ~Aliased(field) THEN Made(<<node>>)
  ELSE IF identity = NoSegment THEN [Said("UNSLUGGABLE_NAME") EXCEPT !.failed = TRUE]
  ELSE Made(<<[node EXCEPT !.refs = {identity}],
              Node("alias", identity, display_name(d) \o capitalized(slug(field.name)), node.refs)>>)

Constrained(d, k, field) ==
  IF field.nodes = <<>> THEN field
  ELSE Then([field EXCEPT !.nodes = <<>>],
            Then(WithAlias(d, d.fields[k], field.nodes[1]), lower_constraints(d, k)))
lower_record(ds, d) ==
  finish(InOrder([k \in DOMAIN d.fields |->
    Constrained(d, k, lower_field(ds, "field", member_identity(d.id, d.fields[k].name), d.fields, k))]))

-----------------------------------------------------------------------------
(* Edges, clauses and operations. *)

frontmatter_edges(d) == SelectSeq(d.edges, LAMBDA e : e.declared)
lower_relationship(ds, d, edge) ==
  LET k == resolve_target(ds, edge.token) IN
  IF edge.verb \notin ObjectTypes[object(d)].links THEN Nothing
  ELSE IF edge.verb \notin DOMAIN EdgeTypes THEN Said("UNKNOWN_EDGE_VERB")
  ELSE IF k = 0 THEN Said("UNRESOLVED_RELATIONSHIP_TARGET")
  ELSE IF type_identity(ds[k].id) = NoSegment THEN Said("UNSLUGGABLE_NAME")
  ELSE Mint("relationship", relationship_identity(d.id, edge.verb, ds[k].id), edge.verb,
            {type_identity(ds[k].id)})
lower_relationships(ds, d) ==
  finish(InOrder([k \in DOMAIN frontmatter_edges(d) |-> lower_relationship(ds, d, frontmatter_edges(d)[k])]))

lower_clauses(d) ==
  finish(InOrder([k \in DOMAIN d.clauses |-> Mint("clause", member_identity(d.id, d.clauses[k]), d.clauses[k], {})]))

lower_params(ds, d, operation) ==
  InOrder([k \in DOMAIN operation.params |->
    lower_field(ds, "parameter", param_identity(d.id, operation.name, operation.params[k].name), operation.params, k)])
\* What an operation returns is the resolution of the first of its name.
ReturnsOf(d, operation) == FirstNamed(d.operations, operation.name).returns
lower_returns(ds, d, operation) ==
  IF operation.returns = <<>> \/ ReturnsOf(d, operation) = <<>> THEN [refs |-> {}, unresolved |-> operation.returns # <<>>]
  ELSE LET types == type_ref(ds, classify(ds, ReturnsOf(d, operation)[1]))
       IN [refs |-> types \ {Scalar}, unresolved |-> types = {}]
OperationMade(identity, operation, returns) ==
  IF returns.unresolved THEN Silent ELSE Made(<<Node("operation", identity, operation.name, returns.refs)>>)
lower_operation(ds, d, operation) ==
  LET identity == member_identity(d.id, operation.name)
  IN IF identity = NoSegment THEN Said("UNSLUGGABLE_NAME")
     ELSE Then(lower_params(ds, d, operation), OperationMade(identity, operation, lower_returns(ds, d, operation)))
lower_operations(ds, d) == finish(InOrder([k \in DOMAIN d.operations |-> lower_operation(ds, d, d.operations[k])]))

-----------------------------------------------------------------------------
(* Enumerations and tuples. *)

Rows(rows, name) == {k \in DOMAIN rows : rows[k].value = name}
payload_rows(d) == SelectSeq(d.payloads, LAMBDA row : row.token # <<>>)
\* A row that names no value, or one an earlier row names.
stray_payloads(d) ==
  {k \in DOMAIN d.payloads : d.payloads[k].value \notin ToSet(d.values) \/ \E j \in 1 .. k - 1 : d.payloads[j].value = d.payloads[k].value}
PayloadOf(d, value) ==
  LET rows == Rows(payload_rows(d), value) IN IF rows = {} THEN <<>> ELSE payload_rows(d)[Min(rows)].token

Variant(ds, d, k) ==
  LET identity == variant_identity(d.id, d.values[k])
      earlier == {j \in 1 .. k - 1 : variant_identity(d.id, d.values[j]) = identity}
      payload == PayloadOf(d, d.values[k])
      types == IF payload = <<>> THEN {} ELSE type_ref(ds, classify(ds, payload[1]))
  IN IF identity # NoSegment /\ earlier # {}
     THEN Said(IF d.values[Min(earlier)] = d.values[k] THEN "DUPLICATE_TYPE_NAME" ELSE "UNSLUGGABLE_NAME")
     ELSE Mint("variant", identity, d.values[k], types \ {Scalar})
UnresolvedPayload(ds, d) ==
  \E k \in DOMAIN d.values :
    LET payload == PayloadOf(d, d.values[k]) IN payload # <<>> /\ type_ref(ds, classify(ds, payload[1])) = {}
WithPayloads(ds, d, variants) == IF ~variants.failed /\ UnresolvedPayload(ds, d) THEN Silent ELSE variants
lower_enum(ds, d) == WithPayloads(ds, d, finish(InOrder([k \in DOMAIN d.values |-> Variant(ds, d, k)])))

is_tuple_name(id) == member_segment(id) # NoSegment
lower_tuple(ds, d) ==
  IF d.positions = <<>> \/ ~is_tuple_name(d.id) THEN Refused
  ELSE InOrder([k \in DOMAIN d.positions |->
         LET types == type_ref(ds, classify(ds, d.positions[k]))
         IN IF types = {} THEN Silent
            ELSE Made(<<Node("position", type_identity(d.id) \o <<"/", "p", ToString(k - 1)>>, <<>>, types \ {Scalar})>>)])

-----------------------------------------------------------------------------
(* The construct the object type names. *)

Declaration(d) == ObjectTypes[object(d)]
forbids(d, member) == member \in Declaration(d).forbids
requires(d, member) == member \in Declaration(d).requires
has_rule(d, rule) == rule \in Declaration(d).rules

\* The members a table of the model is lowered to, all of them or none.
FeatureMembers ==
  [ supertypes |-> {"supertypes"}, abstract |-> {"abstract"}, states |-> {"states"}, transitions |-> {"transitions"},
    steps |-> {"steps"}, vocabulary |-> {"vocabulary"}, featureOrder |-> {"featureOrder"},
    part |-> {"owner", "declaredType", "multiplicity"}, port |-> {"owner", "direction", "interfaceType", "multiplicity"},
    connection |-> {"sourceEnd", "targetEnd", "flowDirection"}, allocation |-> {"sourceElement", "targetElement"} ]
\* field features, operation frames, a population and its members lower to none.
unlowered_model_feature(d, feature) ==
  CASE feature = "values" -> Declaration(d).shape # "enumeration"
    [] feature \in DOMAIN FeatureMembers ->
         Declaration(d).shape = "none" \/ \E member \in FeatureMembers[feature] : forbids(d, member)
    [] OTHER -> TRUE
unlowered_declaration(d) == d.rows \/ \E feature \in d.features : unlowered_model_feature(d, feature)

\* Of a member with a source table, whether the artifact carries the table.
Sources == {"supertypes", "abstract", "featureOrder", "declaredType", "direction", "interfaceType", "multiplicity", "sourceEnd",
            "targetEnd", "flowDirection", "sourceElement", "targetElement"}
has_source_table(d, member) == \E feature \in d.features \cap DOMAIN FeatureMembers : member \in FeatureMembers[feature]

\* A name of a reference is [form, id, operation], of form "bare", "own" or
\* "foreign"; only a source element names an operation.
bare_artifact_id(name, member) ==
  name.form # "foreign" /\ (name.operation = <<>> \/ (member = "sourceElement" /\ name.form = "own"))
admitted(ds, d, name, member) ==
  \E k \in DOMAIN ds :
    /\ Typed(ds[k]) /\ ds[k].id = name.id
    /\ member \in DOMAIN Declaration(d).admits =>
         roles(object(ds[k])) \cap with_roles(Declaration(d).admits[member]) # {}
Referenced(name) == IF name.operation = <<>> THEN type_identity(name.id) ELSE member_identity(name.id, name.operation)
Distinct(names) == \A j, k \in DOMAIN names : j # k => names[j] # names[k]
\* References::identities: the identities named, or a refusal.
identities(ds, d, member, names) ==
  IF \E k \in DOMAIN names :
       ~bare_artifact_id(names[k], member) \/ ~admitted(ds, d, names[k], member) \/ Referenced(names[k]) = NoSegment
  THEN [ok |-> FALSE, refs |-> {}]
  ELSE LET found == [k \in DOMAIN names |-> Referenced(names[k])]
       IN [ok |-> Distinct(found), refs |-> ToSet(found)]

lift_states(d) == finish(InOrder([k \in DOMAIN d.states |-> Mint("state", member_identity(d.id, d.states[k]), d.states[k], {})]))
lift_transition(ds, d, made, k) ==
  LET t == d.transitions[k]
      triggers == SelectSeq(OfKind(made, "operation"), LAMBDA n : n.name = t.trigger)
      emits == identities(ds, d, "transitions", t.emits)
  IN IF triggers = <<>> \/ (t.guard # <<>> /\ t.guard \notin {n.name : n \in ToSet(OfKind(made, "clause"))}) \/ ~emits.ok
     THEN Refused
     ELSE IF member_identity(d.id, t.from) = NoSegment \/ member_identity(d.id, t.to) = NoSegment THEN Said("UNSLUGGABLE_NAME")
     ELSE Mint("transition", transition_identity(d.id, ToString(k - 1)), t.trigger,
               emits.refs)
StepNode(d, step, consumes, emits) ==
  IF ~consumes.ok \/ ~emits.ok THEN Refused
  ELSE Mint("step", member_identity(d.id, step.name), step.name, consumes.refs \cup emits.refs)
lift_step(ds, d, step) ==
  StepNode(d, step, identities(ds, d, "steps", step.consumes), identities(ds, d, "steps", step.emits))
lift_feature(made, row) == IF OfKind(SelectSeq(made, LAMBDA n : n.name = row.name), row.kind) = <<>> THEN Refused ELSE Nothing

\* A reference member that a row of the model gives, by the table it is in.
Reference(ds, d, member) ==
  IF forbids(d, member) \/ ~has_source_table(d, member) THEN Nothing
  ELSE LET found == identities(ds, d, member, <<d.named[member]>>)
       IN IF found.ok THEN Made(<<Node(member, NoSegment, <<>>, found.refs)>>) ELSE Refused
ModelReferences == <<"owner", "declaredType", "interfaceType", "sourceEnd", "targetEnd", "sourceElement", "targetElement">>

lower_generalization(ds, d) ==
  IF \E member \in {"supertypes", "abstract"} : requires(d, member) /\ ~has_source_table(d, member) THEN Refused
  ELSE IF forbids(d, "supertypes") \/ ~has_source_table(d, "supertypes") THEN Nothing
  ELSE LET found == identities(ds, d, "supertypes", d.supertypes)
       IN IF found.ok THEN Made(<<Node("supertypes", NoSegment, <<>>, found.refs)>>) ELSE Refused

IdentityFields(d) == SelectSeq(d.fields, LAMBDA f : f.identity)
\* A field is a Timestamp if any row of its name is.
OccurrenceFields(d) == SelectSeq(d.fields, LAMBDA f : \E k \in DOMAIN d.fields : d.fields[k].name = f.name /\ d.fields[k].timestamp)
ShapeRefused(d, made) ==
  \/ has_rule(d, "identityFieldRequired") /\ IdentityFields(d) = <<>>
  \/ has_rule(d, "identityFieldForbidden") /\ IdentityFields(d) # <<>>
  \/ has_rule(d, "minClauses") /\ OfKind(made, "clause") = <<>>
  \/ has_rule(d, "occurrenceFieldRequired") /\ Len(OccurrenceFields(d)) # 1
  \/ has_rule(d, "minOperations") /\ OfKind(made, "operation") = <<>>
  \/ \E kind \in {"field", "operation", "relationship", "clause"} : forbids(d, kind) /\ OfKind(made, kind) # <<>>
  \/ requires(d, "target")
  \/ \E member \in Sources \ {"supertypes", "abstract"} : requires(d, member) /\ ~has_source_table(d, member)

shape(ds, d, made) ==
  IF unlowered_declaration(d) THEN Refused
  ELSE IF Declaration(d).shape = "none" THEN Nothing
  ELSE IF ShapeRefused(d, made) THEN Refused
  ELSE InOrder(<<IF forbids(d, "states") THEN Nothing ELSE lift_states(d),
                 IF forbids(d, "transitions") THEN Nothing
                 ELSE finish(InOrder([k \in DOMAIN d.transitions |-> lift_transition(ds, d, made, k)])),
                 IF forbids(d, "steps") THEN Nothing ELSE finish(InOrder([k \in DOMAIN d.steps |-> lift_step(ds, d, d.steps[k])])),
                 lower_generalization(ds, d),
                 InOrder([k \in DOMAIN d.featureOrder |-> lift_feature(made, d.featureOrder[k])])>>
               \o [k \in DOMAIN ModelReferences |-> Reference(ds, d, ModelReferences[k])])

-----------------------------------------------------------------------------
(* One artifact. *)

Itself(d) == Made(<<Node("type", type_identity(d.id), display_name(d), {})>>)
Shaped(ds, d, made) == IF made.failed THEN made ELSE Then(made, shape(ds, d, made.nodes))
lower_artifact(ds, d) ==
  CASE is_enumeration(d) ->
         IF unlowered_declaration(d) \/ ~d.located \/ stray_payloads(d) # {} THEN Refused
         ELSE InOrder(<<Itself(d), lower_enum(ds, d), lower_generalization(ds, d)>>)
    [] is_tuple(d) -> IF unlowered_declaration(d) THEN Refused ELSE Then(Itself(d), lower_tuple(ds, d))
    [] OTHER ->
         Shaped(ds, d, InOrder(<<Itself(d), lower_record(ds, d), lower_relationships(ds, d), lower_clauses(d), lower_operations(ds, d)>>))

-----------------------------------------------------------------------------
(* Limits. *)

check_bundle(ds) == Len(ds) > MaxDocuments \/ \E k \in DOMAIN ds : ds[k].big \/ ds[k].deep
check_extraction(d) == Len(d.fields) > MaxFields \/ d.longClause

-----------------------------------------------------------------------------
(* What pass two says of the tokens of a document. *)

TokensOf(d) ==
  {d.fields[k].token : k \in DOMAIN d.fields}
  \cup (UNION {{op.params[k].token : k \in DOMAIN op.params} \cup ToSet(op.returns) : op \in ToSet(d.operations)})
  \cup (IF is_enumeration(d) THEN {PayloadOf(d, row.value)[1] : row \in ToSet(payload_rows(d))}
        ELSE IF is_tuple(d) THEN ToSet(d.positions) ELSE {})
pass_two(ds, d) ==
  IF ~Extracted(d) THEN {}
  ELSE {r[2] : r \in {q \in {classify(ds, token) : token \in TokensOf(d)} : IsUnresolved(q)}}

-----------------------------------------------------------------------------
(* The documents in turn. *)

\* What has been lowered so far: the definitions, by document, the names and
\* identities they took, and the identities of artifacts that did not lower.
Empty == [names |-> {}, taken |-> {}, types |-> <<>>, nothing |-> {}, says |-> {}]
Skip(s, code) == [s EXCEPT !.says = @ \cup {code}]

\* The names are taken before the limits are looked at; an artifact that is
\* skipped before it is lowered is not among those that lowered to nothing.
Lowered(d, said, step, k) ==
  IF ~step.failed THEN [said EXCEPT !.types = Append(@, [doc |-> k, nodes |-> step.nodes])]
  ELSE IF is_enumeration(d) /\ ~d.located /\ ~unlowered_declaration(d) THEN said
  ELSE [said EXCEPT !.nothing = @ \cup {type_identity(d.id)}]
WithStep(d, named, step, k) == Lowered(d, [named EXCEPT !.says = @ \cup step.says], step, k)
lower_one(ds, s, k) ==
  LET d == ds[k]
      named == [s EXCEPT !.names = @ \cup {display_name(d)}, !.taken = @ \cup {type_identity(d.id)}]
  IN IF ~Lowers(d) THEN s
     ELSE IF ~is_identifier(display_name(d)) THEN Skip(s, "UNNAMEABLE_ARTIFACT")
     ELSE IF type_identity(d.id) = NoSegment THEN Skip(s, "UNSLUGGABLE_NAME")
     ELSE IF display_name(d) \in s.names THEN Skip(s, "DUPLICATE_TYPE_NAME")
     ELSE IF type_identity(d.id) \in s.taken THEN Skip(s, "UNSLUGGABLE_NAME")
     ELSE IF check_extraction(d) THEN Skip(named, "LIMIT_EXCEEDED")
     ELSE WithStep(d, named, lower_artifact(ds, d), k)
LowerEach(ds) == FoldLeft(LAMBDA s, k : lower_one(ds, s, k), Empty, [k \in DOMAIN ds |-> k])

-----------------------------------------------------------------------------
(* The pass over the bundle: of each definition, what OwnerRules asks. *)

RefsOf(nodes, kinds) == UNION {n.refs : n \in {m \in ToSet(nodes) : m.kind \in kinds}}
composite(edge) == EdgeTypes[edge.name]
Owned(d) ==
  IF Declaration(d).shape = "none" \/ forbids(d, "owner") THEN "no"
  ELSE IF ~requires(d, "owner") /\ ~has_rule(d, "singleOwner") THEN "optional" ELSE "required"
Item(ds, type) ==
  LET d == ds[type.doc]
      edges == OfKind(type.nodes, "relationship")
  IN [targets |-> Refs(edges), composite |-> Refs(SelectSeq(edges, composite)),
      refs |-> RefsOf(type.nodes, {"transition", "step", "supertypes", "declaredType", "interfaceType", "sourceEnd", "targetEnd",
                                   "targetElement"}),
      modelled |-> RefsOf(type.nodes, {"owner"}), source |-> RefsOf(type.nodes, {"sourceElement"}),
      operations |-> Identities(OfKind(type.nodes, "operation")), roles |-> roles(object(d)), owned |-> Owned(d),
      unconstrained |-> "owner" \notin DOMAIN Declaration(d).admits,
      admitted |-> IF "owner" \in DOMAIN Declaration(d).admits THEN with_roles(Declaration(d).admits["owner"]) ELSE {}]
\* assign_owners: what is still pending when a round refuses nothing.
assign_owners(ds, lowered) ==
  LET TypeOf(i) == CHOOSE type \in ToSet(lowered.types) : type.nodes[1].identity = i
      pending == {type.nodes[1].identity : type \in ToSet(lowered.types)}
      items == [i \in pending |-> Item(ds, TypeOf(i))]
      Round(s, k) == LET broken == Broken(items, s.pending, s.refused)
                     IN [pending |-> s.pending \ broken, refused |-> s.refused \cup broken]
  IN FoldLeft(Round, [pending |-> pending, refused |-> lowered.nothing], [k \in 1 .. Len(lowered.types) + 1 |-> k]).pending

\* Every node that has an identity of its own; an edge and a member are given
\* by what they name.  A definition's aliases are definitions.
Minted == {"type", "alias", "constraint", "field", "variant", "position", "relationship", "operation", "parameter", "clause",
           "state", "transition", "step"}
identities_of(nodes) ==
  SelectSeq([k \in DOMAIN nodes |-> IF nodes[k].kind \in Minted THEN nodes[k].identity ELSE NoSegment], LAMBDA i : i # NoSegment)
identity_collisions(types) ==
  LET all == FlattenSeq([k \in DOMAIN types |-> identities_of(types[k].nodes)]) IN Cardinality(ToSet(all)) # Len(all)

LoweredBundle(ds, lowered, types) ==
  [types |-> types,
   says |-> lowered.says
            \cup (UNION {pass_one(ds[k]) \ {"UNKNOWN_OBJECT_TYPE"} : k \in DOMAIN ds})
            \cup (UNION {pass_two(ds, ds[k]) : k \in DOMAIN ds})
            \cup (IF Len(types) # Len(lowered.types) THEN {"ARTIFACT_NOT_LOWERED"} ELSE {})
            \cup (IF identity_collisions(types) THEN {"DUPLICATE_IDENTITY"} ELSE {})]
OwnedBundle(ds, lowered) ==
  LET kept == assign_owners(ds, lowered)
  IN LoweredBundle(ds, lowered, SelectSeq(lowered.types, LAMBDA type : type.nodes[1].identity \in kept))
lower_bundle(ds) ==
  IF check_bundle(ds) THEN [types |-> <<>>, says |-> {"LIMIT_EXCEEDED"}] ELSE OwnedBundle(ds, LowerEach(ds))

-----------------------------------------------------------------------------
(* The lift. *)

\* extract: the engine's own diagnostics, beside those of the frontend.
extract(b) ==
  b.engine \cup {"UNKNOWN_OBJECT_TYPE" : k \in {j \in DOMAIN b.documents : UnknownObject(b.documents[j])}}
is_blocked(says) == \E code \in says : Blocking(code)
candidate(lowered, says) ==
  IF is_blocked(says) THEN [outcome |-> "blocked", says |-> says, types |-> <<>>]
  ELSE [outcome |-> "candidate", says |-> says, types |-> lowered.types]
lift_loaded(b, lowered) == candidate(lowered, extract(b) \cup lowered.says)
lift(b) ==
  IF Load(b) # "ok" THEN [outcome |-> "refused", says |-> {Load(b)}, types |-> <<>>]
  ELSE lift_loaded(b, lower_bundle(b.documents))
=============================================================================
