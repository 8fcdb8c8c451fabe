---------------------------- MODULE Constructs ----------------------------
(***************************************************************************)
(* A module declares each construct kind as data; a document carries the   *)
(* declarations in its `constructs` table, and each of its types conforms  *)
(* to the one of its kind.  The Rust reader (crates/semantic-ir/src,       *)
(* vocabulary.rs and the construct part of schema.rs) and the compiler     *)
(* (compiler/constructs.mjs and ir/reader.mjs) both read all of that.      *)
(* A term is a string, "" where the document has something else.           *)
(***************************************************************************)
EXTENDS JsonValue, FiniteSetsExt, Folds

Identities == {"identified", "value", "none"}
Shapes == {"record", "enumeration", "interface", "state_machine", "sequence",
           "namespace", "alias", "tuple"}
Presences == {"required", "optional", "forbidden"}

\* The members a declaration admits, or forbids, unless it lists them.
OptionalMembers == {"fields", "variants", "relationships", "operations", "clauses",
                    "supertypes", "abstract"}
ForbiddenMembers ==
    {"identityFields", "owner", "members", "occurrenceField", "states", "transitions",
     "steps", "persists", "vocabulary", "direction", "interfaceType", "multiplicity",
     "declaredType", "flowDirection", "sourceEnd", "targetEnd", "sourceElement",
     "targetElement", "featureOrder", "target", "positions"}
Members == OptionalMembers \cup ForbiddenMembers

\* Where the entries of a reference member name types: the member itself, or
\* the listed members of each of its items.
ReferenceItems ==
    [m \in {"owner", "members", "persists", "interfaceType", "declaredType",
            "sourceElement", "targetElement", "target"} |-> <<>>]
    @@ [m \in {"sourceEnd", "targetEnd"} |-> <<"type">>]
    @@ ("transitions" :> <<"emits">>)
    @@ ("steps" :> <<"consumes", "emits">>)

Requirement(member, presence) == [member |-> member, presence |-> presence]
RuleRequires ==
    [identity_field_required |-> Requirement("identityFields", "required"),
     identity_field_forbidden |-> Requirement("identityFields", "forbidden"),
     min_clauses |-> Requirement("clauses", "required"),
     occurrence_field_required |-> Requirement("occurrenceField", "required"),
     no_fields |-> Requirement("fields", "forbidden"),
     no_operations |-> Requirement("operations", "forbidden"),
     min_operations |-> Requirement("operations", "required"),
     single_owner |-> Requirement("owner", "required"),
     exclusive_membership |-> Requirement("members", "required"),
     members_not_namespace |-> Requirement("members", "required")]
NonEmptyRules == {"min_clauses", "min_operations"}
IdentityRequires == [identified |-> Requirement("identityFields", "required")]
ShapeRequires ==
    [enumeration |-> Requirement("variants", "required"),
     alias |-> Requirement("target", "required"),
     tuple |-> Requirement("positions", "required")]

----------------------------------------------------------------------------
(* A declaration as it is written: its members and references are the      *)
(* entries of an object, repeats included.                                 *)

NoMember == [is |-> "absent", entries |-> <<>>]
NotAList == [is |-> "other", entries |-> <<>>]
Listed(entries) == [is |-> "listed", entries |-> entries]

Where(defect, pointer) == IF defect THEN <<pointer>> ELSE <<>>
Each(entries, Defects(_)) == FlattenSeq([k \in DOMAIN entries |-> Defects(k)])

presence(declared, member) ==
    LET listed == SelectSeq(declared, LAMBDA entry : entry[1] = member)
    IN IF listed # <<>> THEN Head(listed)[2]
       ELSE IF member \in OptionalMembers THEN "optional" ELSE "forbidden"
Lacks(declared, required) == presence(declared, required.member) # required.presence

\* Up to the members: whether it is an object of the members a declaration
\* has, and its two terms.
HeadDefects(d) ==
    Where(~d.whole, <<>>)
    \o Where(d.identity \notin Identities, <<"identity">>)
    \o Where(d.shape \notin Shapes, <<"shape">>)
    \o Where(d.members = NotAList, <<"members">>)

\* `repeats` are the positions of the entries that repeat a member.
MemberDefects(entries, repeats) ==
    Each(entries, LAMBDA k : Where(
        \/ entries[k][1] \notin Members
        \/ k \in repeats
        \/ entries[k][2] \notin Presences, <<"members", entries[k][1]>>))

RoleDefects(at, roles) ==
    Each(roles, LAMBDA k : Where(
        \/ roles[k] \in {"", "*"}
        \/ \E j \in 1 .. (k - 1) : roles[j] = roles[k], at \o <<k>>))

ReferenceDefects(entries, repeats) ==
    Each(entries, LAMBDA k :
        LET at == <<"references", entries[k][1]>>
        IN Where(\/ entries[k][1] \notin DOMAIN ReferenceItems
                 \/ k \in repeats
                 \/ entries[k][2] = <<>>, at)
           \o RoleDefects(at, entries[k][2]))

RuleDefects(entries) ==
    Each(entries, LAMBDA k : Where(
        \/ entries[k] \notin DOMAIN RuleRequires
        \/ \E j \in 1 .. (k - 1) : entries[j] = entries[k], <<"rules", k>>))

TailDefects(d, repeats) ==
    Where(d.references = NotAList, <<"references">>)
    \o ReferenceDefects(d.references.entries, repeats)
    \o Where(d.rules = NotAList, <<"rules">>)
    \o RuleDefects(d.rules.entries)
    \o Where(d.meaning = "", <<"meaning">>)
    \o Where(d.immutable \notin {"absent", "true", "false"}, <<"immutable">>)

RulesDeclared(declared, rules) ==
    Each(rules, LAMBDA k : Where(
        /\ rules[k] \in DOMAIN RuleRequires
        /\ Lacks(declared, RuleRequires[rules[k]]), <<"rules", k>>))

ReferencesAdmitted(declared, references) ==
    Each(references, LAMBDA k : Where(presence(declared, references[k][1]) = "forbidden",
                                      <<"references", references[k][1]>>))

Inconsistencies(d, declared) ==
    Where(d.identity \in DOMAIN IdentityRequires
          /\ Lacks(declared, IdentityRequires[d.identity]), <<"identity">>)
    \o Where(d.shape \in DOMAIN ShapeRequires
             /\ Lacks(declared, ShapeRequires[d.shape]), <<"shape">>)
    \o RulesDeclared(declared, d.rules.entries)
    \o ReferencesAdmitted(declared, d.references.entries)

\* The Rust reader sees every entry of an object, and refuses a repeated one.
Repeats(entries) ==
    {k \in DOMAIN entries : \E j \in 1 .. (k - 1) : entries[j][1] = entries[k][1]}
TargetDefects(d) ==
    Where(d.shape # "alias" /\ presence(d.members.entries, "target") # "forbidden",
          <<"members", "target">>)

\* The first defect is the one named.
RustDefects(d) ==
    HeadDefects(d)
    \o MemberDefects(d.members.entries, Repeats(d.members.entries))
    \o TailDefects(d, Repeats(d.references.entries))
    \o Inconsistencies(d, d.members.entries)
    \o TargetDefects(d)

\* The compiler's reader has parsed objects: of a repeated member, the first
\* position and the last value.
Parsed(entries) ==
    LET firsts == SelectSeq([k \in DOMAIN entries |-> k],
                    LAMBDA k : \A j \in 1 .. (k - 1) : entries[j][1] # entries[k][1])
    IN [n \in DOMAIN firsts |->
          LET name == entries[firsts[n]][1]
          IN <<name, Last(SelectSeq(entries, LAMBDA entry : entry[1] = name))[2]>>]
ParsedDeclaration(d) ==
    [d EXCEPT !.members.entries = Parsed(@), !.references.entries = Parsed(@)]
readDeclarationDefects(value) ==
    LET d == ParsedDeclaration(value)
    IN HeadDefects(d) \o MemberDefects(d.members.entries, {}) \o TailDefects(d, {})
       \o Inconsistencies(d, d.members.entries)

\* What a reader keeps of a declaration without a defect.
KeptOf(d) ==
    [identity |-> d.identity, shape |-> d.shape, members |-> d.members.entries,
     references |-> d.references.entries, rules |-> d.rules.entries,
     meaning |-> d.meaning, immutable |-> d.immutable = "true"]
to_json(declaration) ==
    [whole |-> TRUE, identity |-> declaration.identity, shape |-> declaration.shape,
     members |-> Listed(declaration.members),
     references |-> Listed(declaration.references),
     rules |-> Listed(declaration.rules), meaning |-> declaration.meaning,
     immutable |-> IF declaration.immutable THEN "true" ELSE "absent"]

\* Each spelling once, in the order first met.
Once(texts) ==
    FoldLeft(LAMBDA kept, text : IF Contains(kept, text) THEN kept ELSE Append(kept, text),
             <<>>, texts)
referenced_roles(declaration) ==
    Once(FlattenSeq([k \in DOMAIN declaration.references |-> declaration.references[k][2]]))
Spelled(roles, spellings) == Once(FlattenSeq([k \in DOMAIN roles |-> spellings[roles[k]]]))
with_roles(declaration, spellings) ==
    [declaration EXCEPT !.references =
        [k \in DOMAIN @ |-> <<@[k][1], Spelled(@[k][2], spellings)>>]]

----------------------------------------------------------------------------
(* The table of a document, and its types against it.  A type has a kind,  *)
(* which is a core kind or one the table may declare, the members it       *)
(* carries and which of these are empty lists; a population has a kind.    *)

CoreKinds == {"scalar", "record", "enum", "union", "alias", "reference"}
PopulationMeaning == "population"

At(i, last) == <<"constructs", i, last>>
FirstOf(table, kind) ==
    CHOOSE i \in DOMAIN table :
        table[i].kind = kind /\ \A j \in 1 .. (i - 1) : table[j].kind # kind
Declares(table, kind) == \E i \in DOMAIN table : table[i].kind = kind
SaidAgain(table) == {i \in DOMAIN table : FirstOf(table, table[i].kind) # i}

Used(document) ==
    {document.types[j].kind : j \in DOMAIN document.types} \cup ToSet(document.populations)

DeclarationFindings(table, Defects(_)) ==
    {<<"constructs", i, "construct">> \o Head(Defects(table[i].construct)) :
        i \in {i \in DOMAIN table : Defects(table[i].construct) # <<>>}}

\* The presence of each member, and the lists a rule asks an entry of.
Conformance(declaration, type, at) ==
    {at : m \in {m \in Members : presence(declaration.members, m) = "required"} \ type.has}
    \cup {at \o <<m>> : m \in {m \in type.has : presence(declaration.members, m) = "forbidden"}}
    \cup {at \o <<RuleRequires[r].member>> :
            r \in {r \in ToSet(declaration.rules) \cap NonEmptyRules :
                     RuleRequires[r].member \in type.empty}}

\* Only the Rust schema layer asks an entry of these here.
EmptyFindings(type, at) ==
    {at \o <<m>> : m \in type.empty \cap {"identityFields", "featureOrder", "positions"}}

RustTypeFindings(table, type, at) ==
    IF type.kind \in CoreKinds
    THEN {at \o <<m>> : m \in (type.has \cap ForbiddenMembers)
                             \ (IF type.kind \in {"alias", "reference"} THEN {"target"} ELSE {})}
    ELSE IF ~Declares(table, type.kind) THEN {at \o <<"kind">>}
    ELSE LET construct == table[FirstOf(table, type.kind)].construct
         IN IF RustDefects(construct) # <<>> THEN {}
            ELSE Conformance(KeptOf(construct), type, at) \cup EmptyFindings(type, at)

\* Mutant: the kind of a population is not looked up.
PopulationsUnchecked(document) == {}
PopulationFindings(document) ==
    {<<"populations", j, "kind">> :
        j \in {j \in DOMAIN document.populations :
                 ~Declares(document.constructs, document.populations[j])}}

constructs_schema(document) ==
    LET table == document.constructs
    IN DeclarationFindings(table, RustDefects)
       \cup {At(i, "kind") : i \in SaidAgain(table)}
       \cup UNION {RustTypeFindings(table, document.types[j], <<"types", j>>) :
                     j \in DOMAIN document.types}
       \cup PopulationFindings(document)
       \cup {At(i, "kind") : i \in {i \in DOMAIN table :
               /\ table[i].kind \notin Used(document)
               /\ table[i].construct.meaning # PopulationMeaning}}

\* The members no core kind carries: `target` is one a core kind requires.
constructOnlyMembers == ForbiddenMembers \ {"target"}

CompilerTypeFindings(table, type, at) ==
    IF type.kind \in CoreKinds THEN {at \o <<m>> : m \in type.has \cap constructOnlyMembers}
    ELSE IF ~Declares(table, type.kind) THEN {at \o <<"kind">>}
    ELSE LET construct == table[FirstOf(table, type.kind)].construct
         IN IF readDeclarationDefects(construct) # <<>> THEN {}
            ELSE Conformance(KeptOf(ParsedDeclaration(construct)), type, at)

checkConstructs(document) ==
    LET table == document.constructs
    IN DeclarationFindings(table, readDeclarationDefects)
       \cup {At(i, "kind") : i \in SaidAgain(table)}
       \cup UNION {CompilerTypeFindings(table, document.types[j], <<"types", j>>) :
                     j \in DOMAIN document.types}
       \cup PopulationFindings(document)
       \cup {At(i, "kind") : i \in {i \in DOMAIN table \ SaidAgain(table) :
               /\ table[i].kind \notin Used(document)
               /\ table[i].construct.meaning # PopulationMeaning}}

\* constructTable: the first entry of a kind that reads.
FirstRead(table, reads) ==
    [kind \in {table[i].kind : i \in reads} |->
        LET first == CHOOSE i \in reads :
              /\ table[i].kind = kind
              /\ \A j \in reads : table[j].kind = kind => i <= j
        IN KeptOf(ParsedDeclaration(table[first].construct))]
constructTable(document) ==
    FirstRead(document.constructs,
              {i \in DOMAIN document.constructs : readDeclarationDefects(document.constructs[i].construct) = <<>>})

----------------------------------------------------------------------------
(* The entries of a reference member of a type, each with its pointer.     *)

IsNamed(value, at) ==
    IF value.kind = "string" THEN {<<at, value.text>>}
    ELSE IF value.kind = "array"
    THEN {<<at \o <<k>>, Values(value)[k].text>> :
            k \in {k \in DOMAIN value.parts : Values(value)[k].kind = "string"}}
    ELSE {}
NamedIn(item, at, items) ==
    UNION {IF Has(item, m) THEN IsNamed(Get(item, m), at \o <<m>>) ELSE {} : m \in ToSet(items)}

RustItems(value, at) ==
    (IF value.kind = "array"
     THEN {<<at \o <<k>>, Values(value)[k]>> : k \in DOMAIN value.parts} ELSE {})
    \cup (IF value.kind = "object" THEN {<<at, value>>} ELSE {})
reference_entries(value, at, member) ==
    LET items == ReferenceItems[member]
    IN IF items = <<>> THEN IsNamed(value, at)
       ELSE UNION {NamedIn(entry[2], entry[1], items) : entry \in RustItems(value, at)}

\* The compiler: the items of a list, or the value itself, those that are objects.
referenceEntries(value, at, member) ==
    LET items == ReferenceItems[member]
        each == IF value.kind = "array"
                THEN {<<at \o <<k>>, Values(value)[k]>> : k \in DOMAIN value.parts}
                ELSE {<<at, value>>}
    IN IF items = <<>> THEN IsNamed(value, at)
       ELSE UNION {NamedIn(entry[2], entry[1], items) :
                     entry \in {entry \in each : entry[2].kind = "object"}}

-----------------------------------------------------------------------------
(***************************************************************************)
(* What types inherit and what they may say of it: the rules of            *)
(* crates/semantic-ir/src/constructs.rs, the views the backends render     *)
(* from (compiler/constructs.mjs), and the classes the Python backend      *)
(* makes of them (python_backend/runner/constructs.py).                    *)
(*                                                                         *)
(* A document's types are a sequence, and a type is its position.          *)
(* types[t].supertypes names types in authored order; a number that is no  *)
(* position names a type the document does not declare.                    *)
(***************************************************************************)

Supertypes(types, t) == types[t].supertypes
IsDeclared(types, t) == t \in DOMAIN types

----------------------------------------------------------------------------
(* Three walks of the transitive supertypes.                               *)

Pushed(frontier, found) == Front(frontier) \o found
RECURSIVE RustWalk(_, _, _, _)
RustWalk(types, frontier, out, seen) ==
    IF frontier = <<>> THEN out
    ELSE LET read == FoldLeft(LAMBDA s, name :
                       IF name \in s.seen THEN s
                       ELSE [seen |-> s.seen \cup {name},
                             found |-> IF IsDeclared(types, name) THEN Append(s.found, name)
                                       ELSE s.found],
                     [seen |-> seen, found |-> <<>>], Supertypes(types, Last(frontier)))
         IN RustWalk(types, Pushed(frontier, read.found), out \o read.found, read.seen)
ancestors(types, t) == RustWalk(types, <<t>>, <<>>, {t})

PutLast(name, below) == Append(below, name)
RECURSIVE Visit(_, _, _)
Visit(types, t, seen) ==
    FoldLeft(LAMBDA s, name :
               IF name \in s.seen THEN s
               ELSE IF ~IsDeclared(types, name) THEN [s EXCEPT !.seen = @ \cup {name}]
               ELSE LET below == Visit(types, name, s.seen \cup {name})
                    IN [seen |-> below.seen,
                        ordered |-> s.ordered \o PutLast(name, below.ordered)],
             [seen |-> seen, ordered |-> <<>>], Supertypes(types, t))
ancestorsOf(types, t) == Visit(types, t, {t}).ordered

\* constructs.py: each path on its own, marked with what is on it.
RECURSIVE PathWalk(_, _, _)
PathWalk(types, t, seen) ==
    IF ~IsDeclared(types, t) THEN <<>>
    ELSE FlattenSeq([k \in DOMAIN Supertypes(types, t) |->
           LET parent == Supertypes(types, t)[k]
           IN IF parent \in seen THEN <<>>
              ELSE <<parent>> \o PathWalk(types, parent, seen \cup {parent})])
python_ancestors(types, t) == PathWalk(types, t, {})

----------------------------------------------------------------------------
(* types_on_a_supertype_cycle: the strongly connected components of the    *)
(* supertypes, by one pass with a stack of frames.  0 is UNSEEN.           *)

Targets(types, t) == SelectSeq(Supertypes(types, t), LAMBDA name : IsDeclared(types, name))
LOCAL AncestorFrame(node) == [node |-> node, taken |-> 0]

FrameOpened(s, node) ==
    [s EXCEPT !.order[node] = s.next, !.low[node] = s.next, !.next = @ + 1,
              !.stack = Append(@, node), !.frames = Append(@, AncestorFrame(node))]
Lowered(s, node, to) == [s EXCEPT !.low[node] = IF to < @ THEN to ELSE @]

OnACycle(types, node, component) ==
    Len(component) > 1 \/ Contains(Targets(types, node), node)

Closed(types, s, node) ==
    IF s.low[node] # s.order[node] THEN s
    ELSE LET from == CHOOSE k \in DOMAIN s.stack : s.stack[k] = node
             component == SubSeq(s.stack, from, Len(s.stack))
         IN [s EXCEPT !.stack = SubSeq(@, 1, from - 1),
                      !.cyclic = IF OnACycle(types, node, component)
                                 THEN @ \cup ToSet(component) ELSE @]

RECURSIVE Search(_, _)
Search(types, s) ==
    IF s.frames = <<>> THEN s
    ELSE LET top == Last(s.frames)
             edges == Targets(types, top.node)
             moved == [s EXCEPT !.frames[Len(s.frames)].taken = @ + 1]
             popped == [s EXCEPT !.frames = Front(@)]
         IN Search(types,
              IF top.taken < Len(edges)
              THEN LET target == edges[top.taken + 1]
                   IN IF s.order[target] = 0 THEN FrameOpened(moved, target)
                      ELSE IF Contains(s.stack, target)
                      THEN Lowered(moved, top.node, s.order[target])
                      ELSE moved
              ELSE Closed(types,
                     IF popped.frames = <<>> THEN popped
                     ELSE Lowered(popped, Last(popped.frames).node, s.low[top.node]),
                     top.node))
types_on_a_supertype_cycle(types) ==
    LET zero == [t \in DOMAIN types |-> 0]
    IN FoldLeft(LAMBDA s, root : IF s.order[root] # 0 THEN s
                                 ELSE Search(types, FrameOpened(s, root)),
                [order |-> zero, low |-> zero, next |-> 1, stack |-> <<>>, frames |-> <<>>,
                 cyclic |-> {}],
                [t \in DOMAIN types |-> t]).cyclic

OfItsKind(types, t, name) == IsDeclared(types, name) /\ types[name].kind = types[t].kind
supertypes(types, t) ==
    {<<t, "supertypes", k>> : k \in {k \in DOMAIN Supertypes(types, t) :
                                       ~OfItsKind(types, t, Supertypes(types, t)[k])}}
    \cup (IF t \in types_on_a_supertype_cycle(types) THEN {<<t, "supertypes">>} ELSE {})

----------------------------------------------------------------------------
(* Fields.  A field has an identity, a name, bounds, where Unbounded is no *)
(* upper one, and the identity it redefines, or NoField.                   *)

Endless == -1
NoField == 0
Fields(types, t) == types[t].fields
Inherited(types, t) ==
    LET line == ancestors(types, t)
    IN FlattenSeq([k \in DOMAIN line |-> Fields(types, line[k])])
visible_fields(types, t) == Fields(types, t) \o Inherited(types, t)

narrows(field, redefined) ==
    /\ field.lower >= redefined.lower
    /\ \/ redefined.upper = Endless
       \/ field.upper # Endless /\ field.upper <= redefined.upper

FirstNamed(list, identity) == SelectSeq(list, LAMBDA field : field.identity = identity)
features(types, t) ==
    {<<t, "fields", k>> : k \in {k \in DOMAIN Fields(types, t) :
       LET field == Fields(types, t)[k]
           redefined == FirstNamed(Inherited(types, t), field.redefines)
       IN field.redefines # NoField /\ (redefined = <<>> \/ ~narrows(field, Head(redefined)))}}

redefined_operation(operation, redefined) ==
    IF operation.returns /\ redefined.returns THEN narrows(operation, redefined)
    ELSE operation.returns = redefined.returns

Redefined(types, t, declared) == {f.redefines : f \in ToSet(declared)} \ {NoField}
effectiveFields(types, t) ==
    LET line == ancestorsOf(types, t)
        declared == FlattenSeq([k \in DOMAIN line |-> Fields(types, line[k])])
                    \o Fields(types, t)
        gone == Redefined(types, t, declared)
    IN SelectSeq(declared, LAMBDA f : f.identity \notin gone)

\* identityFieldNames: by the identities of every field, redefined or not.
fieldIndex(types, t) ==
    ToSet(Fields(types, t)) \cup UNION {ToSet(Fields(types, a)) : a \in ToSet(ancestorsOf(types, t))}
identityFieldNames(types, t, identities) ==
    {f.name : f \in {f \in fieldIndex(types, t) : f.identity \in identities}}
identity_fields(types, t, identities) ==
    {i \in identities : FirstNamed(visible_fields(types, t), i) = <<>>}

\* inheritedNameCollisions: of the names of what a subtype carries.
inheritedNameCollisions(types, t) ==
    LET carried == effectiveFields(types, t)
    IN IF Supertypes(types, t) = <<>> THEN {}
       ELSE {carried[k].name : k \in {k \in DOMAIN carried :
               \E j \in 1 .. (k - 1) : carried[j].name = carried[k].name}}

----------------------------------------------------------------------------
(* What a type and its supertypes declare, and the members that name it.   *)

VisibleTo(types, t) == {t} \cup ToSet(ancestors(types, t))

\* Each type declares one state, one operation and one clause, named by it.
transitions(types, t, transition) ==
    {end \in {"from", "to", "trigger", "guard"} : transition[end] \notin VisibleTo(types, t)}

\* featureOrder against the identities of the type's own features.
UnknownEntries(order, own) ==
    {k \in DOMAIN order : Cardinality({j \in DOMAIN own : own[j] = order[k]}) # 1}
Unnamed(order, own) == {k \in DOMAIN own : ~Contains(order, own[k])}
feature_order(order, own) == UnknownEntries(order, own) # {} \/ Unnamed(order, own) # {}

\* Membership of the types whose construct asks it to be exclusive: the first
\* type to name another is its owner.
\* types[t].members names types, types[t].namespace is whether its construct
\* has that shape and selects both membership rules, and types[t].role is its
\* role.
Namespaces(types) == {t \in DOMAIN types : types[t].namespace}
Owners(types, name) == {t \in Namespaces(types) : Contains(types[t].members, name)}
\* Mutant: a type is excluded by the one before it only.
OwnedJustBefore(types, t, name) == t - 1 \in Owners(types, name)
OwnedBefore(types, t, name) == \E o \in Owners(types, name) : o < t
exclusive_membership(types) ==
    UNION {{<<t, k>> : k \in {k \in DOMAIN types[t].members :
                                OwnedBefore(types, t, types[t].members[k])}} :
             t \in Namespaces(types)}
members_not_namespace(types) ==
    UNION {{<<t, k>> : k \in {k \in DOMAIN types[t].members :
                                types[t].members[k] \in Namespaces(types)}} :
             t \in Namespaces(types)}
references(types, admitted) ==
    UNION {{<<t, k>> : k \in {k \in DOMAIN types[t].members :
                LET name == types[t].members[k]
                IN ~IsDeclared(types, name) \/ types[name].role \notin admitted}} :
             t \in Namespaces(types)}

\* A tuple's positions are p0 to pN-1 in order; a repeated one is refused as
\* a duplicate identity, and not again here.
tuple(positions) ==
    {k \in DOMAIN positions :
       /\ ~\E j \in 1 .. (k - 1) : positions[j] = positions[k]
       /\ positions[k] # k - 1}

----------------------------------------------------------------------------
(* refine: the classes of a generated Python package.  A type of a kind    *)
(* with instances has a class, and an abstract one is an ABC whose bases   *)
(* are its own abstract supertypes.                                        *)

HasClass(types, t) == types[t].instances
Bases(types, t) ==
    SetToSortSeq({a \in ToSet(Supertypes(types, t)) : IsDeclared(types, a) /\ types[a].abstract}, <)
Registered(types, t) ==
    {a \in ToSet(python_ancestors(types, t)) : IsDeclared(types, a) /\ types[a].abstract}

\* The class objects `refine` looks up without asking whether there are any.
ClassesNamed(types) ==
    UNION {IF ~HasClass(types, t) THEN {}
           ELSE IF types[t].abstract THEN ToSet(Bases(types, t))
           ELSE Registered(types, t) : t \in DOMAIN types}

\* The method resolution order Python gives a class, or none: merge the
\* orders of the bases and the bases, taking a head that is in no tail.
NoOrder == <<0>>
Tail1(list) == SubSeq(list, 2, Len(list))
RECURSIVE Merge(_)
Merge(lists) ==
    LET some == SelectSeq(lists, LAMBDA list : list # <<>>)
        heads == SelectSeq(some, LAMBDA list :
                   \A k \in DOMAIN some : ~Contains(Tail1(some[k]), Head(list)))
    IN IF some = <<>> THEN <<>>
       ELSE IF heads = <<>> THEN NoOrder
       ELSE LET taken == Head(Head(heads))
                rest == Merge([k \in DOMAIN some |->
                          IF Head(some[k]) = taken THEN Tail1(some[k]) ELSE some[k]])
            IN IF rest = NoOrder THEN NoOrder ELSE <<taken>> \o rest
RECURSIVE ResolutionOrder(_, _)
ResolutionOrder(types, t) ==
    LET bases == Bases(types, t)
        orders == [k \in DOMAIN bases |-> ResolutionOrder(types, bases[k])]
        merged == Merge(Append(orders, bases))
    IN IF Contains(orders, NoOrder) \/ merged = NoOrder THEN NoOrder ELSE <<t>> \o merged
=============================================================================
