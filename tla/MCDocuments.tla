--------------------------- MODULE MCDocuments ----------------------------
(***************************************************************************)
(* ReaderRules and OracleRules over the same documents: two plain types,   *)
(* then a third with one thing of every kind in it.                        *)
(***************************************************************************)
EXTENDS ReaderRules, OracleRules, TLC, Constructs, Compat

VARIABLE findings   \* of each reader

rulesVars == <<document, findings>>

-----------------------------------------------------------------------------
Definition(id, kind) ==
  [id |-> id, kind |-> kind, to |-> NoRef, scalar |-> "", policy |-> <<>>, fields |-> <<>>, variants |-> <<>>,
   positions |-> <<>>, constraints |-> <<>>, relations |-> <<>>, clauses |-> <<>>, operations |-> <<>>]
To(id, kind, ref) == [Definition(id, kind) EXCEPT !.to = ref]
Narrow == <<<<2, 1>>>>
None == [kind |-> "none", values |-> <<>>]
One(v) == [kind |-> "one", values |-> <<v>>]
List(vs) == [kind |-> "list", values |-> vs]
Member(id, ref) ==
  [id |-> id, name |-> "n", ref |-> ref, presence |-> "required", lower |-> 1, upper |-> 1, nullable |-> FALSE, unit |-> FALSE,
   profile |-> FALSE, policy |-> <<>>, default |-> None, constraints |-> <<>>]
Constraint(keyword, ref, values) == [id |-> "c", keyword |-> keyword, to |-> ref, values |-> values, policy |-> <<>>]
Relation(from, to) == [id |-> "r", from |-> from, to |-> to, lower |-> 0, upper |-> NoUpper]
Clause(id, clauseId) == [id |-> id, clauseId |-> clauseId, sourced |-> FALSE, spanned |-> FALSE]
Operation == [id |-> "o", params |-> <<>>, returns |-> <<>>, bound |-> {}]

Terminals == {"integer", "decimal", "string", Clock, Unit, BadUnit, Misspelt, Foreign, Lost}
Refs == Terminals \cup {"A", "B", "C"}

First ==
  {To("B", kind, ref) : kind \in {"alias", "named", "option"}, ref \in Refs}
    \cup {[To("B", "alias", ref) EXCEPT !.policy = Narrow] : ref \in {"C", "decimal", "integer"}}
    \cup {To("B", kind, ref) : kind \in {"sequence", "map", "reference"}, ref \in {"A", "C", "decimal", Unit}}
    \cup {[Definition("B", "scalar") EXCEPT !.scalar = s] : s \in Natives}
    \cup {[Definition("B", "scalar") EXCEPT !.scalar = "decimal", !.policy = Narrow],
          Definition("B", "record"), Definition("B", "enum"), Definition("B", "interface"), Definition("A", "record")}
Second ==
  {To("C", kind, ref) : kind \in {"alias", "named", "option"}, ref \in {"A", "B", "decimal", Clock}}
    \cup {[To("C", "alias", "decimal") EXCEPT !.policy = Narrow], [Definition("C", "scalar") EXCEPT !.scalar = "decimal"],
          Definition("C", "record")}

SiteValues == {"int", "bigint", "dec", "longdec", "text", "f32", "f64", "true", "null"}
Defaults == {One(v) : v \in SiteValues} \cup {List(<<>>), List(<<"int", "dec">>), List(<<"int">>)}
Owner == Definition("A", "record")
Twice(x, name, id) == <<x, [x EXCEPT !.name = name, !.id = id]>>
Having(fields) == [Owner EXCEPT !.fields = fields]
Constrained(c) == [Owner EXCEPT !.constraints = <<c>>]

\* What may be said of a type once: the first three along a chain of two types,
\* the rest of one type or a native.
Along(ref) ==
  {To("A", kind, ref) : kind \in {"alias", "named", "option", "sequence", "reference"}}
    \cup {[To("A", kind, ref) EXCEPT !.policy = Narrow] : kind \in {"alias", "sequence"}}
    \cup {Having(<<f>>) : f \in {Member("f", ref), [Member("f", ref) EXCEPT !.policy = Narrow],
                                 [Member("f", ref) EXCEPT !.nullable = TRUE], [Member("f", ref) EXCEPT !.presence = "optional"]}
                             \cup {[Member("f", ref) EXCEPT !.default = One(v)] : v \in {"dec", "longdec"}}}
    \cup {Constrained(Constraint("min", ref, <<v>>)) : v \in {"int", "dec"}}
FieldsOf(ref) ==
  LET f == Member("f", ref) IN
  {[f EXCEPT !.presence = "optional", !.lower = 0], [f EXCEPT !.unit = TRUE], [f EXCEPT !.profile = TRUE], [f EXCEPT !.upper = 0],
   [f EXCEPT !.constraints = <<Constraint("min", "f", <<"int">>)>>], [f EXCEPT !.default = One("null"), !.nullable = TRUE]}
    \cup {[f EXCEPT !.default = d, !.upper = u, !.policy = p] : d \in Defaults, u \in {1, 2}, p \in {<<>>, Narrow}}
Constraints(ref) ==
  {Constraint(k, ref, <<v>>) : k \in {"min", "exclusiveMax", "enumValues"}, v \in SiteValues \ {"null"}}
    \cup {Constraint("enumValues", ref, <<"int", "dec">>)}
    \cup {Constraint("pattern", ref, <<v>>) : v \in {"good", "bad"}}
    \cup {Constraint(k, ref, <<"good">>) : k \in {"nonEmpty", "unique"}}
Returns(ref) == {[Member("returns", ref) EXCEPT !.upper = u, !.nullable = n, !.policy = p] :
                   u \in {0, 1}, n \in BOOLEAN, p \in {<<>>, Narrow}}
Of(ref) ==
  Along(ref)
    \cup {Having(<<f>>) : f \in FieldsOf(ref)}
    \cup {Constrained(c) : c \in Constraints(ref)}
    \cup {To("A", "map", ref)}
    \cup {[Definition("A", "union") EXCEPT !.variants = <<[id |-> "v", ref |-> r, policy |-> <<>>]>>] : r \in {ref, NoRef}}
    \cup {[Definition("A", "tuple") EXCEPT !.positions = <<[id |-> "v", ref |-> ref, policy |-> <<>>]>>]}
    \cup {[Owner EXCEPT !.relations = <<Relation("A", ref)>>]}
    \cup {[Owner EXCEPT !.operations = <<o>>] :
            o \in {[Operation EXCEPT !.params = <<Member("p", ref)>>]} \cup {[Operation EXCEPT !.returns = <<r>>] : r \in Returns(ref)}}

\* What is wrong in a type whatever its references are.
Sourced(spanned) == [Clause("k", "k") EXCEPT !.sourced = TRUE, !.spanned = spanned]
Apart ==
  {Having(fs) : fs \in {Twice(Member("f", "integer"), "n", "g"), Twice(Member("f", "integer"), "m", "g"), Twice(Member("f", "integer"), "m", "f")}}
    \cup {Having(<<[Member("f", "decimal") EXCEPT !.policy = Narrow, !.constraints = cs]>>) :
            cs \in {<<Constraint("min", "f", <<v>>)>> : v \in SiteValues}}
    \cup {[Owner EXCEPT !.operations = <<[Operation EXCEPT !.params = Twice(Member("p", "integer"), n, i), !.bound = b]>>, !.clauses = cs] :
            n \in {"n", "m"}, i \in {"p", "q"}, b \in {{"k"}, {"k", "l"}},
            cs \in {<<Clause("k", "k")>>, <<Clause("k", "k"), Clause("l", "l")>>, <<Clause("k", "k"), Clause("l", "k")>>}}
    \cup {[Owner EXCEPT !.clauses = <<c>>] : c \in {Sourced(FALSE), Sourced(TRUE)}}
    \cup {[Owner EXCEPT !.relations = <<r>>] :
            r \in {Relation("B", "A"), [Relation(NoRef, "A") EXCEPT !.lower = 1, !.upper = 0], [Relation("A", "A") EXCEPT !.id = "A"]}}

Alone == First \cup Apart \cup UNION {Of(ref) : ref \in Refs \cup Natives}
After == Of("B")
Chained == Along("B") \cup Along("C")

Environments ==
  [occurrences : {<<>>, <<[id |-> "occurrence", to |-> "B"]>>}, exports : {{}}, resolved : {FALSE}]
    \cup [occurrences : {<<>>}, exports : {{Foreign}}, resolved : {TRUE}]

Under(types, e) == [types |-> types, occurrences |-> e.occurrences, exports |-> e.exports, resolved |-> e.resolved]
Unread == [rust |-> {"unread"}, compiler |-> {"unread"}, oracle |-> {"unread"}]
RulesIdle == document = Under(<<>>, [occurrences |-> <<>>, exports |-> {}, resolved |-> FALSE]) /\ findings = Unread
RulesInit == document \in {Under(<<>>, e) : e \in Environments} /\ findings = Unread

\* A document is written type by type, then read by all three.
Say(definitions) ==
  \E d \in definitions : document' = [document EXCEPT !.types = Append(@, d)] /\ UNCHANGED findings
SayFirst == TypesSaid = <<>> /\ Say(Alone)
SaySecond == Len(TypesSaid) = 1 /\ Last(TypesSaid).id = "B" /\ Say(After)
SayMiddle == Len(TypesSaid) = 1 /\ Last(TypesSaid) \in First /\ document.occurrences = <<>> /\ Say(Second)
SayThird == Len(TypesSaid) = 2 /\ Last(TypesSaid).id = "C" /\ Say(Chained)
Read ==
  /\ TypesSaid # <<>>
  /\ findings' = [rust |-> decide, compiler |-> readContractIr, oracle |-> verdict]
  /\ UNCHANGED document
RulesNext == (findings = Unread /\ (SayFirst \/ SaySecond \/ SayMiddle \/ SayThird)) \/ Read

-----------------------------------------------------------------------------
Accepted(reader) == findings # Unread /\ findings[reader] = {}
\* What the core kinds alone can say: what the oracle knows.
RefsOf(d) ==
  {d.to} \cup {x.ref : x \in MembersOf(d) \cup ToSet(d.variants \o d.positions)}
    \cup (UNION {{r.ref : r \in ToSet(o.returns)} : o \in ToSet(d.operations)})
    \cup {c.to : c \in ToSet(d.constraints)}
    \cup (UNION {{c.to : c \in ToSet(f.constraints)} : f \in MembersOf(d)})
Core ==
  \A d \in ToSet(TypesSaid) :
    /\ d.kind \in ValueKinds \ {"option"}
    /\ RefsOf(d) \cap {Clock, Unit, BadUnit, "f"} = {}

\* Where a reference leads through every alias, and all it passes on the way.
Trail(ref) == Walk(<<ref>>, AllAliases, FALSE)
Reached(ref) == Last(Trail(ref))
TypePositions == UNION {type_positions(d) : d \in ToSet(TypesSaid)}

(* Every reference of a document the Rust reader accepts leads, through      *)
(* aliases of core and construct kinds in any order, to a type, a native     *)
(* scalar or one of the two special references: no chain that a later stage  *)
(* follows ends nowhere or never ends (rules.rs:634-806, 1347-1460).         *)
AcceptedResolves ==
  Accepted("rust") =>
    \A p \in TypePositions : p.kind # "constraint" =>
      \/ Reached(p.ref) \in {Clock, Unit} \cup Natives
      \/ Reached(p.ref) \in DeclaredIds /\ ~Aliased(Reached(p.ref))

(* Where the Rust reader accepts a document with no alias of a construct     *)
(* kind, each position that leads to a decimal meets exactly one policy on   *)
(* the way, its own counted, and a position that leads elsewhere meets none: *)
(* a lowered decimal never has two scales or none (rules.rs:591-625).        *)
OneDecimalPolicy ==
  Accepted("rust") /\ (\A d \in ToSet(TypesSaid) : d.kind # "named") =>
    \A p \in TypePositions : p.kind # "constraint" /\ EndOf(Trail(p.ref)) # NoRef =>
      Len(p.subject.policy \o Carried(Trail(p.ref))) = (IF ScalarOf(Reached(p.ref)) = "decimal" THEN 1 ELSE 0)

(* Neither reader lets an option hold an option, whatever chain of aliases   *)
(* stands between them, nor a reference or an optional member of             *)
(* multiplicity one lead to one (rules.rs:1645-1695, reader.mjs:1128-1180).  *)
OptionsDoNotNest ==
  \A reader \in {"rust", "compiler"} : Accepted(reader) =>
    \A d \in ToSet(TypesSaid) :
      LET option(ref) == Reached(ref) \in DeclaredIds /\ NodeOf(Reached(ref)).kind = "option" IN
      /\ d.kind \in {"option", "reference"} => ~option(d.to)
      /\ \A f \in MembersOf(d) : f.presence = "optional" /\ f.lower = 1 /\ f.upper = 1 => ~option(f.ref)

(* Neither reader lets a clock be the inner of an option or a variant's      *)
(* payload, or a member that leads to a clock or a quantity carry a default, *)
(* a unit, a policy, a profile or constraints, or a clock be null, by        *)
(* whatever alias it is reached (rules.rs:1835-1871, reader.mjs:543-576).    *)
SpecialMembersAreBare ==
  \A reader \in {"rust", "compiler"} : Accepted(reader) =>
    \A d \in ToSet(TypesSaid) :
      /\ d.kind = "option" => Reached(d.to) # Clock
      /\ \A v \in ToSet(d.variants) : Reached(v.ref) # Clock
      /\ \A f \in MembersOf(d) \cup UNION {ToSet(o.returns) : o \in ToSet(d.operations)} :
           Reached(f.ref) \in {Clock, Unit} =>
             /\ f.default.kind = "none" /\ ~f.unit /\ ~f.profile /\ f.policy = <<>> /\ f.constraints = <<>>
             /\ f.nullable => Reached(f.ref) = Unit

\* The one policy a subject's values are under; a member is one's own start.
PolicyOf(ref) == Carried(Walk(<<ref>>, AllAliases, TRUE))
Belongs(v, scalar, policies) ==
  CASE scalar = "integer" -> v \in InI128
    [] scalar = "decimal" -> Len(policies) = 1 /\ WithinPolicy(v, policies[1])
    [] scalar = "float32" -> v = "f32"
    [] scalar = "float64" -> v \in Numbers
    [] OTHER -> TRUE
(* In a document the Rust reader or the compiler's accepts, every bound and  *)
(* every default of a numeric scalar is a value of that scalar, a decimal    *)
(* one within the policy its subject is under, so what is lowered from it    *)
(* compiles and can be met (rules.rs:2055-2308, reader.mjs:1322-1396).       *)
ValuesBelong ==
  \A reader \in {"rust", "compiler"} : Accepted(reader) =>
    \A d \in {d \in ToSet(TypesSaid) : \A e \in ToSet(TypesSaid) : e.kind # "named"} :
      /\ \A c \in ToSet(d.constraints) \cup UNION {ToSet(f.constraints) : f \in MembersOf(d)} :
           LET end == Last(Walk(<<c.to>>, AllAliases, TRUE)) IN
           c.keyword \in BoundKeywords \cup {"enumValues"} /\ EndOf(<<end>>) # NoRef =>
             \A v \in ToSet(c.values) : Belongs(v, ScalarOf(end), PolicyOf(c.to))
      /\ \A f \in MembersOf(d) : EndOf(Trail(f.ref)) # NoRef /\ ~(f.nullable /\ f.default = One("null")) =>
           \A v \in ToSet(f.default.values) : Belongs(v, ScalarOf(Reached(f.ref)), PolicyOf(f.id))

Agreed == {"INVALID_OPTION_INNER", "UNRESOLVED_OPTION_INNER", "INVALID_OPTION_PRESENCE", "INVALID_CLOCK_MEMBER",
           "INVALID_QUANTITY_MEMBER", "DUPLICATE_PARAM", "DUPLICATE_CLAUSE_ID", "MISSING_SOURCE_SPAN", "DANGLING_CLAUSE_REF",
           "INVALID_RELATIONSHIP_SOURCE"}
(* The two readers report the same options, special members, parameters and  *)
(* clauses: code for code, in every document either of them refuses.         *)
ReadersAgree == findings.rust \cap Agreed = findings.compiler \cap Agreed

Resolution == {"UNRESOLVED_TYPE_REF", "UNRESOLVED_ELEMENT_TYPE", "UNRESOLVED_VARIANT_PAYLOAD", "ALIAS_CYCLE",
               "UNRESOLVED_RELATIONSHIP_TARGET", "UNRESOLVED_OCCURRENCE_DEFINITION", "DUPLICATE_IDENTITY"}
(* Of a document of core kinds with distinct types and no positions or       *)
(* constraints, the Rust reader and the oracle both hold that its references *)
(* lead somewhere, or both that one does not, though they count a dangling   *)
(* chain at different places (rules.rs:1347-1720, oracle.mjs:233-770).       *)
OracleAgrees ==
  /\ findings # Unread /\ Core
  /\ Cardinality(DeclaredIds) = Len(TypesSaid)
  /\ \A d \in ToSet(TypesSaid) : d.constraints = <<>> /\ d.positions = <<>>
  => (findings.rust \cap Resolution = {}) = (findings.oracle \cap Resolution = {})

-----------------------------------------------------------------------------
(***************************************************************************)
(* Constructs over every small input: a declaration, a table with a type   *)
(* and a population, the value of a reference member, or a document that   *)
(* grows by a type at a time.                                              *)
(***************************************************************************)

CONSTANTS
    MaxTypes,     \* types of a document
    MaxNamed,     \* types of one whose fields have names, or with members
    MaxListed     \* entries of an order, or positions

VARIABLES
    family,  \* what the input is
    input    \* what has been built of it

constructsVars == <<family, input>>

----------------------------------------------------------------------------
(* Declarations.                                                           *)

MemberEntries ==
    {"fields", "identityFields", "target", "members"} \X {"required", "forbidden"}
    \cup {<<"bogus", "optional">>, <<"owner", "">>}
Lists(elements, longest) == UNION {[1 .. n -> elements] : n \in 0 .. longest}
ReferenceLists ==
    {NoMember, NotAList} \cup
    {Listed(<<entry>>) : entry \in {<<"members", <<"r">>>>, <<"members", <<"r", "r">>>>,
                                    <<"members", <<"*">>>>, <<"members", <<>>>>,
                                    <<"fields", <<"r">>>>, <<"target", <<"r", "s">>>>}}
    \cup {Listed(<<<<"members", <<"r">>>>, <<"members", <<"s">>>>>>)}
RuleLists ==
    {NoMember, NotAList} \cup
    {Listed(rules) : rules \in {<<"no_fields">>, <<"members_not_namespace">>, <<"bogus">>,
                                <<"no_fields", "no_fields">>}}
Declare(identity, shape, members, refs, rules, meaning, immutable) ==
    [whole |-> TRUE, identity |-> identity, shape |-> shape, members |-> members,
     references |-> refs, rules |-> rules, meaning |-> meaning,
     immutable |-> immutable]
Declarations ==
    {Declare(identity, shape, Listed(members), refs, rules, last[1], last[2]) :
       identity \in {"identified", "value"}, shape \in {"record", "alias", "tuple"},
       members \in Lists(MemberEntries, 2), refs \in ReferenceLists,
       rules \in RuleLists,
       last \in {<<"m", "absent">>, <<"m", "true">>, <<"", "true">>, <<"m", "">>}}
    \cup {Declare("", "record", NotAList, NoMember, NoMember, "m", "absent"),
          Declare("value", "", NotAList, NoMember, NoMember, "m", "absent"),
          Declare("value", "record", NotAList, NotAList, NoMember, "m", "absent")}

Spellings == {[r |-> r, s |-> s] : r \in {<<"n:r">>, <<"n:r", "m:r">>},
                                   s \in {<<"n:s">>, <<"n:r">>, <<"m:r", "n:s">>}}

\* What the two readers are both asked: no member twice, and a target, which
\* only the Rust reader keeps from other shapes, where the shape is an alias.
Asked(d) ==
    /\ d.shape = "alias" \/ presence(d.members.entries, "target") = "forbidden"
    /\ Repeats(d.members.entries) = {} /\ Repeats(d.references.entries) = {}

\* The two readers refuse the same declarations, and at the same first defect:
\* readDeclaration says that it does so as the Rust reader does.
DeclarationReadersAgree ==
    family = "declaration" /\ Asked(input) =>
        LET rust == RustDefects(input)
            compiler == readDeclarationDefects(input)
        IN (rust = <<>> <=> compiler = <<>>) /\ (rust # <<>> => Head(rust) = Head(compiler))

\* A declaration whose roles the frontend has qualified is written into the
\* document and read again as it was, whatever spellings two roles share.
QualifiedIsReadBack ==
    family = "declaration" /\ RustDefects(input) = <<>> =>
        \A spellings \in Spellings :
            LET qualified == with_roles(KeptOf(input), spellings)
            IN /\ RustDefects(to_json(qualified)) = <<>>
               /\ KeptOf(to_json(qualified)) = qualified
               /\ ToSet(referenced_roles(qualified)) =
                    UNION {ToSet(spellings[role]) : role \in ToSet(referenced_roles(KeptOf(input)))}

----------------------------------------------------------------------------
(* Tables.                                                                 *)

Value(members, refs, rules, meaning) ==
    Declare("value", "record", Listed(members), refs, rules, meaning, "absent")
Constructs ==
    {Value(<<>>, NoMember, NoMember, "m"),
     Value(<<>>, NoMember, NoMember, PopulationMeaning),
     Value(<<<<"clauses", "required">>>>, NoMember, Listed(<<"min_clauses">>), "m"),
     Value(<<<<"owner", "required">>, <<"fields", "forbidden">>>>, NoMember,
           Listed(<<"no_fields", "single_owner">>), "m"),
     Value(<<<<"owner", "optional">>>>, Listed(<<<<"members", <<"r">>>>>>), NoMember, "m"),
     Value(<<<<"clauses", "optional">>>>, NoMember, Listed(<<"min_clauses">>), "m"),
     Value(<<<<"bogus", "optional">>>>, NoMember, NoMember, "m"),
     Value(<<<<"identityFields", "optional">>>>, NoMember, NoMember, "m")}
Kinds == {"k1", "k2"}
TableTypes ==
    {[kind |-> kind, has |-> has, empty |-> empty] :
       kind \in Kinds \cup {"record", "alias"},
       has \in SUBSET {"clauses", "owner", "fields", "target", "identityFields"},
       empty \in SUBSET {"clauses", "identityFields"}}
Tables ==
    {[constructs |-> constructs, types |-> <<type>>, populations |-> populations] :
       constructs \in Lists([kind : Kinds, construct : Constructs], 2),
       type \in {t \in TableTypes : t.empty \subseteq t.has},
       populations \in {<<>>, <<"k2">>}}

\* The same of a table: a core kind without a target, and no empty list of the
\* three that only the Rust schema layer looks into here.
AskedOfTable(table) ==
    \A type \in ToSet(table.types) :
        /\ "identityFields" \notin type.empty
        /\ type.kind \in {"record"} => "target" \notin type.has

\* The two readers refuse the same documents for their tables, and name the
\* same places, except that the Rust one names every entry of an unused kind.
SchemasSay(rust, compiler) ==
    /\ rust = {} <=> compiler = {}
    /\ SaidAgain(input.constructs) = {} => rust = compiler
SchemasAgree ==
    family = "table" /\ AskedOfTable(input) => SchemasSay(constructs_schema(input), checkConstructs(input))

\* In a document the readers admit, what a rule is named for is so of every
\* type of the kind: a rule is kept by the presence it makes a declaration
\* declare and the presence makes a type have.
KeepsRules(type, rules) ==
    /\ "min_clauses" \in rules => "clauses" \in type.has \ type.empty
    /\ "single_owner" \in rules => "owner" \in type.has
    /\ "no_fields" \in rules => "fields" \notin type.has
RulesOfTable(table) ==
    \A type \in ToSet(input.types) : type.kind \in DOMAIN table => KeepsRules(type, ToSet(table[type.kind].rules))
RulesAreKept ==
    family = "table" /\ constructs_schema(input) = {} => RulesOfTable(constructTable(input))

\* In such a document every kind a type or population has is bound, and to one
\* declaration for both languages.
BoundIn(table) ==
    \A kind \in Used(input) \ CoreKinds :
        /\ kind \in DOMAIN table
        /\ \E entry \in ToSet(input.constructs) : entry.kind = kind /\ KeptOf(entry.construct) = table[kind]
KindsAreBound == family = "table" /\ checkConstructs(input) = {} => BoundIn(constructTable(input))

----------------------------------------------------------------------------
(* Reference members.                                                      *)

Texts == {JString("a"), JString("b"), JNull}
Leaves == Texts \cup {JArray(list) : list \in Lists(Texts, 2)}
Objects == {JObject(<<Part(name, leaf)>>) : name \in {"emits", "type", "other"}, leaf \in Leaves}
           \cup {JObject(<<Part("consumes", leaf), Part("emits", JString("a"))>>) : leaf \in Leaves}
MemberValues == Leaves \cup Objects
                \cup {JArray(list) : list \in Lists({JString("a")} \cup Objects, 2)}

\* Both readers find the same types named, at the same places, by whatever is
\* written for a member: a reference one of them misses is one whose target
\* nothing checks, or that no backend sees.
EntriesAgree ==
    family = "entries" =>
        \A member \in {"owner", "sourceEnd", "transitions", "steps"} :
            reference_entries(input, <<member>>, member) = referenceEntries(input, <<member>>, member)

----------------------------------------------------------------------------
(* Documents, a type at a time.                                            *)

Plain(supers) == [supertypes |-> supers, abstract |-> FALSE, kind |-> "record"]
Ordered(set) == SetToSortSeq(set, <)

GraphTypes(t) ==
    {Plain(supers) : supers \in Lists(1 .. MaxTypes, 1)
                       \cup {<<a, b>> : a, b \in (1 .. MaxTypes) \ {t}}}
BoundsOf == {[lower |-> 0, upper |-> 1], [lower |-> 1, upper |-> 1], [lower |-> 0, upper |-> Endless]}
FieldNamed(identity, name, bounds, redefines) ==
    [identity |-> identity, name |-> name, redefines |-> redefines,
     lower |-> bounds.lower, upper |-> bounds.upper]
FieldTypes(t, names) ==
    {[supertypes |-> Ordered(supers), abstract |-> FALSE, kind |-> "record", fields |-> fields] :
       supers \in SUBSET (1 .. (t - 1)),
       fields \in {<<>>} \cup {<<FieldNamed(t, name, bounds, redefines)>> :
                     name \in names, bounds \in BoundsOf, redefines \in 0 .. (t - 1)}}
MemberTypes ==
    {[namespace |-> TRUE, members |-> Ordered(members), role |-> role] :
       members \in SUBSET (1 .. (MaxNamed + 1)), role \in {"r", "s"}}
    \cup {[namespace |-> FALSE, members |-> <<>>, role |-> role] : role \in {"r", "s"}}
ClassTypes(t) ==
    {[supertypes |-> Ordered(supers), abstract |-> abstract, instances |-> instances,
      kind |-> IF instances THEN "record" ELSE "interface"] :
       supers \in SUBSET (1 .. (t - 1)), abstract \in BOOLEAN, instances \in BOOLEAN}
Operations == {[returns |-> returns, lower |-> lower, upper |-> upper] :
                 returns \in BOOLEAN, lower \in 0 .. 1, upper \in {1, 2, Endless}}

Grown == {"graph", "fields", "names", "members", "classes", "operations", "order"}
Longest(f) ==
    CASE f \in {"graph", "fields", "classes"} -> MaxTypes
      [] f \in {"names", "members", "operations"} -> MaxNamed
      [] f = "order" -> MaxListed
Elements(f, t) ==
    CASE f = "graph" -> GraphTypes(t)
      [] f = "fields" -> FieldTypes(t, {1})
      [] f = "names" -> FieldTypes(t, {1, 2})
      [] f = "members" -> MemberTypes
      [] f = "classes" -> ClassTypes(t)
      [] f = "operations" -> Operations
      [] f = "order" -> 0 .. MaxListed

ConstructsIdle == family = "idle" /\ input = <<>>
ConstructsInit ==
    \/ family = "declaration" /\ input \in Declarations
    \/ family = "table" /\ input \in Tables
    \/ family = "entries" /\ input \in MemberValues
    \/ family \in Grown /\ input = <<>>

\* A field is looked at under types whose own are admitted: what is refused
\* stays so, whatever is written after it.
Add ==
    /\ family \in Grown
    /\ Len(input) < Longest(family)
    /\ family \in {"fields", "names"} => \A t \in DOMAIN input : features(input, t) = {}
    /\ \E e \in Elements(family, Len(input) + 1) : input' = Append(input, e)
    /\ UNCHANGED family

Types == DOMAIN input

\* What is above a set of types, by their supertypes' supertypes.
Above(set) ==
    LET Up(s) == s \cup UNION {ToSet(Targets(input, t)) : t \in s}
        parents == UNION {ToSet(Targets(input, t)) : t \in set}
    IN FoldLeft(LAMBDA s, k : Up(s), parents, input)

\* The three walks find the transitive supertypes: the rules resolve names
\* among the same types the backends inherit from, and no cycle traps one.
AncestorsAreTheClosure ==
    family = "graph" =>
        \A t \in Types :
            /\ ToSet(ancestors(input, t)) = Above({t}) \ {t}
            /\ ToSet(ancestorsOf(input, t)) = Above({t}) \ {t}
            /\ IsInjective(ancestors(input, t)) /\ IsInjective(ancestorsOf(input, t))
            /\ ToSet(python_ancestors(input, t)) \cap Types = Above({t})

\* What a subtype carries is listed farthest supertype first: a type only
\* after all that is above it, where nothing is above itself.
FarthestFirst ==
    family = "graph" /\ (\A t \in Types : t \notin Above({t})) =>
        \A t \in Types :
            LET line == ancestorsOf(input, t)
            IN \A k \in DOMAIN line : Above({line[k]}) \subseteq ToSet(SubSeq(line, 1, k - 1))

\* The one pass reports the types that reach themselves and no others.
CyclesAreReported ==
    family = "graph" =>
        types_on_a_supertype_cycle(input) = {t \in Types : t \in Above({t})}

\* A transition a type may declare is one each of its subtypes may: what
\* resolves there resolves below, across cycles too.
SubtypesSeeMore ==
    family = "graph" =>
        \A t \in Types : \A parent \in ToSet(Targets(input, t)) :
            \A from \in Types :
                LET transition == [from |-> from, to |-> t, trigger |-> parent, guard |-> from]
                IN transitions(input, t, transition) \subseteq transitions(input, parent, transition)

\* In a document the rules admit, a subtype carries every field it inherits,
\* or one within its bounds, along however many redefinitions and whichever
\* way round a diamond: a value of the subtype is a value of the supertype.
HowMany(f) == {n \in 0 .. 2 : f.lower <= n /\ (f.upper = Endless \/ n <= f.upper)}
EveryFieldIsCarried ==
    family = "fields" /\ (\A t \in Types : features(input, t) = {}) =>
        \A t \in Types : \A f \in ToSet(visible_fields(input, t)) :
            \E g \in ToSet(effectiveFields(input, t)) : (g = f \/ g.redefines # NoField) /\ HowMany(g) \subseteq HowMany(f)

\* Where a redefining field keeps the name it redefines, the fields a type is
\* told apart by are fields it carries, each of them one field of its name
\* where no collision of inherited names is reported.
IdentityIsCarried ==
    /\ family = "names"
    /\ \A t \in Types : features(input, t) = {}
    /\ \A t \in Types : \A f \in ToSet(Fields(input, t)) :
          \A g \in ToSet(visible_fields(input, t)) : f.redefines = g.identity => f.name = g.name
    => \A t \in Types : \A identities \in SUBSET (1 .. MaxNamed) :
          identity_fields(input, t, identities) = {} =>
             /\ identityFieldNames(input, t, identities)
                  \subseteq {f.name : f \in ToSet(effectiveFields(input, t))}
             /\ Supertypes(input, t) # <<>> /\ inheritedNameCollisions(input, t) = {} =>
                  \A name \in identityFieldNames(input, t, identities) :
                     Cardinality({f \in ToSet(effectiveFields(input, t)) : f.name = name}) = 1

\* Redefining what redefines is redefining: bounds, and returning or not, are
\* kept along a chain.
RedefinitionsChain ==
    family = "operations" /\ Len(input) = 3 =>
        /\ narrows(input[3], input[2]) /\ narrows(input[2], input[1]) => narrows(input[3], input[1])
        /\ redefined_operation(input[3], input[2]) /\ redefined_operation(input[2], input[1])
           => redefined_operation(input[3], input[1])

\* Namespaces the rules admit share out the types among them: none is in two,
\* none is in itself or another, each is declared and has an admitted role;
\* and which are refused does not depend on the order of the types.
MembershipIsAPartition ==
    family = "members" =>
        LET admits(types) ==
              /\ exclusive_membership(types) = {} /\ members_not_namespace(types) = {}
              /\ references(types, {"r"}) = {}
        IN admits(input) <=>
             /\ \A name \in 1 .. (MaxNamed + 1) : Cardinality(Owners(input, name)) <= 1
             /\ \A t \in Namespaces(input) : \A name \in ToSet(input[t].members) :
                   name \in Types \ Namespaces(input) /\ input[name].role = "r"

\* An order the rules admit, of entries that are unique as the schema asks,
\* has every feature once; positions they admit are numbered from 0.
OrdersAreComplete ==
    family = "order" /\ IsInjective(input) =>
        /\ \A n \in 0 .. MaxListed :
              LET own == [k \in 1 .. n |-> k]
              IN ~feature_order(input, own) <=> ToSet(input) = ToSet(own)
        /\ tuple(input) = {} <=> input = [k \in DOMAIN input |-> k - 1]

\* A value of a class is an instance of every abstract supertype's class and
\* of no other's: isinstance asks the registered classes and their bases.
RECURSIVE AboveClass(_)
AboveClass(t) == {t} \cup UNION {AboveClass(b) : b \in ToSet(Bases(input, t))}
ValuesAreInstances ==
    family = "classes" =>
        \A t \in Types : ~input[t].abstract =>
            UNION {AboveClass(r) : r \in Registered(input, t)}
              = {a \in Above({t}) : input[a].abstract}

\* Where a supertype has the kind of its subtype, as the rules ask, every
\* class refine names is one the package has.
ClassesAreThere ==
    family = "classes" /\ (\A t \in Types : supertypes(input, t) = {}) =>
        \A t \in ClassesNamed(input) : HasClass(input, t)

\* Python can make every class refine renders: a shape it cannot state is
\* refused with a ConstructError, never approximated.
ClassesLinearise ==
    family = "classes" =>
        \A t \in Types : input[t].abstract => ResolutionOrder(input, t) # NoOrder

-----------------------------------------------------------------------------
(***************************************************************************)
(* A contract and a revision of it, one edit at a time: every revision of  *)
(* two contracts by up to MaxEdits edits, classified under every request.  *)
(***************************************************************************)

CONSTANT MaxEdits  \* bound on the edits between the two contracts

VARIABLES before, after, edits

revisionVars == <<before, after, edits>>

Bound(keyword, value) == [keyword |-> keyword, value |-> value]
Unbounded == [x |-> Absent, y |-> Absent]

Field ==
    [name |-> "f", typeRef |-> "A", presence |-> "optional", nullable |-> FALSE,
     unit |-> "none", multiplicity |-> [lower |-> 0, upper |-> 1, ordered |-> FALSE],
     default |-> "none", constraints |-> [Unbounded EXCEPT !.y = Bound("exclusiveMin", -2)]]

Record ==
    [kind |-> "record", displayName |-> "R", scalar |-> Absent, target |-> Absent,
     unknown |-> "preserve", abstract |-> FALSE, supertypes |-> "none", doc |-> "one",
     constraints |-> Unbounded, fields |-> [f |-> Field, g |-> Absent],
     variants |-> [v |-> Absent, w |-> Absent], positions |-> << >>,
     nodes |-> [n |-> Absent]]

Other(kind, name) ==
    [Record EXCEPT !.kind = kind, !.displayName = name,
                   !.fields = [f |-> Absent, g |-> Absent]]

Contract ==
    [R |-> Record,
     A |-> [Other("alias", "A") EXCEPT !.target = "B"],
     B |-> [Other("alias", "B") EXCEPT !.target = "Integer",
                                       !.constraints.x = Bound("max", 1)],
     E |-> [Other("enum", "E") EXCEPT !.variants.v = "none"],
     T |-> [Other("tuple", "T") EXCEPT !.positions = <<[identity |-> "p", typeRef |-> "A"]>>]]

\* The same with an integer past the safe ones, and a union for the enum.
WideContract ==
    [Contract EXCEPT !.B.constraints = [x |-> Bound("max", 3), y |-> Bound("min", -3)],
                     !.E.kind = "union"]

Bounded(C) ==
    {[C EXCEPT ![i] = b] : i \in DOMAIN C,
        b \in {Absent} \cup {Bound(k, v) : k \in Bounds, v \in {0, 1}}
                \cup {Bound("max", 3), Bound("exclusiveMin", -2)}}

FieldEdits(f) ==
    {[f EXCEPT !.name = "g"], [f EXCEPT !.unit = "kg"], [f EXCEPT !.nullable = ~@],
     [f EXCEPT !.default = "one"], [f EXCEPT !.presence = "required"],
     [f EXCEPT !.multiplicity.lower = 1], [f EXCEPT !.multiplicity.upper = 2],
     [f EXCEPT !.multiplicity.ordered = ~@]}
      \cup {[f EXCEPT !.typeRef = t] : t \in {"A", "B", "Integer", "Text", "E"}}
      \cup {[f EXCEPT !.constraints = c] : c \in Bounded(f.constraints)}

Places(t) ==
    {t.positions, << >>}
      \cup {<<[identity |-> p, typeRef |-> r]>> : p \in {"p", "q"}, r \in {"A", "E"}}

TypeEdits(t) ==
    {[t EXCEPT !.doc = "two"], [t EXCEPT !.displayName = "N"],
     [t EXCEPT !.supertypes = "R"], [t EXCEPT !.abstract = ~@]}
      \cup {[t EXCEPT !.unknown = u] : u \in {"preserve", "surface", "reject"}}
      \cup {[t EXCEPT !.constraints = c] : c \in Bounded(t.constraints)}
      \cup {[t EXCEPT !.nodes.n = n] : n \in {Absent, "one", "two"}}
      \cup CASE t.kind = "record" ->
                  UNION {{[t EXCEPT !.fields[i] = f] :
                            f \in {Absent} \cup
                                  FieldEdits(IF t.fields[i] = Absent THEN Field ELSE t.fields[i])}
                         : i \in DOMAIN t.fields}
             [] t.kind \in {"enum", "union"} ->
                  {[t EXCEPT !.variants[i] = v] : i \in DOMAIN t.variants, v \in {Absent, "none", "A"}}
             [] t.kind = "alias" ->
                  {[t EXCEPT !.target = r] : r \in {"A", "B", "Integer", "Text"}}
             [] t.kind = "tuple" -> {[t EXCEPT !.positions = p] : p \in Places(t)}

RevisionIdle == before = Contract /\ after = Contract /\ edits = 0
RevisionInit ==
    /\ before \in {Contract, WideContract}
    /\ after = before
    /\ edits = 0

Revise ==
    /\ edits < MaxEdits
    /\ \E i \in DOMAIN after :
          \E t \in IF after[i] = Absent THEN {before[i]} ELSE {Absent} \cup TypeEdits(after[i]) :
             after' = [after EXCEPT ![i] = t]
    /\ edits' = edits + 1
    /\ UNCHANGED before

----------------------------------------------------------------------------
Known == [evidence |-> "current", rejects |-> FALSE, targets |-> {}]

\* A revision, and not only the contract it starts from.
Revised == edits > 0

AtLeast(d, e) == RankOf(e) <= RankOf(d)

\* The subject of integer rules in a field: what it refers to, with the
\* constraints of its own.
FieldSubject(types, i, f) ==
    [numericSubject(types, types[i].fields[f].typeRef) EXCEPT
        !.constraints = @ \cup MemberConstraints(types[i].fields[f])]

SubjectsTo(revised) ==
    {<<numericSubject(before, i), numericSubject(revised, i)>> : i \in Both(before, revised)}
      \cup {<<FieldSubject(before, "R", f), FieldSubject(revised, "R", f)>> :
              f \in IF Absent \in {before["R"], revised["R"]} THEN {}
                    ELSE Both(before["R"].fields, revised["R"].fields)}
Subjects == SubjectsTo(after)

Integers(pair) == pair[1].scalar = "integer" /\ pair[2].scalar = "integer"

\* An integer that was admitted and no longer is.
Narrowed(pair) ==
    /\ Integers(pair)
    /\ LET old == integerRange(pair[1].constraints)
           new == integerRange(pair[2].constraints)
       IN \E v \in old.lower .. old.upper : v \notin new.lower .. new.upper

\* A subject that crosses the safe integers, one way or the other.
Crosses(pair) == Integers(pair) /\ wideInteger(pair[1].constraints) # wideInteger(pair[2].constraints)

\* A revision under which some integer is no longer admitted is breaking,
\* wherever along an alias chain or in a field the bounds that exclude it are
\* (FR-051).  The code does not keep this, and no run checks it.
NarrowingBreaks ==
    (\E pair \in Subjects : Narrowed(pair)) => aggregateDisposition(before, after, Known) = "breaking"

\* A bound whose keyword changes at the operand it has, and one taken away,
\* are not weighed as narrowing (diff.mjs:998-1029); the revision without such
\* changes is the one the rest of which is.
Weighed(b, a) ==
    [i \in DOMAIN a |-> IF b[i] # Absent /\ (a[i] = Absent \/ a[i].value = b[i].value) THEN b[i] ELSE a[i]]
WeighedType(b, a) ==
    [a EXCEPT !.constraints = Weighed(b.constraints, @),
              !.fields = [f \in DOMAIN @ |->
                            IF Absent \in {b.fields[f], @[f]} THEN @[f]
                            ELSE [@[f] EXCEPT !.constraints = Weighed(b.fields[f].constraints, @)]]]
WeighedRevision ==
    [i \in DOMAIN after |-> IF Absent \in {before[i], after[i]} THEN after[i] ELSE WeighedType(before[i], after[i])]
TakenAway(b, a) ==
    \E i \in Both(b, a) : \/ Gone(b[i].constraints, a[i].constraints) # {}
                          \/ \E f \in Both(b[i].fields, a[i].fields) :
                               Gone(b[i].fields[f].constraints, a[i].fields[f].constraints) # {}

\* What excludes an integer is breaking, and so is crossing the safe integers,
\* in a type, behind aliases or in a field; what consists of unweighed changes
\* alone is breaking where it crosses them and nowhere else, whatever it
\* excludes: conditional with a bound taken away, a patch without.
NarrowingBreaksWhereWeighed ==
    Revised =>
    LET disposition == aggregateDisposition(before, after, Known)
        crossing == \E pair \in Subjects : Crosses(pair)
    IN /\ crossing \/ (\E pair \in SubjectsTo(WeighedRevision) : Narrowed(pair)) => disposition = "breaking"
       /\ WeighedRevision = before /\ after # before =>
            disposition = IF crossing THEN "breaking" ELSE IF TakenAway(before, after) THEN "conditional" ELSE "patch"

\* Knowing less of the consumers never makes a revision pass more easily, as
\* long as none of them is known to reject what it does not know: with one
\* that does, an addition breaks on current evidence and is unknown on none.
LessEvidenceIsNoRelief ==
    Revised => \A targets \in {{}, {"conditional"}} :
        \E judged \in {[evidence \in {"unknown", "stale", "current"} |->
              aggregateDisposition(before, after, [Known EXCEPT !.evidence = evidence, !.targets = targets])]} :
          AtLeast(judged["unknown"], judged["stale"]) /\ AtLeast(judged["stale"], judged["current"])

\* The one class of a revision by the compiler, the reader and the oracle.
Classes == {aggregateDisposition(before, after, Known), classify(before, after, "preserve"),
            oracle_classify(before, after, "preserve")}

\* What the three weigh alike: types and fields that are gone, a unit, a
\* default, a lower bound, a reference that ends elsewhere, a turn to
\* rejection, and a new field that is required both by its presence and by its
\* multiplicity or by neither.
WeighedAlike ==
    \A i \in Both(before, after) :
        LET b == before[i]
            a == after[i]
        IN /\ \A m \in {"constraints", "nodes", "variants", "positions", "abstract", "supertypes", "doc"} : b[m] = a[m]
           /\ b.unknown # a.unknown => a.unknown = "reject"
           /\ b.target # a.target =>
                LET pair == <<numericSubject(before, i), numericSubject(after, i)>>
                IN ~Integers(pair) \/ Crosses(pair)
           /\ \A f \in New(b.fields, a.fields) :
                a.fields[f].presence = "required" <=> a.fields[f].multiplicity.lower >= 1
           /\ \A f \in Both(b.fields, a.fields) :
                LET old == b.fields[f]
                    new == a.fields[f]
                IN /\ \A m \in {"name", "nullable", "presence", "constraints"} : old[m] = new[m]
                   /\ [old.multiplicity EXCEPT !.lower = 0] = [new.multiplicity EXCEPT !.lower = 0]
                   /\ old.typeRef = new.typeRef \/ ~Equivalent(before, old.typeRef, after, new.typeRef)

\* Revisions of these differences alone are of one class for all three; one
\* edit of any other kind is not of one class.
OneClass ==
    /\ Revised /\ WeighedAlike => Cardinality(Classes) = 1
    /\ edits = 1 /\ Cardinality(Classes) = 1 => WeighedAlike

\* A revision is a patch to the compiler exactly where the contracts differ in
\* nothing but documentation, the names of types and fields and the keyword of
\* a bound that keeps its operand; and to the reader where in nothing but
\* documentation, the names of types, supertypes, abstraction, and the presence
\* and constraints of fields.
Operands(C) == [i \in DOMAIN C |-> IF C[i] = Absent THEN Absent ELSE C[i].value]
ReadByCompiler(t) ==
    [t EXCEPT !.doc = "", !.displayName = "", !.constraints = Operands(@),
              !.fields = [f \in DOMAIN @ |-> IF @[f] = Absent THEN Absent
                                             ELSE [@[f] EXCEPT !.name = "", !.constraints = Operands(@)]]]
ReadByReader(t) ==
    [t EXCEPT !.doc = "", !.displayName = "", !.supertypes = "", !.abstract = FALSE,
              !.fields = [f \in DOMAIN @ |-> IF @[f] = Absent THEN Absent
                                             ELSE [@[f] EXCEPT !.presence = "", !.constraints = Unbounded]]]
ReadAlike(View(_)) ==
    Gone(before, after) = {} /\ \A i \in Both(before, after) : View(before[i]) = View(after[i])
PatchesAreUnread ==
    Revised =>
    /\ aggregateDisposition(before, after, Known) = "patch"
         <=> ReadAlike(ReadByCompiler) /\ ~\E pair \in Subjects : Crosses(pair)
    /\ classify(before, after, "preserve") = "patch" <=> ReadAlike(ReadByReader)

\* Undoing a revision is a revision: what is seen one way is seen the other.
RevertIsSeen ==
    Revised =>
    Cardinality({aggregateDisposition(way[1], way[2], Known) = "patch" : way \in {<<before, after>>, <<after, before>>}}) = 1

-----------------------------------------------------------------------------
(* Bundles of two packages and two types, one member of each kind at a time. *)

Optional(S) == {<<>>} \cup {<<x>> : x \in S}
Manifests == [imports : SUBSET {"p", "q"}, exports : SUBSET {"s"}]
PackageGraphs == UNION {[D -> SUBSET {"p", "q"}] : D \in {{"p"}, {"p", "q"}}}
Roles == {"agent-ix:entity", "other:entity", "value"}
Mappings == {{}} \cup {{[source |-> s, target |-> "s", members |-> ms]} : s \in {"s", "f", "gone"}, ms \in SUBSET {"f", "gone"}}
ContextIdle ==
  bundle = [manifest |-> <<>>, graph |-> <<>>, profile |-> <<>>, policy |-> <<>>, mappings |-> {}, extensions |-> {}, types |-> {}, members |-> {}]
ContextInit ==
  bundle \in [manifest : Optional(Manifests), graph : Optional(PackageGraphs), profile : Optional(SUBSET {"s"}), policy : {<<>>},
              mappings : {{}}, extensions : {{}}, types : {{[id |-> "s", role |-> r]} : r \in Roles}, members : {{"f"}}]
\* A bundle is given what does not depend on its packages.
Supply ==
  /\ bundle.types # {} /\ ~Given("graph") /\ ~Given("policy") /\ bundle.mappings = {}
  /\ \E ms \in Mappings, p \in Optional([rejects : BOOLEAN, listed : SUBSET {"x"}]), required \in BOOLEAN :
       bundle' = [bundle EXCEPT !.mappings = ms, !.policy = p, !.extensions = {[id |-> "x", required |-> required]}]

-----------------------------------------------------------------------------
\* The Rust reader and the oracle refuse a bundle for the same things at the
\* same places, where a profile comes with the manifest, roles are the core
\* vocabulary's and a mapping's ends are types (rules.rs:2421, oracle.mjs:829).
ContextAgrees ==
  /\ Given("manifest") => Given("profile")
  /\ \A t \in bundle.types : t.role # "other:entity"
  /\ Ends \cap bundle.members = {}
  => package_context = checkPackageContext

-----------------------------------------------------------------------------
(***************************************************************************)
(* What is asked of a document, its readers and its revisions: one of four *)
(* subjects from its own first state, the other three at rest.             *)
(***************************************************************************)

VARIABLE subject

vars == <<subject, rulesVars, constructsVars, revisionVars, bundle>>

Init ==
  \/ subject = "rules" /\ RulesInit /\ ConstructsIdle /\ RevisionIdle /\ ContextIdle
  \/ subject = "constructs" /\ RulesIdle /\ ConstructsInit /\ RevisionIdle /\ ContextIdle
  \/ subject = "revision" /\ RulesIdle /\ ConstructsIdle /\ RevisionInit /\ ContextIdle
  \/ subject = "context" /\ RulesIdle /\ ConstructsIdle /\ RevisionIdle /\ ContextInit

Rules == subject = "rules" /\ RulesNext /\ UNCHANGED <<subject, constructsVars, revisionVars, bundle>>
Grow == subject = "constructs" /\ Add /\ UNCHANGED <<subject, rulesVars, revisionVars, bundle>>
Edit == subject = "revision" /\ Revise /\ UNCHANGED <<subject, rulesVars, constructsVars, bundle>>
Complete == subject = "context" /\ Supply /\ UNCHANGED <<subject, rulesVars, constructsVars, revisionVars>>

Next == Rules \/ Grow \/ Edit \/ Complete
Spec == Init /\ [][Next]_vars

\* A document a reader accepts is one its backends may rely on: every reference
\* ends at something, no option stands in an option, and a member of a special
\* type is bare.
AcceptedIsSound ==
    /\ AcceptedResolves
    /\ OptionsDoNotNest
    /\ SpecialMembersAreBare

\* In an accepted document every default, enumerated value and operand belongs
\* to the type it stands at, and a decimal has one policy along its aliases.
AcceptedValuesBelong ==
    /\ ValuesBelong
    /\ OneDecimalPolicy

\* The Rust reader, the compiler and the conformance oracle refuse the same
\* documents of the rules they share, and the same package contexts.
DocumentReadersAgree ==
    /\ ReadersAgree
    /\ OracleAgrees
    /\ ContextAgrees

\* A construct declaration is read alike in the two languages, its names and
\* its rules come through qualification and rendering, a kind binds to one
\* construct, and the schema published of a construct admits the entries the
\* readers admit.
DeclarationsAgree ==
    /\ DeclarationReadersAgree
    /\ QualifiedIsReadBack
    /\ SchemasAgree
    /\ RulesAreKept
    /\ KindsAreBound
    /\ EntriesAgree

\* What a backend makes of a hierarchy substitutes: ancestors are the closure
\* of supertypes in an order that places the farthest first, a cycle is
\* reported, each inherited or redefined field and identity is carried once,
\* members partition the instances, and every value of a subtype is one of its
\* supertypes.
SubtypesSubstitute ==
    /\ AncestorsAreTheClosure
    /\ FarthestFirst
    /\ CyclesAreReported
    /\ SubtypesSeeMore
    /\ EveryFieldIsCarried
    /\ IdentityIsCarried
    /\ RedefinitionsChain
    /\ MembershipIsAPartition
    /\ OrdersAreComplete
    /\ ValuesAreInstances
    /\ ClassesAreThere

\* What a revision takes away from a consumer is weighed: an integer excluded
\* by a changed bound breaks, but for a bound that changes its keyword only or
\* leaves the safe integers as they were; less evidence is no relief where no
\* consumer rejects; and a revision is a patch exactly where its undoing is.
NarrowingIsSeen ==
    /\ NarrowingBreaksWhereWeighed
    /\ LessEvidenceIsNoRelief
    /\ RevertIsSeen

\* The compiler, the reader and the oracle classify alike exactly the
\* differences WeighedAlike names, and the first two pass as a patch exactly
\* those that PatchesAreUnread lists for each.
ClassifiersClassAlike ==
    /\ OneClass
    /\ PatchesAreUnread
=============================================================================
