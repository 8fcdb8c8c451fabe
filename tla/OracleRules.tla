--------------------------- MODULE OracleRules ----------------------------
(***************************************************************************)
(* The same rules in the conformance oracle: conformance/oracle/           *)
(* oracle.mjs, `verdict`.  It knows the core kinds alone: a clock, a       *)
(* quantity and a field named as a subject resolve to nothing.             *)
(***************************************************************************)
EXTENDS IrDocument, Naturals, Sequences

\* Mutant: one alias is followed.
CoreStep(ref) == IF ref \in DeclaredIds /\ NodeOf(ref).kind = "alias" THEN <<ref, NodeOf(ref).to>> ELSE <<ref>>
CoreWalk(ref) == Walk(<<ref>>, {"alias"}, FALSE)
CoreAliased(ref) == ref \in DeclaredIds /\ NodeOf(ref).kind = "alias"
\* resolve: "resolved", "unresolved" or "cycle" (see the bound in the README).
status(ref) ==
  LET end == Last(CoreWalk(ref)) IN
  IF CoreAliased(end) THEN "cycle" ELSE IF end \in Natives \cup DeclaredIds THEN "resolved" ELSE "unresolved"
oracle_resolve(ref) == Last(CoreWalk(ref))
StatusCode(ref) ==
  CASE status(ref) = "cycle" -> {"ALIAS_CYCLE"} [] status(ref) = "unresolved" -> {"UNRESOLVED_TYPE_REF"} [] OTHER -> {}
Dangles(ref, code) == When(status(ref) # "resolved", code)

oracle_multiplicity(m) == When(m.upper < m.lower, "INVALID_MULTIPLICITY")

\* The policy of a field, or of the first node of the chain that has one.
decimalPolicyFor(own, ref) == own \o Carried(CoreWalk(ref))
oracle_decimalAdmitted(v, policies) == policies # <<>> /\ WithinPolicy(v, policies[1])
NumericAdmitted(scalar, v, policies) ==
  CASE scalar = "float32" -> v = "f32"
    [] scalar = "float64" -> v \in Numbers
    [] scalar = "decimal" -> oracle_decimalAdmitted(v, policies)
    [] OTHER -> v \in InI128
oracle_operandAdmitted(scalar, v, policies) ==
  IF scalar \in Numeric THEN NumericAdmitted(scalar, v, policies) ELSE v \in TextValues
integerOutsideI128(scalar, v) == scalar = "integer" /\ v \in CanonicalIntegers \ InI128
oracle_valueAdmitted(scalar, v, policies) ==
  CASE scalar \in Numeric -> NumericAdmitted(scalar, v, policies)
    [] scalar = "boolean" -> v = "true"
    [] OTHER -> TRUE
\* A null is admitted for any field, and a list wherever each item is.
defaultAdmitted(scalar, default, policies) ==
  \/ default.kind = "one" /\ default.values[1] = "null"
  \/ \A v \in ToSet(default.values) :
       IF scalar \in {"string", "datetime"} THEN v \in TextValues ELSE oracle_valueAdmitted(scalar, v, policies)

oracle_applies(keyword, subject) ==
  CASE keyword \in BoundKeywords -> subject \in Numeric \cup {"datetime"}
    [] keyword = "pattern" -> subject = "string"
    [] keyword = "enumValues" -> subject \in Natives \ {"any"}
    [] keyword = "nonEmpty" -> subject \in {"string", "sequence", "map"}
    [] keyword = "unique" -> subject = "sequence"
Outside(scalar, v) == IF integerOutsideI128(scalar, v) THEN {"INTEGER_OUTSIDE_I128"} ELSE {"INVALID_OPERAND"}
oracle_constraint(c, own) ==
  LET end == oracle_resolve(c.to)
      scalar == ScalarOf(end)
      policies == decimalPolicyFor(own, c.to)
  IN IF status(c.to) # "resolved" THEN StatusCode(c.to)
     ELSE When(~oracle_applies(c.keyword, IF KindOf(end) = "scalar" THEN scalar ELSE KindOf(end)), "CONSTRAINT_NOT_APPLICABLE")
            \cup When(c.keyword = "pattern" /\ c.values[1] = "bad", "INVALID_PATTERN")
            \cup (IF KindOf(end) # "scalar" THEN {}
                  ELSE IF c.keyword \in BoundKeywords
                    THEN (IF oracle_operandAdmitted(scalar, c.values[1], policies) THEN {} ELSE Outside(scalar, c.values[1]))
                  ELSE IF c.keyword = "enumValues"
                    THEN EachOf(c.values, LAMBDA v :
                           IF oracle_valueAdmitted(scalar, v, decimalPolicyFor(<<>>, c.to)) THEN {} ELSE Outside(scalar, v))
                  ELSE {})

oracle_field(f) ==
  LET end == oracle_resolve(f.ref)
      scalar == status(f.ref) = "resolved" /\ KindOf(end) = "scalar"
      wrong == scalar /\ f.default.kind # "none" /\ ~defaultAdmitted(ScalarOf(end), f.default, decimalPolicyFor(f.policy, f.ref))
  IN StatusCode(f.ref) \cup oracle_multiplicity(f)
       \cup (IF ~wrong THEN {}
             ELSE IF \E v \in ToSet(f.default.values) : integerOutsideI128(ScalarOf(end), v)
               THEN {"INTEGER_OUTSIDE_I128"} ELSE {"INVALID_DEFAULT_VALUE"})
       \cup When(f.unit /\ status(f.ref) = "resolved" /\ ~scalar, "UNIT_ON_NON_SCALAR")
       \cup EachOf(f.constraints, LAMBDA c : oracle_constraint(c, f.policy))

oracle_elements(d) == IF d.kind \in {"sequence", "map"} THEN Dangles(d.to, "UNRESOLVED_ELEMENT_TYPE") ELSE {}
oracle_targets(d) == IF d.kind = "alias" THEN StatusCode(d.id) ELSE IF d.kind = "reference" THEN StatusCode(d.to) ELSE {}
oracle_variants(d) ==
  When(d.kind = "union" /\ \E v \in ToSet(d.variants) : v.ref # NoRef /\ status(v.ref) # "resolved", "UNRESOLVED_VARIANT_PAYLOAD")
oracle_clauses(d) ==
  SecondOf(d.clauses, ClauseIdOf, "DUPLICATE_CLAUSE_ID")
    \cup When(\E c \in ToSet(d.clauses) : c.sourced /\ ~c.spanned, "MISSING_SOURCE_SPAN")
oracle_relationship(d, r) ==
  When(r.to \notin DeclaredIds \cup document.exports, "UNRESOLVED_RELATIONSHIP_TARGET")
    \cup When(r.from # NoRef /\ r.from # d.id, "INVALID_RELATIONSHIP_SOURCE")
    \cup oracle_multiplicity(r)
oracle_operation(d, o) ==
  SecondOf(o.params, NameOf, "DUPLICATE_PARAM") \cup EachOf(o.params, oracle_field)
    \cup EachOf(o.returns, LAMBDA r : Dangles(r.ref, "UNRESOLVED_TYPE_REF") \cup oracle_multiplicity(r))
    \cup When(~(o.bound \subseteq ClauseIds(d)), "DANGLING_CLAUSE_REF")
checkTypeDefinition(d) ==
  SecondOf(d.fields, NameOf, "DUPLICATE_FIELD_NAME") \cup EachOf(d.fields, oracle_field)
    \cup EachOf(d.constraints, LAMBDA c : oracle_constraint(c, <<>>))
    \cup oracle_elements(d) \cup oracle_targets(d) \cup oracle_variants(d) \cup oracle_clauses(d)
    \cup EachOf(d.relations, LAMBDA r : oracle_relationship(d, r))
    \cup EachOf(d.operations, LAMBDA o : oracle_operation(d, o))

identityNodes ==
  FlattenSeq([k \in DOMAIN TypesSaid |->
    LET d == TypesSaid[k] IN
    <<d>> \o d.fields \o d.variants \o d.constraints \o d.relations \o d.clauses
      \o FlattenSeq([j \in DOMAIN d.operations |-> <<d.operations[j]>> \o d.operations[j].params])])
  \o document.occurrences

verdict ==
  SecondOf(identityNodes, IdOf, "DUPLICATE_IDENTITY")
    \cup EachOf(TypesSaid, checkTypeDefinition)
    \cup When(\E o \in ToSet(document.occurrences) : o.to \notin DeclaredIds, "UNRESOLVED_OCCURRENCE_DEFINITION")

-----------------------------------------------------------------------------
(***************************************************************************)
(* What a document is refused for because of the bundle it stands in: its  *)
(* manifest, the package graph, mappings, the profile and the consumer's   *)
(* policy.  Decided by the Rust reader (rules.rs, `package_context`) and   *)
(* by the conformance oracle (oracle.mjs, `checkPackageContext`).  A       *)
(* member a bundle may lack is a sequence of at most one.                  *)
(***************************************************************************)

VARIABLE bundle  \* [manifest, graph, profile, policy, mappings, extensions, types, members]

Given(member) == bundle[member] # <<>>
Of1(member) == bundle[member][1]

\* A graph maps a package to those it imports; the walk that looks for a cycle
\* is DepthFirst's, this is what it finds.
Resolves(package) == package \in DOMAIN Of1("graph")
Cyclic ==
  \E C \in (SUBSET DOMAIN Of1("graph")) \ {{}} : \A p \in C : Of1("graph")[p] \cap C # {}

TypeIds == {t.id : t \in bundle.types}
Said(code, at) == <<code, at>>

UnresolvedImports ==
  {Said("UNRESOLVED_IMPORT", p) : p \in {p \in Of1("manifest").imports : ~Resolves(p)}}
Excused(omissions) == Of1("manifest").exports \cup omissions
UnknownExtensions ==
  {Said("UNKNOWN_REQUIRED_EXTENSION", x.id) : x \in {x \in bundle.extensions : x.required /\ x.id \notin Of1("policy").listed}}
Undeclared(entities, excused) == {Said("UNDECLARED_LOSS", t.id) : t \in {t \in entities : t.id \notin excused}}
Unmapped(known, ids) == {Said("UNKNOWN_MAPPING_TARGET", i) : i \in ids \ known}
Correspondences == UNION {m.members : m \in bundle.mappings}
Ends == UNION {{m.source, m.target} : m \in bundle.mappings}
Rejects == Given("policy") /\ Of1("policy").rejects

\* A role is an entity's by its last segment, and a profile may be missing.
entity(t) == t.role \in {"agent-ix:entity", "other:entity"}
omitted == IF Given("profile") THEN Of1("profile") ELSE {}
package_context ==
  (IF Given("manifest") /\ Given("graph") THEN UnresolvedImports ELSE {})
    \cup (IF Given("graph") /\ Cyclic THEN {Said("PACKAGE_CYCLE", "graph")} ELSE {})
    \cup Unmapped(TypeIds \cup bundle.members, Ends \cup Correspondences)
    \cup (IF Given("manifest") THEN Undeclared({t \in bundle.types : entity(t)}, Excused(omitted)) ELSE {})
    \cup (IF Rejects THEN UnknownExtensions ELSE {})

\* The role is compared whole, the ends of a mapping are types, and without a
\* profile no loss is declared or not.
checkPackageContext ==
  (IF ~Given("graph") THEN {}
   ELSE (IF Given("manifest") THEN UnresolvedImports ELSE {}) \cup (IF Cyclic THEN {Said("PACKAGE_CYCLE", "graph")} ELSE {}))
    \cup Unmapped(TypeIds, Ends) \cup Unmapped(TypeIds \cup bundle.members, Correspondences)
    \cup (IF Given("profile") /\ Given("manifest")
            THEN Undeclared({t \in bundle.types : t.role = "agent-ix:entity"}, Excused(Of1("profile"))) ELSE {})
    \cup (IF Rejects THEN UnknownExtensions ELSE {})
=============================================================================
