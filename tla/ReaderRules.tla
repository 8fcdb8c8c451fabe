---------------------------- MODULE ReaderRules -----------------------------
(***************************************************************************)
(* The cross-field rules of the two readers that are shipped, one after    *)
(* the other over the same document; each rule is the set of codes it      *)
(* reports.  First the Rust reader: crates/semantic-ir/src/rules.rs,       *)
(* `decide`.                                                               *)
(***************************************************************************)
EXTENDS IrDocument

\* Once past an alias it follows no feature; an alias of a feature is refused.
resolve(ref) ==
  EndOf(IF IsFeature(ref) THEN Walk(<<Feature(ref).ref>>, AllAliases, FALSE) ELSE Walk(<<ref>>, AllAliases, FALSE))
\* Mutant: only a reference written out is special, not an alias of one.
special_of_written(ref) == IF ref \in {Clock, Unit} THEN ref ELSE NoRef
special_of(ref) ==
  LET end == Last(Walk(<<ref>>, AllAliases, TRUE)) IN IF end \in {Clock, Unit} THEN end ELSE NoRef
special_type_ref(ref) == ref \in {Clock, Unit, BadUnit}
resolves(ref) == ref \in Natives \/ ref \in DeclaredIds
is_option_type(ref) == resolve(ref) # NoRef /\ KindOf(resolve(ref)) = "option"
option_presence(f) == f.lower = 1 /\ f.upper = 1 /\ is_option_type(f.ref) /\ f.presence = "optional"

\* Mutant: the nearest policy hides the ones behind it.
decimal_policies_nearest(ref, owner) == IF owner # <<>> THEN owner ELSE Carried(Walk(<<ref>>, {"alias"}, TRUE))
\* The policies are counted through aliases of the core kind alone.
decimal_policies_from(ref, owner) == owner \o Carried(Walk(<<ref>>, {"alias"}, TRUE))
decimal_policy(ref) == decimal_policies_from(ref, <<>>)

check_decimal_position(ref, owner) ==
  LET end == resolve(ref)
      policies == decimal_policies_from(ref, owner)
  IN IF end = NoRef THEN {}
     ELSE IF ScalarOf(end) = "decimal"
       THEN When(policies = <<>>, "DECIMAL_POLICY_MISSING") \cup When(Len(policies) > 1, "DECIMAL_POLICY_CONFLICT")
     ELSE When(policies # <<>>, "DECIMAL_POLICY_CONFLICT")

special_member_shape(m, clock) ==
  When(\/ clock /\ m.nullable
       \/ m.default.kind # "none"
       \/ m.unit \/ m.policy # <<>> \/ m.profile
       \/ m.constraints # <<>>,
       IF clock THEN "INVALID_CLOCK_MEMBER" ELSE "INVALID_QUANTITY_MEMBER")

\* A type reference of the document, and the node it is written on.
Position(kind, ref, subject) == [kind |-> kind, ref |-> ref, subject |-> subject]
visit_constraints(constraints) == {Position("constraint", c.to, c) : c \in ToSet(constraints)}
visit_members(members, kind) ==
  UNION {{Position(kind, m.ref, m)} \cup (IF special_of(m.ref) = NoRef THEN visit_constraints(m.constraints) ELSE {}) :
           m \in ToSet(members)}
of_definition(d) ==
  IF IsAlias(d) \/ d.kind \in {"reference", "sequence", "map", "option"}
  THEN {Position(IF IsAlias(d) THEN "alias" ELSE d.kind, d.to, d)} ELSE {}
type_positions(d) ==
  of_definition(d)
    \cup {Position("variant", v.ref, v) : v \in {v \in ToSet(d.variants) : v.ref # NoRef}}
    \cup {Position("position", p.ref, p) : p \in ToSet(d.positions)}
    \cup visit_constraints(d.constraints)
    \cup visit_members(d.fields, "field")
    \cup (UNION {visit_members(o.params, "param") \cup {Position("returns", r.ref, r) : r \in ToSet(o.returns)} :
                   o \in ToSet(d.operations)})
visit_position(p) ==
  LET special == special_of(p.ref)
      member == p.kind \in {"field", "param", "returns"}
  IN IF special # NoRef /\ member /\ ~special_type_ref(p.ref) THEN special_member_shape(p.subject, special = Clock)
     ELSE IF ~special_type_ref(p.ref) THEN check_decimal_position(p.ref, p.subject.policy)
     ELSE When(p.ref = BadUnit \/ (p.ref = Unit /\ p.kind = "reference"), "UNRESOLVED_TYPE_REF")
            \cup (IF member /\ p.ref # BadUnit THEN special_member_shape(p.subject, p.ref = Clock) ELSE {})

alias_cycle(d) == LET end == Last(Walk(<<d.id>>, AllAliases, FALSE)) IN Aliased(end)
target_rules(d) ==
  IF ~(IsAlias(d) \/ d.kind = "reference") \/ special_type_ref(d.to) THEN {}
  ELSE IF ~resolves(d.to) \/ (d.kind = "reference" /\ (special_of(d.to) = Unit \/ is_option_type(d.to)))
    THEN {"UNRESOLVED_TYPE_REF"}
  ELSE When(IsAlias(d) /\ alias_cycle(d), "ALIAS_CYCLE")

option_inner(d) ==
  IF d.kind # "option" THEN {}
  ELSE IF d.to = Misspelt \/ special_of(d.to) = Clock THEN {"INVALID_OPTION_INNER"}
  ELSE IF special_type_ref(d.to) \/ d.to \in Natives THEN {}
  ELSE IF ~resolves(d.to) THEN {"UNRESOLVED_OPTION_INNER"}
  ELSE When(resolve(d.to) # NoRef /\ KindOf(resolve(d.to)) \in {"option", "interface"}, "INVALID_OPTION_INNER")

Unresolved(ref, code) == When(~special_type_ref(ref) /\ ~resolves(ref), code)
check_element(d) == IF d.kind \in {"sequence", "map"} THEN Unresolved(d.to, "UNRESOLVED_ELEMENT_TYPE") ELSE {}
variant_rules(v) ==
  IF v.ref = NoRef THEN {}
  ELSE When(special_of(v.ref) = Clock, "INVALID_CLOCK_MEMBER") \cup Unresolved(v.ref, "UNRESOLVED_VARIANT_PAYLOAD")
position_rules(p) == Unresolved(p.ref, "UNRESOLVED_POSITION_TYPE")

applies_to(keyword, kind, scalar) ==
  CASE keyword \in BoundKeywords -> kind = "scalar" /\ scalar \in Numeric \cup {"datetime"}
    [] keyword = "pattern" -> kind = "scalar" /\ scalar = "string"
    [] keyword = "enumValues" -> kind \in {"scalar", "enum"}
    [] keyword = "nonEmpty" -> (kind = "scalar" /\ scalar = "string") \/ kind \in {"sequence", "map"}
    [] keyword = "unique" -> kind \in {"sequence", "map"}

decimal_within_policy(v, policies) == policies # <<>> /\ WithinPolicy(v, policies[1])
validate_value_site(v, scalar, policies, code) ==
  When(\/ scalar = "integer" /\ v \notin InI128
       \/ scalar = "decimal" /\ ~decimal_within_policy(v, policies)
       \/ scalar = "float32" /\ v # "f32"
       \/ scalar = "float64" /\ v \notin Numbers, code)
validate_default_value(f) ==
  LET scalar == ScalarOf(resolve(f.ref))
      site(v) == validate_value_site(v, scalar, decimal_policy(f.id), "INVALID_DEFAULT_VALUE")
  IN IF f.default.kind = "none" \/ resolve(f.ref) = NoRef \/ (f.nullable /\ f.default = [kind |-> "one", values |-> <<"null">>]) THEN {}
     ELSE IF f.upper > 1 /\ f.default.kind # "list" THEN {"INVALID_DEFAULT_VALUE"}
     ELSE IF f.upper <= 1 /\ f.default.kind = "list" THEN site("list")
     ELSE EachOf(f.default.values, site)

operand_rules(c, scalar) ==
  CASE scalar = "integer" -> IF c.values[1] \in CanonicalIntegers
                               THEN When(c.values[1] \notin InI128, "INTEGER_OUTSIDE_I128") ELSE {"INVALID_OPERAND"}
    [] scalar \in Numeric \ {"integer"} -> validate_value_site(c.values[1], scalar, decimal_policy(c.to), "INVALID_OPERAND")
    [] OTHER -> {}
special_constraint(c, special) ==
  IF c.keyword \notin {"min", "max"} THEN {"CONSTRAINT_NOT_APPLICABLE"}
  ELSE IF c.values[1] = "bigint" THEN {"INTEGER_OUTSIDE_I128"}
  ELSE When(c.values[1] # "int", "INVALID_OPERAND")
\* A construct kind is decided as no core kind.
constraint_rules(c) ==
  LET end == resolve(c.to)
      kind == IF KindOf(end) \in ConstructKinds THEN "construct" ELSE KindOf(end)
  IN IF c.to = BadUnit THEN {}
     ELSE IF special_of(c.to) # NoRef THEN special_constraint(c, special_of(c.to))
     ELSE IF end # NoRef /\ (kind = "option" \/ ~applies_to(c.keyword, kind, ScalarOf(end)))
       THEN {"CONSTRAINT_NOT_APPLICABLE"}
     ELSE (IF end = NoRef THEN {}
           ELSE IF c.keyword \in BoundKeywords THEN operand_rules(c, ScalarOf(end))
           ELSE IF c.keyword = "enumValues"
             THEN EachOf(c.values, LAMBDA v : validate_value_site(v, ScalarOf(end), decimal_policy(c.to), "INVALID_OPERAND"))
           ELSE {})
          \cup When(c.keyword = "pattern" /\ c.values[1] = "bad", "INVALID_PATTERN")

field_rules(f) ==
  LET end == resolve(f.ref) IN
  Unresolved(f.ref, "UNRESOLVED_TYPE_REF")
    \cup When(f.upper < f.lower, "INVALID_MULTIPLICITY")
    \cup When(option_presence(f), "INVALID_OPTION_PRESENCE")
    \cup (IF special_of(f.ref) # NoRef THEN {}
          ELSE When(f.unit /\ (end = NoRef \/ KindOf(end) # "scalar"), "UNIT_ON_NON_SCALAR")
                 \cup When(f.profile /\ end # NoRef /\ ScalarOf(end) # "string", "SCHEMA_VIOLATION")
                 \cup EachOf(f.constraints, constraint_rules)
                 \cup validate_default_value(f))
duplicate_names(members, code) == SecondOf(members, NameOf, code)

relationship_rules(d, r) ==
  When(r.to \notin DeclaredIds \cup document.exports, "UNRESOLVED_RELATIONSHIP_TARGET")
    \cup When(r.from # NoRef /\ r.from # d.id, "INVALID_RELATIONSHIP_SOURCE")
clause_rules(d) ==
  SecondOf(d.clauses, ClauseIdOf, "DUPLICATE_CLAUSE_ID")
    \cup When(\E c \in ToSet(d.clauses) : c.sourced /\ ~c.spanned, "MISSING_SOURCE_SPAN")
operation_rules(d, o) ==
  EachOf(o.params, field_rules) \cup duplicate_names(o.params, "DUPLICATE_PARAM")
    \cup EachOf(o.returns, LAMBDA r : Unresolved(r.ref, "UNRESOLVED_TYPE_REF"))
    \cup When(~(o.bound \subseteq ClauseIds(d)), "DANGLING_CLAUSE_REF")
per_type(d) ==
  UNION {visit_position(p) : p \in type_positions(d)}
    \cup target_rules(d) \cup option_inner(d) \cup check_element(d)
    \cup EachOf(d.variants, variant_rules) \cup EachOf(d.positions, position_rules)
    \cup EachOf(d.constraints, constraint_rules)
    \cup EachOf(d.fields, field_rules) \cup duplicate_names(d.fields, "DUPLICATE_FIELD_NAME")
    \cup EachOf(d.relations, LAMBDA r : relationship_rules(d, r))
    \cup clause_rules(d) \cup EachOf(d.operations, LAMBDA o : operation_rules(d, o))

\* Every identity of the document, in no order: the second of two is refused.
identity_declarations ==
  FlattenSeq([k \in DOMAIN TypesSaid |->
    LET d == TypesSaid[k] IN
    <<d>> \o d.constraints \o d.fields \o d.variants \o d.positions \o d.relations \o d.clauses
      \o FlattenSeq([j \in DOMAIN d.operations |-> <<d.operations[j]>> \o d.operations[j].params])])
  \o document.occurrences
duplicate_identities == SecondOf(identity_declarations, IdOf, "DUPLICATE_IDENTITY")
occurrences == When(\E o \in ToSet(document.occurrences) : o.to \notin DeclaredIds, "UNRESOLVED_OCCURRENCE_DEFINITION")

decide == duplicate_identities \cup EachOf(TypesSaid, per_type) \cup occurrences
-----------------------------------------------------------------------------
(***************************************************************************)
(* The same rules in the compiler: compiler/ir/reader.mjs,                 *)
(* `readContractIr`.  A reference into another package is suppressed, not  *)
(* refused, where no resolution says what that package exports.            *)
(***************************************************************************)

known == IF document.resolved THEN document.exports ELSE {}
foreign(ref) == ~document.resolved /\ ref = Foreign

resolveKind(ref, allowField) == EndOf(Walk(<<ref>>, AllAliases, allowField))
optionTarget(ref) ==
  LET end == Last(Walk(<<ref>>, AllAliases, FALSE)) IN IF end \in DeclaredIds /\ ~Aliased(end) THEN NodeOf(end).kind ELSE NoRef
specialOf(ref) ==
  LET end == Last(Walk(<<ref>>, AllAliases, TRUE)) IN IF end \in {Clock, Unit, BadUnit} THEN end ELSE NoRef

\* The policies met from a node to its terminal scalar; none if it has none.
walkDecimal(ref, initial) ==
  LET s == Walk(<<ref>>, AllAliases, TRUE) IN IF EndOf(s) = NoRef THEN <<>> ELSE initial \o Carried(s)
PolicyRules(end, policies) ==
  When(ScalarOf(end) = "decimal" /\ Len(policies) > 1, "DECIMAL_POLICY_CONFLICT")
    \cup When(ScalarOf(end) # "decimal" /\ policies # <<>>, "DECIMAL_POLICY_CONFLICT")
checkCompositeDecimalRef(ref, policy) == When(ref = "decimal" /\ policy = <<>>, "DECIMAL_POLICY_MISSING")

checkMultiplicity(m) == When(m.upper < m.lower, "INVALID_MULTIPLICITY")

specialMember(m) ==
  LET clock == specialOf(m.ref) = Clock IN
  IF specialOf(m.ref) = BadUnit THEN When(m.ref = BadUnit, "UNRESOLVED_TYPE_REF")
  ELSE When(\/ m.unit \/ m.policy # <<>> \/ m.profile
            \/ m.default.kind # "none"
            \/ m.constraints # <<>>
            \/ clock /\ m.nullable,
            IF clock THEN "INVALID_CLOCK_MEMBER" ELSE "INVALID_QUANTITY_MEMBER")

decimalAdmitted(v, policies) == policies # <<>> /\ WithinPolicy(v, policies[1])
valueAdmitted(scalar, v, policies) ==
  CASE scalar = "boolean" -> v = "true"
    [] scalar = "integer" -> v \in InI128
    [] scalar = "decimal" -> decimalAdmitted(v, policies)
    [] scalar = "float32" -> v = "f32"
    [] scalar = "float64" -> v \in Numbers
    [] OTHER -> TRUE
defaultValueAdmitted(f, scalar, policies) ==
  \/ f.nullable /\ f.default.values = <<"null">> /\ f.default.kind = "one"
  \/ /\ f.upper > 1 /\ f.default.kind = "list"
     /\ \A v \in ToSet(f.default.values) : valueAdmitted(scalar, v, policies)
  \/ f.upper <= 1 /\ valueAdmitted(scalar, IF f.default.kind = "list" THEN "list" ELSE f.default.values[1], policies)
operandAdmitted(scalar, v, policies) ==
  IF scalar \in Numeric THEN valueAdmitted(scalar, v, policies) ELSE v \in TextValues
OutsideI128(scalar, v) == scalar = "integer" /\ v \in CanonicalIntegers \ InI128

applies(keyword, kind, scalar) ==
  LET subject == IF kind = "scalar" THEN scalar ELSE kind IN
  CASE keyword \in BoundKeywords -> subject \in Numeric \cup {"datetime"}
    [] keyword = "pattern" -> subject = "string"
    [] keyword = "enumValues" -> subject \in Natives \ {"any"}
    [] keyword = "nonEmpty" -> subject \in {"string", "sequence", "map"}
    [] keyword = "unique" -> subject = "sequence"

checkSpecialConstraint(c) ==
  IF c.keyword \notin {"min", "max"} THEN {"CONSTRAINT_NOT_APPLICABLE"}
  ELSE IF c.values[1] = "bigint" THEN {"INTEGER_OUTSIDE_I128"}
  ELSE When(c.values[1] # "int", "INVALID_OPERAND")
SubjectPolicies(c) == walkDecimal(c.to, <<>>)
ValueRule(scalar, v, admitted) ==
  IF admitted THEN {} ELSE {IF OutsideI128(scalar, v) THEN "INTEGER_OUTSIDE_I128" ELSE "INVALID_OPERAND"}
OperandRules(c, end) ==
  LET scalar == ScalarOf(end)
      policies == SubjectPolicies(c)
  IN When(c.keyword = "pattern" /\ c.values[1] = "bad", "INVALID_PATTERN")
       \cup (IF KindOf(end) # "scalar" THEN {}
             ELSE IF c.keyword \in BoundKeywords
               THEN ValueRule(scalar, c.values[1], operandAdmitted(scalar, c.values[1], policies))
             ELSE IF c.keyword = "enumValues"
               THEN EachOf(c.values, LAMBDA v : ValueRule(scalar, v, valueAdmitted(scalar, v, policies)))
             ELSE {})
checkConstraint(c) ==
  LET end == resolveKind(c.to, TRUE)
      policies == SubjectPolicies(c)
  IN CASE specialOf(c.to) = BadUnit -> When(c.to = BadUnit, "UNRESOLVED_TYPE_REF")
       [] specialOf(c.to) \in {Clock, Unit} -> checkSpecialConstraint(c)
       [] specialOf(c.to) = NoRef /\ end = NoRef -> {"UNRESOLVED_TYPE_REF"}
       [] OTHER ->
            When(ScalarOf(end) = "decimal" /\ policies = <<>>, "DECIMAL_POLICY_MISSING")
              \cup When(ScalarOf(end) = "decimal" /\ Len(policies) > 1, "DECIMAL_POLICY_CONFLICT")
              \cup When(~applies(c.keyword, KindOf(end), ScalarOf(end)), "CONSTRAINT_NOT_APPLICABLE")
              \cup OperandRules(c, end)

ScalarFieldRules(f, end) ==
  LET policies == walkDecimal(f.ref, f.policy) IN
  When(ScalarOf(end) = "decimal" /\ policies = <<>>, "DECIMAL_POLICY_MISSING")
    \cup PolicyRules(end, policies)
    \cup When(f.default.kind # "none" /\ ~defaultValueAdmitted(f, ScalarOf(end), policies), "INVALID_DEFAULT_VALUE")
checkField(f) ==
  LET end == resolveKind(f.ref, FALSE) IN
  IF specialOf(f.ref) # NoRef THEN specialMember(f) \cup checkMultiplicity(f)
  ELSE When(f.presence = "optional" /\ f.lower = 1 /\ f.upper = 1 /\ optionTarget(f.ref) = "option", "INVALID_OPTION_PRESENCE")
         \cup When(end = NoRef /\ f.ref \notin known /\ ~foreign(f.ref), "UNRESOLVED_TYPE_REF")
         \cup checkMultiplicity(f)
         \cup When(f.unit /\ end # NoRef /\ KindOf(end) # "scalar", "UNIT_ON_NON_SCALAR")
         \cup (IF end # NoRef /\ KindOf(end) = "scalar" THEN ScalarFieldRules(f, end) ELSE {})
         \cup EachOf(f.constraints, checkConstraint)

OptionRules(d) ==
  IF d.kind # "option" THEN {}
  ELSE IF d.to = Misspelt \/ specialOf(d.to) = Clock THEN {"INVALID_OPTION_INNER"}
  ELSE IF d.to \in Natives \cup {Unit, BadUnit} THEN {}
  ELSE IF d.to \notin DeclaredIds THEN {"UNRESOLVED_OPTION_INNER"}
  ELSE When(optionTarget(d.to) \in {"option", "interface"}, "INVALID_OPTION_INNER")
ReferenceRules(d) ==
  When(d.kind = "reference" /\ (optionTarget(d.to) = "option" \/ specialOf(d.to) = Unit), "UNRESOLVED_TYPE_REF")
SelfPolicyRules(d) ==
  LET end == resolveKind(d.id, FALSE) IN
  IF end # NoRef /\ KindOf(end) = "scalar" THEN PolicyRules(end, walkDecimal(d.id, <<>>)) ELSE {}
PositionRules(d) ==
  When(\E ref \in {d.to} \cup {v.ref : v \in ToSet(d.variants \o d.positions)} : ref = BadUnit, "UNRESOLVED_TYPE_REF")
    \cup When(\E v \in ToSet(d.variants) : specialOf(v.ref) = Clock, "INVALID_CLOCK_MEMBER")
    \cup (IF d.kind \in {"sequence", "map", "reference"} THEN checkCompositeDecimalRef(d.to, d.policy) ELSE {})
    \cup EachOf(d.variants \o d.positions, LAMBDA p : checkCompositeDecimalRef(p.ref, p.policy))

ClauseRules(d) ==
  SecondOf(d.clauses, ClauseIdOf, "DUPLICATE_CLAUSE_ID")
    \cup When(\E c \in ToSet(d.clauses) : c.sourced /\ ~c.spanned, "MISSING_SOURCE_SPAN")
RelationshipRules(d, r) ==
  When(r.to \notin DeclaredIds \cup known /\ ~foreign(r.to), "UNRESOLVED_RELATIONSHIP_TARGET")
    \cup When(r.from # NoRef /\ r.from # d.id, "INVALID_RELATIONSHIP_SOURCE")
    \cup checkMultiplicity(r)
OperationRules(d, o) ==
  SecondOf(o.params, NameOf, "DUPLICATE_PARAM")
    \cup EachOf(o.params, checkField)
    \cup EachOf(o.returns, LAMBDA r :
           (IF specialOf(r.ref) # NoRef THEN specialMember(r)
            ELSE When(resolveKind(r.ref, FALSE) = NoRef, "UNRESOLVED_TYPE_REF"))
           \cup checkCompositeDecimalRef(r.ref, r.policy) \cup checkMultiplicity(r))
    \cup When(~(o.bound \subseteq ClauseIds(d)), "DANGLING_CLAUSE_REF")
\* One identity space across the members of a type, its parameters left out.
MemberIdentityRules(d) ==
  SecondOf(d.fields \o d.variants \o d.positions \o d.constraints \o d.relations \o d.operations \o d.clauses,
          IdOf, "DUPLICATE_IDENTITY")
checkDefinition(d) ==
  OptionRules(d) \cup ReferenceRules(d) \cup SelfPolicyRules(d) \cup PositionRules(d)
    \cup EachOf(d.fields, checkField) \cup EachOf(d.constraints, checkConstraint)
    \cup ClauseRules(d) \cup EachOf(d.relations, LAMBDA r : RelationshipRules(d, r))
    \cup EachOf(d.operations, LAMBDA o : OperationRules(d, o))
    \cup MemberIdentityRules(d)

readContractIr == SecondOf(TypesSaid, IdOf, "DUPLICATE_IDENTITY") \cup EachOf(TypesSaid, checkDefinition)
=============================================================================
