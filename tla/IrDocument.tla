----------------------------- MODULE IrDocument -----------------------------
(***************************************************************************)
(* A semantic IR document as its readers' cross-field rules see it: one    *)
(* the schema admits.  A type is named by a letter, a native scalar by the *)
(* name of its scalar; what a value, an operand or an identity is spelled  *)
(* like is abstracted to what the rules tell apart.                        *)
(***************************************************************************)
EXTENDS Naturals, Sequences, FiniteSets, SequencesExt

VARIABLE document   \* [types, occurrences, exports, resolved]

NoRef == "none"
Clock == "clock"            \* ix://quire/native/Clock
Unit == "unit"              \* a well-formed ix://quire/unit/ reference
BadUnit == "bad unit"       \* one that is not
Misspelt == "misspelt"      \* a name under ix://quire/native/ in no table
Foreign == "foreign"        \* an identity of another package
Lost == "lost"              \* one of this package, declared by nothing
Natives == {"integer", "decimal", "float32", "float64", "boolean", "string", "datetime", "any"}
Numeric == {"integer", "decimal", "float32", "float64"}
NoUpper == 9              \* the upper bound of a multiplicity without one

BoundKeywords == {"min", "max", "exclusiveMin", "exclusiveMax"}

\* Values: texts that are a canonical integer, in or outside i128, a canonical
\* decimal or neither; numbers exact in float32 or only in float64; and others.
NumberDigits == [int |-> <<1, 0>>, bigint |-> <<39, 0>>, dec |-> <<1, 1>>, longdec |-> <<1, 3>>]
TextValues == DOMAIN NumberDigits \cup {"text"}
Numbers == {"f32", "f64"}
CanonicalIntegers == {"int", "bigint"}
InI128 == {"int"}
\* A decimal policy is a precision and a scale no greater.
WithinPolicy(v, policy) ==
  /\ v \in DOMAIN NumberDigits
  /\ NumberDigits[v][1] <= policy[1] - policy[2]
  /\ NumberDigits[v][2] <= policy[2]

ValueKinds == {"alias", "reference", "sequence", "map", "option", "union", "scalar", "record", "enum"}
\* A construct kind is of the alias shape, a tuple, or no value type at all.
ConstructKinds == {"named", "tuple", "interface"}

TypesSaid == document.types
DeclaredIds == {d.id : d \in ToSet(TypesSaid)}
NodeOf(ref) == TypesSaid[CHOOSE k \in DOMAIN TypesSaid : TypesSaid[k].id = ref /\ \A j \in 1 .. k - 1 : TypesSaid[j].id # ref]
Params(d) == FlattenSeq([k \in DOMAIN d.operations |-> d.operations[k].params])
MembersOf(d) == ToSet(d.fields \o Params(d))
Features == UNION {MembersOf(d) : d \in ToSet(TypesSaid)}
IsFeature(ref) == \E f \in Features : f.id = ref
Feature(ref) == CHOOSE f \in Features : f.id = ref

IsAlias(d) == d.kind \in {"alias", "named"}
Aliased(ref) == ref \in DeclaredIds /\ IsAlias(NodeOf(ref))

\* The references from ref on, each once, along the aliases of the given kinds
\* and, where it may, along features; it stops before one met already.
RECURSIVE Walk(_, _, _)
Walk(s, kinds, features) ==
  LET ref == Last(s)
      next == IF ref \in DeclaredIds /\ NodeOf(ref).kind \in kinds THEN NodeOf(ref).to
              ELSE IF features /\ IsFeature(ref) THEN Feature(ref).ref
              ELSE NoRef
  IN IF next = NoRef \/ Contains(s, next) THEN s ELSE Walk(Append(s, next), kinds, features)
AllAliases == {"alias", "named"}

\* What a walk ends at, if that is a native scalar or a type that is no alias.
EndOf(s) == IF Last(s) \in Natives \/ (Last(s) \in DeclaredIds /\ ~Aliased(Last(s))) THEN Last(s) ELSE NoRef
KindOf(end) == IF end \in Natives THEN "scalar" ELSE NodeOf(end).kind
ScalarOf(end) == IF end \in Natives THEN end ELSE NodeOf(end).scalar

\* The policies on the nodes of a walk, in order.
Carried(s) ==
  FlattenSeq([k \in DOMAIN s |-> IF s[k] \in DeclaredIds THEN NodeOf(s[k]).policy
                                 ELSE IF IsFeature(s[k]) THEN Feature(s[k]).policy ELSE <<>>])

When(condition, code) == IF condition THEN {code} ELSE {}
EachOf(s, Findings(_)) == UNION {Findings(x) : x \in ToSet(s)}
\* The findings of the second and later items of s that agree on a member.
SecondOf(s, Key(_), code) == When(\E j, k \in DOMAIN s : j # k /\ Key(s[j]) = Key(s[k]), code)

ClauseIds(d) == {c.clauseId : c \in ToSet(d.clauses)}
IdOf(x) == x.id
NameOf(x) == x.name
ClauseIdOf(c) == c.clauseId
=============================================================================
