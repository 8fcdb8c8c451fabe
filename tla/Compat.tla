------------------------------ MODULE Compat ------------------------------
(***************************************************************************)
(* The two classifiers of the difference between two contracts: the        *)
(* compiler's diffSemanticContract (compiler/compat/diff.mjs), which lists  *)
(* changes, and the reader's classify (crates/semantic-ir/src/compat.rs),  *)
(* which keeps the worst disposition.                                      *)
(*                                                                         *)
(* A contract maps identities to type definitions, or to Absent; so do the *)
(* members of a definition.  What the two only compare for equality is a   *)
(* value.  The families that come from declared inputs (profiles,          *)
(* mappings, reservations, vocabularies, generated names) and the tables   *)
(* of constructs and populations are left out.                             *)
(***************************************************************************)
EXTENDS Integers, Sequences, SequencesExt

CONSTANTS
    Absent,
    Safe     \* the largest integer a double holds exactly

Dispositions ==
    <<"patch", "additive", "conditional", "unknown", "breaking", "invalid">>

RankOf(d) == CHOOSE i \in DOMAIN Dispositions : Dispositions[i] = d

mostRestrictive(S) ==
    CHOOSE d \in S \cup {"patch"} : \A e \in S : RankOf(e) <= RankOf(d)

\* What is reported if a condition holds.
If(condition, report) == IF condition THEN {report} ELSE {}

Gone(b, a) == {i \in DOMAIN b : b[i] # Absent /\ a[i] = Absent}
New(b, a) == Gone(a, b)
Both(b, a) == {i \in DOMAIN b : b[i] # Absent /\ a[i] # Absent}

Declared(types, r) == r \in DOMAIN types /\ types[r] # Absent

\* The definitions from r on, through those of the given kinds, each once.
Follow(types, kinds, r) ==
    LET follow[s \in Seq(STRING)] ==
          IF /\ Declared(types, Last(s))
             /\ types[Last(s)].kind \in kinds
             /\ ~Contains(s, types[Last(s)].target)
          THEN follow[Append(s, types[Last(s)].target)]
          ELSE s
    IN follow[<<r>>]

----------------------------------------------------------------------------
(* Numeric domains.  Decimals, whose bounds move alike, are left out.      *)
NativeNumeric(r) == IF r = "Integer" THEN "integer" ELSE Absent

\* The scalar a reference stands for, with the constraints on the way to it.
numericSubject(types, r) ==
    LET p == Follow(types, {"alias", "reference"}, r)
        passed == {q \in ToSet(p) : Declared(types, q)}
        end == Last(p)
    IN [scalar |->
          IF ~Declared(types, end) THEN NativeNumeric(end)
          ELSE IF types[end].kind = "scalar" THEN types[end].scalar ELSE Absent,
        constraints |->
          UNION {{types[q].constraints[i] : i \in
                    {j \in DOMAIN types[q].constraints :
                        types[q].constraints[j] # Absent}} : q \in passed}]

Bounds == {"min", "max", "exclusiveMin", "exclusiveMax"}
Lower == {"min", "exclusiveMin"}

\* The least and greatest integer some bounds leave, each the end of the safe
\* integers when no bound says otherwise.
integerRange(C) ==
    LET lowers == {c.value + (IF c.keyword = "min" THEN 0 ELSE 1) :
                      c \in {d \in C : d.keyword \in Lower}}
        uppers == {c.value - (IF c.keyword = "max" THEN 0 ELSE 1) :
                      c \in {d \in C : d.keyword \in Bounds \ Lower}}
    IN [lower |-> IF lowers = {} THEN -Safe
                  ELSE CHOOSE v \in lowers : \A w \in lowers : w <= v,
        upper |-> IF uppers = {} THEN Safe
                  ELSE CHOOSE v \in uppers : \A w \in uppers : v <= w]

wideInteger(C) ==
    LET r == integerRange(C)
    IN {r.lower, r.upper} \cap (-Safe .. Safe) # {r.lower, r.upper}

numericBoundChange(b, a) ==
    LET old == integerRange(b)
        new == integerRange(a)
    IN IF old = new THEN {}
       ELSE IF new.lower <= old.lower /\ old.upper <= new.upper THEN {"conditional"}
       ELSE {"breaking"}

scalarChange(b, a) ==
    IF b = a THEN {}
    ELSE IF <<b, a>> = <<"date", "datetime">> THEN {"conditional"} ELSE {"breaking"}

MemberConstraints(m) ==
    {m.constraints[i] : i \in {j \in DOMAIN m.constraints : m.constraints[j] # Absent}}

\* A changed reference breaks unless it only widens an integer's domain.
numericRefDisposition(b, a, old, new) ==
    IF old.scalar # new.scalar THEN mostRestrictive(scalarChange(old.scalar, new.scalar))
    ELSE IF \/ old.scalar # "integer"
            \/ wideInteger(b) # wideInteger(a)
            \/ numericBoundChange(b, a) = {}
    THEN "breaking"
    ELSE mostRestrictive(numericBoundChange(b, a))

----------------------------------------------------------------------------
(* diffSemanticContract.  A request says what is known of the consumers:   *)
(* whether the evidence is current, stale or unknown, whether one of them  *)
(* rejects what it does not know, and what the targets answered.           *)
Change(identity, family, disposition) ==
    [identity |-> identity, family |-> family, disposition |-> disposition]

additionDisposition(request) ==
    CASE request.evidence = "unknown" -> "unknown"
      [] request.evidence # "unknown" /\ request.rejects -> "breaking"
      [] request.evidence = "stale" /\ ~request.rejects -> "conditional"
      [] OTHER -> "additive"

\* The move of one bound: by value where both documents agree it is numeric.
\* Mutant: an exclusive lower bound is read as an upper one.
boundMoveOfMin(b, a) ==
    IF b.value = a.value THEN "patch"
    ELSE IF (a.keyword = "min" /\ b.value > a.value)
              \/ (a.keyword # "min" /\ b.value < a.value)
    THEN "conditional" ELSE "breaking"

boundMove(b, a) ==
    IF b.value = a.value THEN "patch"
    ELSE IF (a.keyword \in Lower /\ b.value > a.value)
              \/ (a.keyword \notin Lower /\ b.value < a.value)
    THEN "conditional" ELSE "breaking"

diffConstraints(b, a, oldScalar, newScalar) ==
    LET numeric == oldScalar = newScalar /\ newScalar = "integer"
    IN {Change(i, "constraint",
               IF numeric /\ b[i].keyword \in Bounds THEN "conditional" ELSE "breaking")
            : i \in Gone(b, a)}
       \cup {Change(i, "constraint", "breaking") : i \in New(b, a)}
       \cup {Change(i, "constraint",
               IF a[i].value = b[i].value THEN "patch"
               ELSE IF numeric /\ b[i].keyword = a[i].keyword /\ a[i].keyword \in Bounds
               THEN boundMove(b[i], a[i]) ELSE "breaking")
            : i \in {j \in Both(b, a) : b[j] # a[j]}}

multiplicityChange(b, a) ==
    IF b = a THEN {}
    ELSE IF /\ b.ordered = a.ordered
            /\ a.lower <= b.lower /\ b.upper <= a.upper
    THEN {"additive"} ELSE {"breaking"}

\* One field of both contracts.  Its name is no part of what is compared.
FieldChanges(i, b, a, old, new) ==
    LET was == old.constraints \cup MemberConstraints(b)
        is == new.constraints \cup MemberConstraints(a)
    IN If(/\ old.scalar = "integer" /\ new.scalar = "integer"
          /\ wideInteger(was) # wideInteger(is), Change(i, "type", "breaking"))
       \cup diffConstraints(b.constraints, a.constraints, old.scalar, new.scalar)
       \cup {Change(i, "multiplicity", d) : d \in multiplicityChange(b.multiplicity, a.multiplicity)}
       \cup If(a.unit # b.unit, Change(i, "unit", "breaking"))
       \cup If(a.typeRef # b.typeRef,
               Change(i, "type", numericRefDisposition(was, is, old, new)))
       \cup If(a.nullable # b.nullable,
               Change(i, "field", IF a.nullable THEN "conditional" ELSE "breaking"))
       \cup If(a.default # b.default, Change(i, "field", "conditional"))
       \cup If(a.presence # b.presence,
               Change(i, "field", IF a.presence = "required" THEN "breaking" ELSE "additive"))
diffField(i, b, a, oldTypes, newTypes) ==
    FieldChanges(i, b, a, numericSubject(oldTypes, b.typeRef), numericSubject(newTypes, a.typeRef))

diffFields(b, a, request, oldTypes, newTypes) ==
    {Change(i, "field", "breaking") : i \in Gone(b, a)}
      \cup {Change(i, "field", IF a[i].presence = "required" THEN "breaking"
                               ELSE additionDisposition(request)) : i \in New(b, a)}
      \cup UNION {diffField(i, b[i], a[i], oldTypes, newTypes) : i \in Both(b, a)}

diffVariants(b, a, kind, request) ==
    {Change(i, kind, "breaking") : i \in Gone(b, a) \cup {j \in Both(b, a) : b[j] # a[j]}}
      \cup {Change(i, kind, IF kind = "union" THEN "additive"
                            ELSE IF request.rejects THEN "breaking"
                            ELSE additionDisposition(request)) : i \in New(b, a)}

\* Tuple positions, by place: the identity and what the reference resolves to.
resolvedRef(types, r) == Last(Follow(types, {"alias", "reference"}, r))

diffPositions(i, b, a, oldTypes, newTypes) ==
    LET shared == 1..(IF Len(b) < Len(a) THEN Len(b) ELSE Len(a))
    IN If(Len(a) # Len(b), Change(i, "tuple", "breaking"))
       \cup {Change(a[k].identity, "tuple", "breaking") : k \in
                {j \in shared : \/ b[j].identity # a[j].identity
                                \/ resolvedRef(oldTypes, b[j].typeRef)
                                     # resolvedRef(newTypes, a[j].typeRef)}}

\* Relationships, operations and clauses alike.
diffNodes(b, a) ==
    {Change(i, "node", "breaking") : i \in Gone(b, a) \cup {j \in Both(b, a) : b[j] # a[j]}}
      \cup {Change(i, "node", "additive") : i \in New(b, a)}

\* What a type itself is: its kind, else its scalar, target and wire form.
KindChanges(i, b, a, old, new) ==
    LET integers == old.scalar = "integer" /\ new.scalar = "integer"
    IN IF b.kind # a.kind THEN {Change(i, "type", "breaking")}
       ELSE {Change(i, "type", d) : d \in scalarChange(old.scalar, new.scalar)}
            \cup If(integers /\ a.kind \in {"alias", "reference"} /\ b.target # a.target,
                    Change(i, "type",
                           numericRefDisposition(old.constraints, new.constraints, old, new)))
            \cup If(integers /\ wideInteger(old.constraints) # wideInteger(new.constraints),
                    Change(i, "type", "breaking"))
diffKind(i, b, a, oldTypes, newTypes) ==
    KindChanges(i, b, a, numericSubject(oldTypes, i), numericSubject(newTypes, i))

Undocumented(t) == [t EXCEPT !.doc = Absent]

diffType(i, b, a, request, oldTypes, newTypes) ==
    diffKind(i, b, a, oldTypes, newTypes)
      \cup If(a.supertypes # b.supertypes, Change(i, "generalization", "breaking"))
      \cup If(a.abstract # b.abstract,
              Change(i, "abstract", IF a.abstract THEN "breaking" ELSE "additive"))
      \cup If(a.unknown # b.unknown,
              Change(i, "unknown-policy",
                     IF b.unknown = "preserve" /\ a.unknown = "reject"
                     THEN "breaking" ELSE "conditional"))
      \cup diffFields(b.fields, a.fields, request, oldTypes, newTypes)
      \cup diffVariants(b.variants, a.variants,
                        IF a.kind = "union" THEN "union" ELSE "enum", request)
      \cup diffPositions(i, b.positions, a.positions, oldTypes, newTypes)
      \cup diffConstraints(b.constraints, a.constraints,
                           numericSubject(oldTypes, i).scalar, numericSubject(newTypes, i).scalar)
      \cup diffNodes(b.nodes, a.nodes)
      \cup If(Undocumented(a) = Undocumented(b) /\ a # b,
              Change(i, "documentation", "patch"))

\* A type that is gone is a renamed one when a new type has its name.
Renamed(i, b, a) == \E j \in New(b, a) : a[j].displayName = b[i].displayName

\* A new type is said to be added unless an old one had its name.
Named(i, b, a) == \E j \in DOMAIN b : b[j] # Absent /\ b[j].displayName = a[i].displayName

Differences(b, a, request) ==
    {Change(i, IF Renamed(i, b, a) THEN "identity" ELSE "type", "breaking") : i \in Gone(b, a)}
      \cup {Change(i, "type", "additive") : i \in {j \in New(b, a) : ~Named(j, b, a)}}
      \cup UNION {diffType(i, b[i], a[i], request, b, a) : i \in Both(b, a)}

\* Two contracts that differ in nothing are one patch.
Reported(differences) ==
    IF differences = {} THEN {Change("source", "documentation", "patch")} ELSE differences

record(change, request) ==
    [change EXCEPT !.disposition =
        mostRestrictive({@} \cup request.targets
          \cup (IF request.evidence = "unknown" THEN {"unknown"} ELSE {}))]

diffSemanticContract(b, a, request) ==
    {record(c, request) : c \in Reported(Differences(b, a, request))}

aggregateDisposition(b, a, request) ==
    mostRestrictive({c.disposition : c \in diffSemanticContract(b, a, request)})

----------------------------------------------------------------------------
(* classify, over two valid documents, with the consumer policy its bundle *)
(* carries: "preserve", "surface", "reject" or Absent.                     *)
resolved_key(types, r) ==
    LET end == Last(Follow(types, {"alias"}, r))
    IN IF Declared(types, end) /\ types[end].kind # "alias" THEN end ELSE r

operand_move(b, a) ==
    IF b.keyword # a.keyword \/ a.keyword \notin Bounds THEN "conditional"
    ELSE IF (a.keyword \in Lower /\ a.value > b.value)
              \/ (a.keyword \notin Lower /\ b.value > a.value)
    THEN "conditional" ELSE "additive"

compare_constraints(b, a) ==
    {"additive" : i \in Gone(b, a)} \cup {"conditional" : i \in New(b, a)}
      \cup {operand_move(b[i], a[i]) : i \in {j \in Both(b, a) : b[j] # a[j]}}

compare_field(b, a, before, after) ==
    LET narrowed == b.multiplicity.lower < a.multiplicity.lower
                      \/ a.multiplicity.upper < b.multiplicity.upper
        widened == a.multiplicity.lower < b.multiplicity.lower
                      \/ b.multiplicity.upper < a.multiplicity.upper
    IN If(b.name # a.name, "breaking")
       \cup If(resolved_key(before, b.typeRef) # resolved_key(after, a.typeRef), "breaking")
       \cup If(b.nullable # a.nullable, "breaking")
       \cup If(b.unit # a.unit, "breaking")
       \cup If(b.multiplicity.ordered # a.multiplicity.ordered, "breaking")
       \cup If(narrowed, "breaking")
       \cup If(~narrowed /\ widened, "additive")
       \cup If(b.default # a.default, "conditional")

optional_addition(policy) ==
    IF policy \in {"preserve", "surface"} THEN "additive" ELSE "conditional"

compare_fields(b, a, before, after, policy) ==
    {"breaking" : i \in Gone(b, a)}
      \cup {IF a[i].multiplicity.lower >= 1 THEN "breaking" ELSE optional_addition(policy) :
                i \in New(b, a)}
      \cup UNION {compare_field(b[i], a[i], before, after) : i \in Both(b, a)}

compare_variants(b, a, before, after) ==
    {"breaking" : i \in Gone(b, a)} \cup {"conditional" : i \in New(b, a)}
      \cup {"breaking" : i \in {j \in Both(b, a) :
                resolved_key(before, b[j]) # resolved_key(after, a[j])}}

compare_positions(b, a, before, after) ==
    If(Len(b) # Len(a), "breaking")
      \cup {"breaking" : k \in {j \in DOMAIN b \cap DOMAIN a :
                \/ b[j].identity # a[j].identity
                \/ resolved_key(before, b[j].typeRef) # resolved_key(after, a[j].typeRef)}}

compare_relationships(b, a) ==
    {"breaking" : i \in Gone(b, a) \cup {j \in Both(b, a) : b[j] # a[j]}}
      \cup {"conditional" : i \in New(b, a)}

Openness(policy) ==
    CASE policy = "preserve" -> 0 [] policy = "surface" -> 1 [] policy = "reject" -> 2

compare_type(b, a, before, after, policy) ==
    If(b.kind # a.kind \/ b.scalar # a.scalar, "breaking")
      \cup If(/\ Absent \in {b.target, a.target}
              /\ b.target # a.target, "breaking")
      \cup If(/\ Absent \notin {b.target, a.target}
              /\ resolved_key(before, b.target) # resolved_key(after, a.target), "breaking")
      \cup If(Openness(a.unknown) > Openness(b.unknown), "breaking")
      \cup If(Openness(a.unknown) < Openness(b.unknown), "additive")
      \cup compare_constraints(b.constraints, a.constraints)
      \cup compare_fields(b.fields, a.fields, before, after, policy)
      \cup compare_variants(b.variants, a.variants, before, after)
      \cup compare_positions(b.positions, a.positions, before, after)
      \cup compare_relationships(b.nodes, a.nodes)

classify(b, a, policy) ==
    mostRestrictive({"breaking" : i \in Gone(b, a)}
      \cup UNION {compare_type(b[i], a[i], b, a, policy) : i \in Both(b, a)})

-----------------------------------------------------------------------------
(***************************************************************************)
(* The third classifier of a revision, the conformance oracle's: classify  *)
(* in conformance/oracle/oracle.mjs.  It names the changes some rule       *)
(* models and calls `unknown` a difference outside the modelled members,   *)
(* so what is modelled but not compared is passed over: the upper bound    *)
(* and order of a multiplicity, a field's name, a variant that is gone.    *)
(***************************************************************************)

\* resolve: along aliases to a native or to a definition of another kind.
OracleEnd(types, r) ==
    LET end == Last(Follow(types, {"alias"}, r))
    IN IF end \in {"Integer", "Text"} THEN [kind |-> "scalar", scalar |-> end]
       ELSE IF Declared(types, end) /\ types[end].kind # "alias"
       THEN [kind |-> types[end].kind, scalar |-> types[end].scalar]
       ELSE Absent
Equivalent(before, b, after, a) ==
    OracleEnd(before, b) # Absent /\ OracleEnd(before, b) = OracleEnd(after, a)

OracleRelationships(b, a) == {"breaking" : i \in Gone(b, a)} \cup {"conditional" : i \in New(b, a)}
OracleConstraints(b, a) ==
    {"additive" : i \in Gone(b, a)} \cup {"conditional" : i \in New(b, a)}
      \cup {"conditional" : i \in {j \in Both(b, a) : b[j].value # a[j].value}}
OracleVariants(b, a) == {"conditional" : i \in New(b, a)}
UnknownPolicy(b, a) ==
    IF b = a THEN {} ELSE IF a = "reject" THEN {"breaking"} ELSE {"conditional"}

\* residue: what no rule of a type or of a field reads.
TypeResidue(t) == <<t.abstract, t.supertypes, t.doc, t.positions>>
FieldResidue(f) == f.constraints

OracleType(b, a) ==
    If(b.kind # a.kind \/ b.scalar # a.scalar \/ b.target # a.target, "breaking")
      \cup OracleRelationships(b.nodes, a.nodes)
      \cup UnknownPolicy(b.unknown, a.unknown)
      \cup If(b.displayName # a.displayName, "patch")
      \cup OracleVariants(b.variants, a.variants)
      \cup OracleConstraints(b.constraints, a.constraints)
      \cup If(TypeResidue(b) # TypeResidue(a), "unknown")

\* Mutant: a lower bound of one is taken for optional.
OracleNewFieldFew(a, policy) ==
    IF a.multiplicity.lower > 1 THEN "breaking"
    ELSE IF policy \in {"preserve", "surface"} THEN "additive" ELSE "conditional"
OracleNewField(a, policy) ==
    IF a.multiplicity.lower >= 1 THEN "breaking"
    ELSE IF policy \in {"preserve", "surface"} THEN "additive" ELSE "conditional"
OracleField(b, a, before, after) ==
    If(b.typeRef # a.typeRef, IF Equivalent(before, b.typeRef, after, a.typeRef) THEN "patch" ELSE "breaking")
      \cup If(b.unit # a.unit \/ b.nullable # a.nullable, "breaking")
      \cup If(b.default # a.default, "conditional")
      \cup If(a.multiplicity.lower > b.multiplicity.lower, "breaking")
      \cup If(a.multiplicity.lower < b.multiplicity.lower, "additive")
      \cup If(FieldResidue(b) # FieldResidue(a), "unknown")

\* The fields of a contract are indexed by identity across its types.
OracleFields(before, after, policy) ==
    LET Fields(types) == [f \in {<<i, j>> \in (DOMAIN types) \X {"f", "g"} : types[i] # Absent} |-> types[f[1]].fields[f[2]]]
        b == Fields(before)
        a == Fields(after)
        was == {f \in DOMAIN b : b[f] # Absent}
        is == {f \in DOMAIN a : a[f] # Absent}
    IN {"breaking" : f \in was \ is} \cup {OracleNewField(a[f], policy) : f \in is \ was}
       \cup UNION {OracleField(b[f], a[f], before, after) : f \in was \cap is}

oracle_classify(b, a, policy) ==
    mostRestrictive({"breaking" : i \in Gone(b, a)} \cup {"additive" : i \in New(b, a)}
      \cup UNION {OracleType(b[i], a[i]) : i \in Both(b, a)}
      \cup OracleFields(b, a, policy))
=============================================================================
