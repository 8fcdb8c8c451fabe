------------------------------ MODULE TypeRefs ------------------------------
(***************************************************************************)
(* What a type reference of a semantic IR document stands for, as two      *)
(* readers work it out: the Rust reader (crates/semantic-ir/src/rules.rs), *)
(* which keeps what every walk learned for the walks after it, and the     *)
(* compiler's reader (compiler/ir/reader.mjs), which walks afresh.         *)
(*                                                                         *)
(* A reference names a declared feature or type, a native scalar, the      *)
(* native clock or a unit.  Identities are declared at most once: both     *)
(* readers refuse a document that declares one twice.                      *)
(***************************************************************************)
EXTENDS Naturals, FiniteSets, Sequences, SequencesExt

CONSTANTS
    Identity,    \* what a document may declare
    NativeRef,   \* native scalars, in the tables of both readers
    Clock,       \* ix://quire/native/Clock
    Quantity,    \* a well-formed unit reference
    Contracts,   \* the documents read: a declaration for each identity
    Limits,      \* values of alias_depth, which NoLimit leaves unset
    NoLimit,
    Unasked,     \* not in a cache yet
    NoAnswer     \* resolves to nothing

Referable == Identity \cup NativeRef \cup {Clock, Quantity}

\* A field or parameter, an alias, a construct of the alias shape, or a type
\* that is none of these; "none" is an identity the document does not declare.
\* `policy` is whether the node carries a decimal policy.
NodeShape ==
    [is : {"field", "alias", "construct"}, to : Referable, policy : BOOLEAN]
      \cup [is : {"plain"}, policy : BOOLEAN]
      \cup [is : {"none"}]

\* What is kept of an alias's chain: whether it closes on itself, and if not
\* how many links it has and whether it ends at a declared type.
Chain == [cycle : BOOLEAN, steps : Nat, atType : BOOLEAN]

ASSUME IdentitiesAreFinite == IsFiniteSet(Identity)
ASSUME DocumentsDeclare == Contracts \subseteq [Identity -> NodeShape]
ASSUME ReferencesDiffer ==
    /\ Identity \cap (NativeRef \cup {Clock, Quantity}) = {}
    /\ NativeRef \cap {Clock, Quantity} = {}
    /\ Clock # Quantity
ASSUME LimitsAssumption == NoLimit \notin Nat /\ Limits \subseteq Nat \cup {NoLimit}
ASSUME AnswersDiffer ==
    /\ NoAnswer \notin Referable
    /\ Unasked \notin Referable \cup {NoAnswer} \cup Nat \cup Chain

VARIABLES
    document,
    alias_depth, \* RuleLimits.alias_depth
    resolved,    \* Document.resolved: what a reference resolved to
    special,     \* Document.special: the clock or quantity it reaches
    policies,    \* Document.decimal_policy_cache: policies on its walk
    chains       \* AliasMemo of per_type: where an alias's chain ends

referencesVars == <<document, alias_depth, resolved, special, policies, chains>>

Is(r, kinds) == r \in Identity /\ document[r].is \in kinds
Feature(r) == Is(r, {"field"})
AliasAt(r) == Is(r, {"alias", "construct"})
DeclaredType(r) == Is(r, {"alias", "construct", "plain"})
Terminal(r) == r \in NativeRef \/ Is(r, {"plain"})
Carries(r) == r \in Identity /\ ~Is(r, {"none"}) /\ document[r].policy

\* A walk goes on where its end is of the given kinds and leads to what it
\* has not passed.
Advance(kinds, s) ==
    IF Is(Last(s), kinds) /\ ~Contains(s, document[Last(s)].to)
    THEN Append(s, document[Last(s)].to)
    ELSE s

\* From r along the features and aliases of the given kinds, each once: no
\* walk is longer than there are identities to pass.
Walk(kinds, r) ==
    LET walk[n \in 0..Cardinality(Identity)] ==
          IF n = 0 THEN <<r>> ELSE Advance(kinds, walk[n - 1])
    IN walk[Cardinality(Identity)]

Hops == {"field", "alias", "construct"}

\* The first of the indices S of p, or one past its end.
FirstIn(S, p) ==
    IF S = {} THEN Len(p) + 1 ELSE CHOOSE i \in S : \A j \in S : i <= j

Keep(cache, rs, v) == [r \in DOMAIN cache |-> IF r \in rs THEN v ELSE cache[r]]

----------------------------------------------------------------------------
(* The compiler's reader.                                                  *)

\* resolveKind: with allowField a feature stands for its own typeRef,
\* without it a feature is no definition.
resolveKind(r, allowField) ==
    LET p == Walk(IF allowField THEN Hops ELSE Hops \ {"field"}, r)
    IN IF Terminal(Last(p)) THEN Last(p) ELSE NoAnswer

\* specialOf, with its memo left out: each caller gets what the walk finds.
specialOf(r) ==
    LET end == Last(Walk(Hops, r))
    IN IF end \in {Clock, Quantity} THEN end ELSE NoAnswer

\* walkDecimal: the policies met from r to its terminal scalar.
walkDecimal(r) ==
    LET p == Walk(Hops, r) IN Cardinality({i \in DOMAIN p : Carries(p[i])})

----------------------------------------------------------------------------
(* The Rust reader.  A call answers from its cache, or walks and keeps.    *)

\* Whether the step to the i-th reference of p was made by an alias.  Once
\* resolve_walk has passed an alias it follows no feature.
ByAlias(p, i) == i > 1 /\ AliasAt(p[i - 1])

\* What a link may lead on to: a target resolve_walk neither answers with at
\* once nor refuses at once.
Linked(r) == r \notin NativeRef \cup {Clock}

OverDepth(p, i) ==
    /\ alias_depth # NoLimit
    /\ Cardinality({j \in 2..i : ByAlias(p, j) /\ Linked(p[j])}) > alias_depth

\* resolve_walk stops at the first of: a kept alias target, a target that is
\* no type, a target past the configured depth.
Stop(p) ==
    FirstIn({i \in DOMAIN p :
               /\ ByAlias(p, i)
               /\ Linked(p[i])
               /\ \/ resolved[p[i]] # Unasked /\ alias_depth = NoLimit
                  \/ ~DeclaredType(p[i])
                  \/ OverDepth(p, i)}, p)

resolve_walk(r) ==
    LET p == Walk(Hops, r)
        i == Stop(p)
    IN IF i > Len(p)
         THEN IF Terminal(Last(p)) THEN Last(p) ELSE NoAnswer
       ELSE IF OverDepth(p, i) \/ resolved[p[i]] = Unasked THEN NoAnswer
       ELSE resolved[p[i]]

\* The references resolve_walk hands back as passed: its alias targets.
walked(r) ==
    LET p == Walk(Hops, r)
    IN {p[i] : i \in {j \in 2..Len(p) :
            /\ ByAlias(p, j)
            /\ Linked(p[j])
            /\ j <= Stop(p)
            /\ resolved[p[j]] = Unasked}}

resolve(r) == IF resolved[r] # Unasked THEN resolved[r] ELSE resolve_walk(r)

\* Mutant: targets passed under a depth limit are kept like the start.
KeepResolvedPassed(r) ==
    resolved' = IF resolved[r] # Unasked THEN resolved
                ELSE Keep(resolved, {r} \cup walked(r), resolve_walk(r))

\* A depth limit counts from the start, so under one only the start is kept.
KeepResolved(r) ==
    resolved' = IF resolved[r] # Unasked THEN resolved
                ELSE Keep(resolved,
                          {r} \cup (IF alias_depth = NoLimit THEN walked(r) ELSE {}),
                          resolve_walk(r))

\* special_of: the walk ends at a clock, a quantity or something kept.
KnownSpecial(p) ==
    FirstIn({i \in DOMAIN p : p[i] \in {Clock, Quantity} \/ special[p[i]] # Unasked}, p)

special_of(r) ==
    LET p == Walk(Hops, r)
        i == KnownSpecial(p)
    IN IF i > Len(p) THEN NoAnswer
       ELSE IF p[i] \in {Clock, Quantity} THEN p[i] ELSE special[p[i]]

KeepSpecial(r) ==
    LET p == Walk(Hops, r)
        passed == {p[i] : i \in 1..(KnownSpecial(p) - 1)} \cap Identity
    IN special' = Keep(special, passed, special_of(r))

\* decimal_policy_suffix: the policies from r on.  The walk goes through
\* features and core aliases; a construct alias ends it like any other type.
PolicyHops == {"field", "alias"}

KnownPolicies(p) == FirstIn({i \in DOMAIN p : policies[p[i]] # Unasked}, p)

PoliciesFrom(p, i) ==
    LET k == KnownPolicies(p)
        own == Cardinality({j \in i..(k - 1) : Carries(p[j])})
    IN IF k > Len(p) THEN own ELSE own + policies[p[k]]

KeepPolicies(r) ==
    LET p == Walk(PolicyHops, r)
        kept == {i \in 1..(KnownPolicies(p) - 1) : i = 1 \/ Is(p[i], PolicyHops)}
    IN policies' = [q \in Referable |->
            IF \E i \in kept : p[i] = q
            THEN PoliciesFrom(p, CHOOSE i \in kept : p[i] = q)
            ELSE policies[q]]

----------------------------------------------------------------------------
\* One reference as the traversal of type_positions asks about it: a special
\* reference is settled by itself, a member of a special type by its shape,
\* and check_decimal_position looks at what is left.
VisitPosition(r, member) ==
    /\ KeepSpecial(r)
    /\ \/ /\ (r \in {Clock, Quantity} \/ (member /\ special_of(r) # NoAnswer))
          /\ UNCHANGED <<resolved, policies>>
       \/ /\ r \notin {Clock, Quantity}
          /\ member => special_of(r) = NoAnswer
          /\ KeepResolved(r)
          /\ \/ (resolve(r) = NoAnswer /\ UNCHANGED policies)
             \/ (resolve(r) # NoAnswer /\ KeepPolicies(r))
    /\ UNCHANGED <<document, alias_depth, chains>>

\* walk_alias: the chain of links from one alias, each link walked once.
AliasHops == {"alias", "construct"}

\* The chain of the i-th alias of a walk along aliases.
ChainOf(p, i) ==
    IF AliasAt(Last(p)) THEN [cycle |-> TRUE, steps |-> 0, atType |-> FALSE]
    ELSE [cycle  |-> FALSE,
          steps  |-> Len(p) - i,
          atType |-> Is(Last(p), {"plain"})]

Extend(chain, n) ==
    IF chain.cycle THEN chain ELSE [chain EXCEPT !.steps = @ + n]

KnownChain(p) == FirstIn({j \in DOMAIN p : p[j] \in Identity /\ chains[p[j]] # Unasked}, p)

\* The chain of the i-th alias of p, with what is kept of a later one.
ChainFrom(p, i) ==
    LET k == KnownChain(p)
    IN IF k > Len(p) THEN ChainOf(p, i) ELSE Extend(chains[p[k]], k - i)

TooDeep(chain) ==
    /\ ~chain.cycle /\ chain.atType
    /\ alias_depth # NoLimit
    /\ chain.steps > alias_depth

Walked(chain) ==
    IF chain.cycle THEN "ALIAS_CYCLE"
    ELSE IF TooDeep(chain) THEN "DEPTH_LIMIT_EXCEEDED" ELSE "resolved"

CheckAlias(a) ==
    LET p == Walk(AliasHops, a)
        k == KnownChain(p)
    IN /\ AliasAt(a)
       /\ document[a].to \in NativeRef \/ DeclaredType(document[a].to)
       /\ chains' = [q \in Identity |->
              IF \E i \in 1..(k - 1) : p[i] = q /\ AliasAt(q)
              THEN ChainFrom(p, CHOOSE i \in 1..(k - 1) : p[i] = q)
              ELSE chains[q]]
       /\ UNCHANGED <<document, alias_depth, resolved, special, policies>>

\* Nothing is kept before the first question.
Unread ==
    /\ resolved = [r \in Referable |-> Unasked]
    /\ special = [r \in Referable |-> Unasked]
    /\ policies = [r \in Referable |-> Unasked]
    /\ chains = [i \in Identity |-> Unasked]

ReferencesInit == document \in Contracts /\ alias_depth \in Limits /\ Unread

ReferencesNext ==
    \/ \E r \in Referable, member \in BOOLEAN : VisitPosition(r, member)
    \/ \E a \in Identity : CheckAlias(a)

ReferencesSpec == ReferencesInit /\ [][ReferencesNext]_referencesVars

----------------------------------------------------------------------------
(* What the answers should be, by reachability instead of by walking.      *)
Onward(kinds, r) == IF Is(r, kinds) THEN {document[r].to} ELSE {}

Reach(kinds, r) ==
    LET f[n \in 0..Cardinality(Identity)] ==
          IF n = 0 THEN {r} ELSE f[n - 1] \cup UNION {Onward(kinds, q) : q \in f[n - 1]}
    IN f[Cardinality(Identity)]

OnCycle(kinds, r) == \E q \in Onward(kinds, r) : r \in Reach(kinds, q)

\* The end of the only way on from r, when there is one.
End(r) ==
    LET ends == {q \in Reach(Hops, r) : Terminal(q)}
    IN IF ends = {} THEN NoAnswer ELSE CHOOSE q \in ends : TRUE

\* The links an alias chain follows from r.
Links(r) == {q \in Reach(Hops, r) : Linked(q) /\ \E a \in Reach(Hops, r) :
                AliasAt(a) /\ document[a].to = q}

Expected(r) ==
    IF alias_depth # NoLimit /\ Cardinality(Links(r)) > alias_depth
    THEN NoAnswer ELSE End(r)

\* Every alias leads to a type or a native scalar, as the reader demands of a
\* document it admits (UNRESOLVED_TYPE_REF, rules.rs per_type).
Closed ==
    \A a \in Identity : AliasAt(a) => ~Is(document[a].to, {"field", "none"})

\* What the Rust reader keeps of a walk is what a walk of its own would find
\* for each reference it is kept for, whatever was asked before; and it is
\* what the compiler's reader finds where no limit is set.
KeptIsFresh ==
    Closed => \A r \in Referable :
        resolved[r] # Unasked =>
          /\ resolved[r] = Expected(r)
          /\ alias_depth = NoLimit => resolved[r] = resolveKind(r, TRUE)

\* Both readers see the same clock or quantity behind a reference, although
\* one of them keeps the answer for everything it passed.
SpecialsAgree ==
    \A r \in Referable : special[r] # Unasked => special[r] = specialOf(r)

\* An alias is refused for a cycle exactly when its links lead into one, and
\* for its depth exactly when it ends at a declared type over more links than
\* the limit.
AliasVerdicts ==
    \A a \in Identity : chains[a] # Unasked =>
      LET chain == {q \in Reach(AliasHops, a) : AliasAt(q)}
          cycle == \E q \in chain : OnCycle(AliasHops, q)
          typed == \E q \in Reach(AliasHops, a) : Is(q, {"plain"})
      IN /\ Walked(chains[a]) = "ALIAS_CYCLE" <=> cycle
         /\ Walked(chains[a]) = "DEPTH_LIMIT_EXCEEDED" <=>
              /\ ~cycle /\ typed
              /\ alias_depth # NoLimit /\ Cardinality(chain) > alias_depth

\* The policies counted for a reference that resolves are those of the nodes
\* crossed while resolving it, as the compiler's reader counts them too.
PoliciesCrossed ==
    \A r \in Referable : policies[r] # Unasked /\ resolveKind(r, TRUE) # NoAnswer =>
        /\ policies[r] = Cardinality({q \in Reach(Hops, r) : Carries(q)})
        /\ policies[r] = walkDecimal(r)

\* The same where no construct of the alias shape is on the way.
PoliciesCrossedByCore ==
    (\A i \in Identity : ~Is(i, {"construct"})) => PoliciesCrossed

\* What a reader keeps of a walk along references is what a walk of its own
\* would find, whatever was asked before and in whichever order.
AnswersAreFresh ==
    /\ KeptIsFresh
    /\ SpecialsAgree
    /\ AliasVerdicts
    /\ PoliciesCrossedByCore
=============================================================================
