---------------------------- MODULE OwnerPass -----------------------------
(***************************************************************************)
(* The bundle-wide pass of the extraction frontend over the artifacts that *)
(* lowered (assign_owners of crates/extraction-frontend/src/constructs.rs):*)
(* it gives every owned construct its owner and refuses, round after       *)
(* round, what has none, or names what lowered to nothing.                 *)
(* What a bundle gives of an artifact, and when a round refuses one, is in *)
(* OwnerRules.                                                             *)
(***************************************************************************)
EXTENDS OwnerRules

CONSTANTS
    Artifacts,   \* the identities of the artifacts that lowered
    Lost,        \* of the artifacts that lowered to nothing
    Bundles      \* the bundles considered

\* The identities of types are minted once each.
ASSUME LostAssumption == Artifacts \cap Lost = {}
ASSUME BundlesAssumption ==
    \A b \in Bundles : \A i \in Artifacts : b[i].composite \subseteq b[i].targets

VARIABLES
    bundle,
    pending,     \* the artifacts not refused so far
    refused,
    owner,       \* of each artifact, the one it has been given, or none
    done

vars == <<bundle, pending, refused, owner, done>>

-----------------------------------------------------------------------------
Init ==
    /\ bundle \in Bundles
    /\ pending = Artifacts
    /\ refused = Lost
    /\ owner = [i \in Artifacts |-> bundle[i].modelled]
    /\ done = FALSE

\* Mutant: the rounds go on as long as an artifact is kept.
RoundAgain ==
    LET broken == Broken(bundle, pending, refused)
    IN /\ ~done
       /\ pending' = pending \ broken
       /\ refused' = refused \cup broken
       /\ done' = (pending' = {})
       /\ UNCHANGED <<bundle, owner>>

\* An artifact a round keeps is given the one owner the round found; one
\* with none keeps what an earlier round gave it.
Round ==
    LET broken == Broken(bundle, pending, refused)
    IN /\ ~done
       /\ pending' = pending \ broken
       /\ refused' = refused \cup broken
       /\ owner' = [i \in Artifacts |->
                      IF i \in pending \ broken /\ TakesOwner(bundle, i) /\ HasOneOwner(bundle, pending, i)
                      THEN Found(bundle, pending, i) ELSE owner[i]]
       /\ done' = (broken = {})
       /\ UNCHANGED bundle

Next == Round

\* The pass is a loop that nothing suspends.
Spec == Init /\ [][Next]_vars /\ WF_vars(Next)

-----------------------------------------------------------------------------
TypeOK ==
    /\ bundle \in Bundles
    /\ pending \subseteq Artifacts
    /\ refused \subseteq Artifacts \cup Lost
    /\ owner \in [Artifacts -> SUBSET ((UNION {bundle[i].modelled : i \in Artifacts}) \cup Artifacts)]
    /\ done \in BOOLEAN

\* Every artifact is pending or refused, none both, and none is invented: the
\* set the rounds test edges against is the complement of what they keep.
Partition ==
    /\ pending \cap refused = {}
    /\ pending \cup refused = Artifacts \cup Lost

\* When the pass ends, nothing it keeps names what it does not keep: no edge,
\* reference member, owner from the model or source element dangles, however
\* many rounds the refusals took to spread (the loop of assign_owners).  The
\* owner it has been given dangles in one case only: the construct may do
\* without, and the one type that contained it was refused in a later round
\* than the one that assigned it (refusal_rule, constructs.rs:1477, does not
\* take the assignment back).
NothingDangles ==
    done =>
      \A i \in pending :
        /\ bundle[i].targets \cap (Artifacts \cup Lost) \subseteq pending
        /\ bundle[i].refs \cup bundle[i].modelled \subseteq pending
        /\ bundle[i].source \subseteq pending \cup Operations(bundle, pending)
        /\ \/ owner[i] \subseteq pending
           \/ /\ TakesOwner(bundle, i) /\ bundle[i].owned = "optional"
              /\ Found(bundle, pending, i) = {}

\* Not so: no emitted owner names a refused artifact (FR-143:106, and the
\* comment at constructs.rs:1268).
OwnersAreKept == done => \A i \in pending : owner[i] \subseteq pending

\* When the pass ends, the owner of a kept construct is the one the model gave
\* it or, of one that takes its owner from the bundle, the only type of the
\* whole bundle that contains it in a role it admits; and where an owner is
\* required, that type is kept.  Which round assigned it makes no difference.
OwnersAreSole ==
    done =>
      \A i \in pending :
        /\ ~TakesOwner(bundle, i) => owner[i] = bundle[i].modelled
        /\ TakesOwner(bundle, i) =>
             /\ owner[i] = Found(bundle, Artifacts, i)
             /\ \A o, p \in owner[i] : o = p
             /\ bundle[i].owned = "required" => HasOneOwner(bundle, pending, i)

\* A set of artifacts that needs nothing outside itself: whatever the others
\* are, each has what it names in the set, and one owner in the whole bundle.
Supported(b, S) ==
    \A i \in S :
      /\ b[i].targets \cap (Lost \cup (Artifacts \ S)) = {}
      /\ b[i].refs \cup b[i].modelled \subseteq S
      /\ b[i].source \subseteq S \cup Operations(b, S)
      /\ TakesOwner(b, i) => \/ \E o \in S : Found(b, Artifacts, i) = {o}
                             \/ b[i].owned = "optional" /\ Found(b, Artifacts, i) = {}

\* No artifact of such a set is ever refused: the rounds refuse only what
\* leans, by some path, on an artifact that had to go.
RefusalsAreNeeded ==
    \A S \in SUBSET Artifacts : Supported(bundle, S) => S \subseteq pending

\* The rounds come to an end: each but the last refuses an artifact.
Ends == <>done

\* The owner pass divides the artifacts into kept and refused; what it keeps is
\* solely owned and names only what is kept, but for the owner of a construct
\* that may do without one; and what it refuses leans on something that had to
\* go (assign_owners).
PassIsSound ==
    /\ Partition
    /\ NothingDangles
    /\ OwnersAreSole
    /\ RefusalsAreNeeded

-----------------------------------------------------------------------------
(* Three artifacts, one of them in a role owners are admitted by, each with *)
(* some edges and one reference or owner to account for.                    *)

Plain ==
    [targets |-> {}, composite |-> {}, refs |-> {}, modelled |-> {}, source |-> {}, operations |-> {},
     roles |-> {}, owned |-> "no", unconstrained |-> TRUE, admitted |-> {}]

After(i) == (i % 3) + 1
Edges(i) ==
    {Plain}
    \cup {[Plain EXCEPT !.targets = {j}, !.composite = {j}] : j \in Artifacts \ {i}}
    \cup {[Plain EXCEPT !.targets = {j}] : j \in {After(i)} \cup Lost}

Operation(i) == 10 + i

OwnMembers(a, i) ==
    {a}
    \cup {[a EXCEPT !.refs = {j}] : j \in Artifacts \ {i}}
    \cup {[a EXCEPT !.modelled = {After(i)}], [a EXCEPT !.source = {Operation(After(i))}]}
    \cup {[a EXCEPT !.owned = o] : o \in {"optional", "required"}}
    \cup {[a EXCEPT !.owned = "required", !.unconstrained = FALSE, !.admitted = {"whole"}]}

Options(i) ==
    LET whole == IF i = 1 THEN {"whole"} ELSE {}
    IN {[a EXCEPT !.operations = {Operation(i)}, !.roles = whole] : a \in UNION {OwnMembers(e, i) : e \in Edges(i)}}

AllBundles ==
    {b \in [Artifacts -> UNION {Options(i) : i \in Artifacts}] : \A i \in Artifacts : b[i].operations = {Operation(i)}}
=============================================================================
