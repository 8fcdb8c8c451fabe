---------------------------- MODULE OwnerRules ----------------------------
(***************************************************************************)
(* When a round of assign_owners refuses an artifact (constructs.rs of the *)
(* extraction frontend), of what is pending and refused when it starts.    *)
(*                                                                         *)
(* A bundle gives each artifact, known by its type identity,               *)
(*   targets, composite   what its relationships, and those of them that   *)
(*                        are composite, target                            *)
(*   refs                 the types its reference members name             *)
(*   modelled             the owner the engine's model gave it, if any     *)
(*   source               what the source element of an allocation names   *)
(*   operations, roles    its own                                          *)
(*   owned                "no": no construct, or one that forbids an       *)
(*                        owner; "optional": an owner without single-owner *)
(*                        is optional; else "required"                     *)
(*   unconstrained, admitted  the roles of an owner the construct admits   *)
(***************************************************************************)
EXTENDS Naturals, FiniteSets

-----------------------------------------------------------------------------
\* The types whose composite relationship targets i, of a role it admits.
Found(b, P, i) ==
    {o \in P : /\ i \in b[o].composite
               /\ b[i].unconstrained \/ b[o].roles \cap b[i].admitted # {}}

HasOneOwner(b, P, i) == \E o \in P : Found(b, P, i) = {o}

TakesOwner(b, i) == b[i].modelled = {} /\ b[i].owned # "no"

Operations(b, P) == UNION {b[i].operations : i \in P}

NamesNothing(b, P, i) ==
    \/ ~(b[i].refs \cup b[i].modelled \subseteq P)
    \/ ~(b[i].source \subseteq P \cup Operations(b, P))

\* Mutant: every construct that admits an owner needs one.
OwnerAlwaysNeeded(b, P, i) == TakesOwner(b, i) /\ ~HasOneOwner(b, P, i)

OwnerBroken(b, P, i) ==
    /\ TakesOwner(b, i)
    /\ ~HasOneOwner(b, P, i)
    /\ ~(b[i].owned = "optional" /\ Found(b, P, i) = {})

\* refusal_rule
Breaks(b, P, R, i) ==
    \/ b[i].targets \cap R # {}
    \/ NamesNothing(b, P, i)
    \/ OwnerBroken(b, P, i)

Broken(b, P, R) == {i \in P : Breaks(b, P, R, i)}
=============================================================================
