--------------------------- MODULE TypeScriptNames ---------------------------
(***************************************************************************)
(* How the TypeScript backend names what it generates and refuses a name   *)
(* two declarations would share (backends/typescript-v1/names.mjs,         *)
(* model.mjs, types.mjs, validators.mjs and package-layout.mjs).  A text   *)
(* is a sequence of words.  A definition is the record of its identity (a  *)
(* number, its place in code-unit order), its display name, its rendering, *)
(* the equality its construct declares and whether it is abstract.         *)
(***************************************************************************)
EXTENDS Naturals, Sequences, SequencesExt, FiniteSets, TLC

CONSTANTS
    Reserved,       \* RESERVED_NAMES, names of one word
    FixedSurface,   \* FIXED_API_SURFACE, as well
    Internals,      \* CROSS_MODULE_INTERNALS, as well
    Unspellable,    \* a word no identifier may carry
    EscapedAs,         \* the word it is escaped to
    Digit           \* a word that begins with a digit

\* The escapes, the underscore before a digit, and the fallback on the last
\* segment of the identity.
Minted(identity, displayName) ==
    LET spelled == [i \in DOMAIN displayName |->
                        IF displayName[i] = Unspellable THEN EscapedAs
                        ELSE displayName[i]]
    IN  CASE spelled = <<>> -> <<"Type", ToString(identity)>>
          [] spelled # <<>> /\ spelled[1] = Digit -> <<"_">> \o spelled
          [] OTHER -> spelled

identifierFor(identity, displayName) ==
    LET minted == Minted(identity, displayName)
    IN  IF \E word \in Reserved : minted = <<word>> THEN Append(minted, "_") ELSE minted

NameOf(definition) == identifierFor(definition.identity, definition.displayName)

NamesOf(definitions) == {NameOf(d) : d \in definitions}

Collision(identifier, owner) == [identifier |-> identifier, owner |-> owner]

FirstOwner(S) == CHOOSE d \in S : \A e \in S : d.identity <= e.identity

\* reserveNames: an identifier two identities mint is a collision, at the first
\* of them in identity order; nothing is renamed.
reserveNames(definitions) ==
    LET owners(name) == {d \in definitions : NameOf(d) = name}
    IN  {Collision(name, FirstOwner(owners(name)).identity) :
            name \in {n \in NamesOf(definitions) : Cardinality(owners(n)) > 1}}

hasEquality(definition) ==
    \/ definition.equality = "value"
    \/ definition.equality = "identity" /\ ~definition.abstract

\* The one derived name of a definition that buildModel compares with the
\* minted identifiers: of a state machine, its state type only.
derived(definition) ==
    CASE definition.rendering = "state_machine" ->
             {Append(NameOf(definition), "State")}
      [] definition.rendering # "state_machine" /\ hasEquality(definition) ->
             {Append(NameOf(definition), "Equals")}
      [] OTHER -> {}

\* buildModel's losses; renderPackage writes no file when there is one.
losses(definitions) ==
    reserveNames(definitions)
    \cup UNION {{Collision(name, d.identity) :
                    name \in derived(d) \cap NamesOf(definitions)}
                : d \in definitions}

----------------------------------------------------------------------------
(* What each module declares at its top level, in the type and in the      *)
(* value namespace: the names, each with the definition it belongs to.     *)

Instanceless(d) == d.rendering \in {"interface", "namespace"}

Declares(d, name) == [name |-> name, of |-> d.identity]

\* types.ts: a namespace declares no type; a reference declares its brand, its
\* predicate and its constructor; a state machine its state type.
typesModule(definitions) ==
    [types |->
        UNION {(IF d.rendering = "namespace" THEN {}
                ELSE {Declares(d, NameOf(d))})
               \cup (IF d.rendering = "state_machine"
                     THEN {Declares(d, Append(NameOf(d), "State"))} ELSE {})
               : d \in definitions},
     values |->
        UNION {IF d.rendering = "reference"
               THEN {Declares(d, Append(NameOf(d), suffix)) :
                        suffix \in {"Brand", "Is", "Of"}}
               ELSE {} : d \in definitions}]

\* validators.ts: a type with instances of its own is validated, and compared
\* when its construct declares an equality.
validatorsModule(definitions) ==
    UNION {IF Instanceless(d) \/ d.abstract THEN {}
           ELSE {Declares(d, <<"validate">> \o NameOf(d))}
                \cup (IF hasEquality(d)
                      THEN {Declares(d, Append(NameOf(d), "Equals"))} ELSE {})
           : d \in definitions}

\* permittedExports: the fixed surface, and every name a type's identifier may
\* give rise to whether or not the type does.
permittedExports(definitions) ==
    {<<word>> : word \in FixedSurface}
    \cup UNION {{name, <<"validate">> \o name, Append(name, "Of"),
                 Append(name, "State"), Append(name, "Equals")}
                : name \in NamesOf(definitions)}

\* What the modules of a package export besides: errors.ts and identity.ts the
\* fixed surface, and the names sibling modules import.
Fixed == {[name |-> <<word>>, of |-> 0] : word \in FixedSurface \cup Internals}

Constructors(definitions) ==
    {e \in typesModule(definitions).values : Last(e.name) = "Of"}

\* renderBarrel re-exports by name what each module exports, from that module,
\* so that the exports of all of them are joined in one list.
barrel(definitions) ==
    {[module |-> "types", kind |-> "type", export |-> e] : e \in typesModule(definitions).types}
    \cup {[module |-> "types", kind |-> "value", export |-> e] : e \in Constructors(definitions)}
    \cup {[module |-> "validators", kind |-> "value", export |-> e] : e \in validatorsModule(definitions)}
    \cup {[module |-> "fixed", kind |-> "value", export |-> e] : e \in Fixed}

\* It throws when a module exports what is neither permitted nor an internal.
Leaks(definitions) ==
    {e.export.name : e \in barrel(definitions)}
        \ (permittedExports(definitions) \cup {<<word>> : word \in Internals})
=============================================================================
