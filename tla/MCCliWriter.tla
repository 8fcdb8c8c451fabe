----------------------------- MODULE MCCliWriter -----------------------------
(***************************************************************************)
(* Instances of CliWriter: runs that follow one another at one set of      *)
(* paths, runs side by side at different ones, and two runs at once at one *)
(* path, for which the command does not keep its word.                     *)
(***************************************************************************)
EXTENDS CliWriter

CONSTANTS a, b, c

\* A name is a tuple, so that every path has a temporary name.
ir == <<"ir.json">>
diagnostics == <<"diagnostics.json">>
manifest == <<"out/manifest.json">>
one == <<"out/one.ts">>
two == <<"out/two.ts">>
prototype == <<"prototype.json">>

MCTempOf(p) == Append(p, "tmp")

CompileTo(o) == [verb |-> "compile", report |-> <<diagnostics>>, outs |-> o, root |-> {}]
\* As the Makefile calls it: the manifest lies under the output root.
GenerateTo(m, o) == [verb |-> "generate", report |-> <<m>>, outs |-> o,
                     root |-> {m, one, two}]
DiffTo(p) == [verb |-> "diff", report |-> <<>>, outs |-> <<p>>, root |-> {}]
EmitTo(p) == [verb |-> "emit-ir", report |-> <<>>, outs |-> <<p>>, root |-> {}]

Idle == [verb |-> "inspect", report |-> <<>>, outs |-> <<>>, root |-> {}]

MCPath == {ir, diagnostics, manifest, one, two, prototype}

\* The same command three times: a compile, a compile whose diagnostics go to the
\* path of its document, and a generation whose package shrinks the last time.
Again ==
    {[r \in Run |-> CompileTo(<<ir>>)],
     [r \in Run |-> CompileTo(<<diagnostics>>)],
     [r \in Run |-> GenerateTo(manifest, IF r = c THEN <<one>> ELSE <<one, two>>)]}

\* A generation and a run of each other verb, at paths of their own.
Apart ==
    {[r \in Run |-> IF r = a THEN GenerateTo(manifest, <<one, two>>)
                    ELSE IF r = b THEN q ELSE Idle] :
        q \in {CompileTo(<<ir>>), DiffTo(ir), EmitTo(prototype)}}

\* Two compiles of one package at once.
Same == {[r \in Run |-> IF r \in {a, b} THEN CompileTo(<<ir>>) ELSE Idle]}

MCRequests == Again \cup Apart \cup Same

\* A document and a generated file of an earlier run, and what a killed run left.
MCFound == {ir, MCTempOf(ir), MCTempOf(one)}
=============================================================================
