---------------------------- MODULE MCLiftWriter ----------------------------
(***************************************************************************)
(* Instances of LiftWriter: two or three lifts over one output directory.  *)
(***************************************************************************)
EXTENDS LiftWriter

CONSTANTS a, b, c

\* A name is a tuple, so that the temporary file of a temporary file exists.
o == <<"o">>
d == <<"o.diagnostics">>
e == <<"elsewhere">>
fenced == <<"bundle/x">>

MCFenced == {fenced}

MCTempOf(p) == Append(p, "tmp")

Pair(out, side) == [document |-> out, diagnostics |-> side]

PlainPath == {o, d, e, fenced}

\* Both at one pair of paths, apart, sharing a sidecar, or refused at once.
MCRequests ==
    {r \in [Lift -> {Pair(o, d), Pair(e, d), Pair(o, o), Pair(e, fenced)}] :
        r[a] = Pair(o, d)}
=============================================================================
