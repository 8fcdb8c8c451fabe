------------------------------- MODULE MCBuild -------------------------------
(* Build with four diagnostics, so that what blocks may sort before or      *)
(* after what does not, reports cut to one line, to two or not, and a path  *)
(* that leaves the output root.                                             *)
EXTENDS Build

MCPossible ==
    {[at |-> 1, blocking |-> FALSE], [at |-> 2, blocking |-> TRUE],
     [at |-> 3, blocking |-> FALSE], [at |-> 4, blocking |-> TRUE]}
MCLimits == {1, 2, 4}
MCPaths == {"a", "b", "../c"}
MCOutside == {"../c"}
=============================================================================
