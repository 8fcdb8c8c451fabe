---------------------------- MODULE MCConformance ----------------------------
(***************************************************************************)
(* Two runs beside each other on a corpus of two cases: one whose verdict  *)
(* is a diagnostic, one of a compatibility change.  Three adapters: one    *)
(* that reads the staging directory and locates by pointers, one that does *)
(* neither, and a slot nothing fills.  A run on its own meets every array  *)
(* of up to two elements, and of three when the first two answer every     *)
(* case; beside another one, or where something else is wrong, it meets a  *)
(* few of them.                                                            *)
(***************************************************************************)
EXTENDS Conformance, TLC

CONSTANTS
    first, second,     \* the runs
    negative, change   \* the cases

MCRuns == {first, second}
MCCases == {negative, change}

Adapter(id, status, command, readsStaging, pointerCompatible) ==
    [id |-> id, status |-> status, command |-> command,
     readsStaging |-> readsStaging, pointerCompatible |-> pointerCompatible]

MCAdapters == <<
    Adapter("reader", "available", TRUE, TRUE, TRUE),
    Adapter("scheme", "available", TRUE, FALSE, FALSE),
    Adapter("slot", "unavailable", FALSE, FALSE, TRUE)>>

Diagnostic(code, at) == [code |-> code, at |-> at]

Verdicts(diagnostics, classification) ==
    [state |-> IF diagnostics = <<>> THEN "success" ELSE "invalid",
     diagnostics |-> diagnostics, classification |-> classification,
     normalized |-> "canonical"]

MCVerdict(c) ==
    IF c = change THEN Verdicts(<<>>, "breaking")
    ELSE Verdicts(<<Diagnostic("E", "here")>>, "none")

MCCompatibility == {change}

Supported(c, v) == [case |-> c, support |-> "supported", answer |-> v]

Agreeing(c) == Supported(c, MCVerdict(c))

\* The ways an answer for the negative case may differ.
NegativeAnswers ==
    {Supported(negative, v) : v \in {
        MCVerdict(negative),
        Verdicts(<<Diagnostic("E", "there")>>, "none"),
        Verdicts(<<Diagnostic("F", "here")>>, "none"),
        Verdicts(<<Diagnostic("E", "here"), Diagnostic("F", "here")>>, "none"),
        Verdicts(<<>>, "none")}}

ChangeAnswers ==
    {Agreeing(change), Supported(change, Verdicts(<<>>, "additive"))}

Odd ==
    {[case |-> Unknown, support |-> "malformed"], Supported(Unknown, MCVerdict(change)),
     Unavailable(negative), [case |-> negative, support |-> "unsupported"]}

Arrays ==
    LET results == NegativeAnswers \cup ChangeAnswers \cup Odd
    IN  {<<>>} \cup {<<x>> : x \in results} \cup (results \X results)
        \cup {<<x, Agreeing(change), y>> : x \in NegativeAnswers, y \in results}

Perfect == <<Agreeing(negative), Agreeing(change)>>

\* What the second adapter may print: places are not compared.
Schemed ==
    {Perfect,
     <<Agreeing(change), Supported(negative, Verdicts(<<Diagnostic("E", "there")>>, "none"))>>,
     <<Agreeing(change)>>}

\* Beside another run, a few arrays of the first adapter.
Few ==
    {Perfect, <<Agreeing(negative)>>,
     <<[case |-> negative, support |-> "unsupported"], Agreeing(change)>>}

MCPrints(w, r, adapter) ==
    IF adapter.id = "scheme" THEN Schemed
    ELSE IF w.runs = {first} THEN Arrays ELSE Few

Registered(codes) ==
    {[case |-> negative, adapter |-> "reader", code |-> code] : code \in codes}

World(runs, register, unsupportedBy, gateFailures, thresholds, unpatchable, mayFail,
      mayKill) ==
    [runs |-> runs, register |-> register, unsupportedBy |-> unsupportedBy,
     gateFailures |-> gateFailures, thresholds |-> thresholds,
     unpatchable |-> unpatchable,
     adapterMayFail |-> mayFail, mayKill |-> mayKill]

Ids == {"reader", "scheme", "slot"}

\* Registers of every size, a declared gap, and one thing wrong at a time.
MCWorlds ==
    {World({first}, Registered(codes), {}, {}, Ids, {}, FALSE, FALSE) :
        codes \in {{}, {"E"}, {"E", "F"}, {"E", "result-state"}}}
    \cup {World({first}, {}, {<<negative, "reader">>}, {}, Ids, {}, TRUE, FALSE),
          World(MCRuns, {}, {<<negative, "reader">>}, {}, Ids, {}, TRUE, FALSE),
          World({first}, {}, {}, {"provenance"}, Ids \ {"scheme"}, {}, FALSE, FALSE),
          World(MCRuns, {}, {}, {}, Ids, {}, FALSE, TRUE),
          World(MCRuns, {}, {}, {"patch"}, Ids, {negative}, FALSE, FALSE)}
=============================================================================
