------------------------------ MODULE Patterns ------------------------------
(***************************************************************************)
(* The ECMA-262 subset of the Rust backend: the recursive-descent parser   *)
(* and the lowering of patterns.mjs, the backtracking matcher every        *)
(* generated crate carries (support-template.rs), and the syntax check of  *)
(* the Rust reader (regex262.rs).  A pattern and a subject are sequences   *)
(* over Alphabet, whose order is that of the code units: "nl" stands for    *)
(* the line terminators and "ctl" for the control units escapes denote.    *)
(***************************************************************************)
EXTENDS Integers, Sequences, FiniteSets, SequencesExt

CONSTANTS
  StepBound,      \* the declared bound of the matcher, in instructions run
  MaxProgram      \* the longest program the lowering emits

ASSUME PatternsAssumption == {StepBound, MaxProgram} \subseteq Nat \ {0}

Alphabet == << "ctl", "nl", "$", "(", ")", "*", "+", ",", "-", ".", "0", "1", "2", ":",
               "=", "?", "[", "\\", "]", "^", "a", "b", "d", "{", "|", "}" >>
UnitOf(ch) == (CHOOSE i \in DOMAIN Alphabet : Alphabet[i] = ch) - 1
MaxUnit == Len(Alphabet) - 1
AllUnits == 0 .. MaxUnit

LineTerminators == { UnitOf("nl") }
DigitRanges == << << UnitOf("0"), UnitOf("2") >> >>
NoMost == -1                 \* Number.POSITIVE_INFINITY

----------------------------------------------------------------------------
(* Ranges of a character class.                                            *)

InRanges(unit, ranges) == \E i \in DOMAIN ranges : unit >= ranges[i][1] /\ unit <= ranges[i][2]

Greater(x, y) == IF x > y THEN x ELSE y
Before(r, s) == r[1] < s[1] \/ (r[1] = s[1] /\ r[2] <= s[2])

\* Mutant: a range that only touches its predecessor overwrites its end.
MergeLastWins(ranges) ==
  FoldLeft(LAMBDA merged, r :
             IF merged # << >> /\ r[1] <= Last(merged)[2] + 1
             THEN Append(Front(merged), << Last(merged)[1], r[2] >>)
             ELSE Append(merged, r),
           << >>, SortSeq(ranges, Before))

\* Sorted, and a range that overlaps or touches the one before it is merged.
NormalizeRanges(ranges) ==
  FoldLeft(LAMBDA merged, r :
             IF merged # << >> /\ r[1] <= Last(merged)[2] + 1
             THEN Append(Front(merged), << Last(merged)[1], Greater(Last(merged)[2], r[2]) >>)
             ELSE Append(merged, r),
           << >>, SortSeq(ranges, Before))

\* The gaps between the ranges, up to the largest code unit.
Complement(ranges) ==
  LET step(acc, r) == [ out |-> IF r[1] > acc.cursor
                                THEN Append(acc.out, << acc.cursor, r[1] - 1 >>) ELSE acc.out,
                        cursor |-> r[2] + 1 ]
      all == FoldLeft(step, [ out |-> << >>, cursor |-> 0 ], NormalizeRanges(ranges))
  IN IF all.cursor <= MaxUnit THEN Append(all.out, << all.cursor, MaxUnit >>) ELSE all.out

----------------------------------------------------------------------------
(* The parser.  A rule reads `text` from position `i` and answers a node   *)
(* and the position after it, or refuses the construct it met.             *)

NotCompiled == [ ok |-> FALSE ]
Parsed(node, i) == [ ok |-> TRUE, node |-> node, at |-> i ]
\* What is thrown passes every caller by.
IfCompiled(result, Go(_)) == IF result.ok THEN Go(result) ELSE NotCompiled

CharAt(text, i) == IF i <= Len(text) THEN text[i] ELSE "end"
DecimalDigits == { "0", "1", "2" }

Char(ch) == [ type |-> "char", unit |-> UnitOf(ch) ]
Class(negated, ranges) == [ type |-> "class", negated |-> negated, ranges |-> ranges ]

RECURSIVE MatchesEmpty(_)
MatchesEmpty(node) ==
  CASE node.type \in { "char", "dot", "class" } -> FALSE
    [] node.type \in { "bol", "eol" } -> TRUE
    [] node.type = "seq" -> \A i \in DOMAIN node.terms : MatchesEmpty(node.terms[i])
    [] node.type = "alt" -> \E i \in DOMAIN node.alternatives : MatchesEmpty(node.alternatives[i])
    [] node.type = "repeat" -> node.min = 0 \/ MatchesEmpty(node.atom)

\* The number written from position i, and the position after it.
RECURSIVE Number(_, _, _)
Number(text, i, value) ==
  IF CharAt(text, i) \notin DecimalDigits THEN [ at |-> i, value |-> value ]
  ELSE Number(text, i + 1, 10 * value + UnitOf(text[i]) - UnitOf("0"))

\* `{m}`, `{m,}` and `{m,n}`; any other `{` is a literal, and nothing is read.
BraceQuantifier(text, i) ==
  LET first == Number(text, i + 1, 0)
      second == Number(text, first.at + 1, 0)
      literal == [ is |-> "literal" ]
      bounds(min, max, at) == [ is |-> "bounds", min |-> min, max |-> max, at |-> at ]
  IN CASE first.at = i + 1 -> literal
       [] first.at # i + 1 /\ CharAt(text, first.at) = "}" ->
            bounds(first.value, first.value, first.at + 1)
       [] first.at # i + 1 /\ CharAt(text, first.at) = "," /\ CharAt(text, first.at + 1) = "}" ->
            bounds(first.value, NoMost, first.at + 2)
       [] first.at # i + 1 /\ CharAt(text, first.at) = "," /\ CharAt(text, first.at + 1) # "}" ->
            IF second.at = first.at + 1 \/ CharAt(text, second.at) # "}" THEN literal
            ELSE IF second.value < first.value THEN [ is |-> "inverted" ]
            ELSE bounds(first.value, second.value, second.at + 1)
       [] OTHER -> literal

QuantifierAt(text, i) ==
  LET bounds(min, max) == [ is |-> "bounds", min |-> min, max |-> max, at |-> i + 1 ]
  IN CASE CharAt(text, i) = "*" -> bounds(0, NoMost)
       [] CharAt(text, i) = "+" -> bounds(1, NoMost)
       [] CharAt(text, i) = "?" -> bounds(0, 1)
       [] CharAt(text, i) = "{" -> BraceQuantifier(text, i)
       [] OTHER -> [ is |-> "literal" ]

RepeatOf(text, atom, i, q) ==
  CASE q.is = "literal" -> Parsed(atom, i)
    [] q.is = "inverted" -> NotCompiled
    [] q.is = "bounds" ->
         IF atom.type \in { "bol", "eol" } \/ (q.max = NoMost /\ MatchesEmpty(atom))
         THEN NotCompiled
         ELSE LET lazy == CharAt(text, q.at) = "?"
              IN Parsed([ type |-> "repeat", atom |-> atom, min |-> q.min, max |-> q.max,
                          lazy |-> lazy ], IF lazy THEN q.at + 1 ELSE q.at)
Quantified(text, atom, i) == RepeatOf(text, atom, i, QuantifierAt(text, i))

\* `\0` is a control unit, unless a digit makes it an octal escape; a character
\* that means nothing stands for itself.
CharacterEscape(text, i) ==
  IF CharAt(text, i) # "0" THEN Parsed(Char(text[i]), i + 1)
  ELSE IF CharAt(text, i + 1) \in DecimalDigits THEN NotCompiled ELSE Parsed(Char("ctl"), i + 1)

\* `\d` is a class, `\1` a backreference, `\b` a word boundary.
AtomEscape(text, i) ==
  CASE CharAt(text, i + 1) \in { "end", "b", "1", "2" } -> NotCompiled
    [] CharAt(text, i + 1) = "d" -> Parsed(Class(FALSE, DigitRanges), i + 2)
    [] OTHER -> CharacterEscape(text, i + 1)

\* A member of a class: a unit (`\b` is the backspace here), or the ranges of a
\* class escape.
ClassAtom(text, i) ==
  LET unit(u, at) == [ ok |-> TRUE, is |-> "unit", unit |-> u, at |-> at ]
  IN CASE CharAt(text, i) # "\\" -> unit(UnitOf(text[i]), i + 1)
       [] CharAt(text, i) = "\\" /\ CharAt(text, i + 1) = "end" -> NotCompiled
       [] CharAt(text, i) = "\\" /\ CharAt(text, i + 1) = "b" -> unit(UnitOf("ctl"), i + 2)
       [] CharAt(text, i) = "\\" /\ CharAt(text, i + 1) = "d" ->
            [ ok |-> TRUE, is |-> "ranges", ranges |-> DigitRanges, at |-> i + 2 ]
       [] OTHER -> IfCompiled(CharacterEscape(text, i + 1), LAMBDA escaped : unit(escaped.node.unit, escaped.at))

RECURSIVE ClassMembers(_, _, _)
\* The range from a unit to the member after a dash.
ClassRange(text, ranges, first, second) ==
  IF second.is = "ranges" THEN NotCompiled
  ELSE IF second.unit < first.unit THEN NotCompiled
  ELSE ClassMembers(text, second.at, Append(ranges, << first.unit, second.unit >>))
ClassMember(text, ranges, first) ==
  LET dash == CharAt(text, first.at) = "-" /\ CharAt(text, first.at + 1) \notin { "end", "]" }
  IN IF first.is = "ranges" THEN ClassMembers(text, first.at, ranges \o first.ranges)
     ELSE IF ~dash THEN ClassMembers(text, first.at, Append(ranges, << first.unit, first.unit >>))
     ELSE IfCompiled(ClassAtom(text, first.at + 1), LAMBDA second : ClassRange(text, ranges, first, second))
ClassMembers(text, i, ranges) ==
  CASE CharAt(text, i) = "end" -> NotCompiled
    [] CharAt(text, i) = "]" -> [ ok |-> TRUE, ranges |-> ranges, at |-> i + 1 ]
    [] OTHER -> IfCompiled(ClassAtom(text, i), LAMBDA first : ClassMember(text, ranges, first))

CharacterClass(text, i) ==
  LET negated == CharAt(text, i + 1) = "^"
  IN IfCompiled(ClassMembers(text, IF negated THEN i + 2 ELSE i + 1, << >>),
       LAMBDA members : Parsed(Class(negated, NormalizeRanges(members.ranges)), members.at))

RECURSIVE Disjunction(_, _), Alternative(_, _, _)

\* A capturing or a `(?:` group is its disjunction; every other group is refused.
Group(text, i) ==
  LET plain == CharAt(text, i + 1) # "?"
  IN IF ~plain /\ CharAt(text, i + 2) # ":" THEN NotCompiled
     ELSE IfCompiled(Disjunction(text, IF plain THEN i + 1 ELSE i + 3),
            LAMBDA inner : IF CharAt(text, inner.at) # ")" THEN NotCompiled ELSE Parsed(inner.node, inner.at + 1))

Atom(text, i) ==
  CASE CharAt(text, i) = "." -> Parsed([ type |-> "dot" ], i + 1)
    [] CharAt(text, i) = "(" -> Group(text, i)
    [] CharAt(text, i) = "[" -> CharacterClass(text, i)
    [] CharAt(text, i) = "\\" -> AtomEscape(text, i)
    [] CharAt(text, i) \in { "*", "+", "?" } -> NotCompiled
    [] OTHER -> Parsed(Char(text[i]), i + 1)

Term(text, i) ==
  CASE CharAt(text, i) = "^" -> Parsed([ type |-> "bol" ], i + 1)
    [] CharAt(text, i) = "$" -> Parsed([ type |-> "eol" ], i + 1)
    [] OTHER -> IfCompiled(Atom(text, i), LAMBDA atom : Quantified(text, atom.node, atom.at))

Alternative(text, i, terms) ==
  IF CharAt(text, i) \in { "end", "|", ")" } THEN Parsed([ type |-> "seq", terms |-> terms ], i)
  ELSE IfCompiled(Term(text, i), LAMBDA term : Alternative(text, term.at, Append(terms, term.node)))

\* The alternatives after the first, in one node with it.
Alternatives(first, rest) ==
  Parsed([ type |-> "alt",
           alternatives |-> << first.node >>
             \o (IF rest.node.type = "alt" THEN rest.node.alternatives ELSE << rest.node >>) ], rest.at)
Disjunction(text, i) ==
  IfCompiled(Alternative(text, i, << >>),
    LAMBDA first : IF CharAt(text, first.at) # "|" THEN first
                   ELSE IfCompiled(Disjunction(text, first.at + 1), LAMBDA rest : Alternatives(first, rest)))

ParsePattern(text) ==
  IfCompiled(Disjunction(text, 1), LAMBDA all : IF all.at # Len(text) + 1 THEN NotCompiled ELSE all)

----------------------------------------------------------------------------
(* The lowering.  Targets count from 0, as in the program.                 *)

Shift(fragment, delta) ==
  [ k \in DOMAIN fragment |->
      CASE fragment[k].op = "jump" -> [ fragment[k] EXCEPT !.x = @ + delta ]
        [] fragment[k].op = "split" -> [ fragment[k] EXCEPT !.x = @ + delta, !.y = @ + delta ]
        [] OTHER -> fragment[k] ]

Split(x, y) == [ op |-> "split", x |-> x, y |-> y ]
Jump(x) == [ op |-> "jump", x |-> x ]
Then(out, body) == out \o Shift(body, Len(out))

Star(body, lazy) ==
  LET after == Len(body) + 2
  IN << IF lazy THEN Split(after, 1) ELSE Split(1, after) >> \o Shift(body, 1) \o << Jump(0) >>

Plus(body, lazy) ==
  Append(body, IF lazy THEN Split(Len(body) + 1, 0) ELSE Split(0, Len(body) + 1))

Opt(body, lazy) ==
  << IF lazy THEN Split(1 + Len(body), 1) ELSE Split(1, 1 + Len(body)) >> \o Shift(body, 1)

RECURSIVE Copies(_, _)
Copies(body, n) == IF n = 0 THEN << >> ELSE Then(Copies(body, n - 1), body)

\* `X{0,n}` is `(?:X(?:X)?)?`: the optional copies are nested.
RECURSIVE Optionals(_, _, _)
Optionals(body, n, lazy) ==
  IF n = 0 THEN << >> ELSE Opt(Then(body, Optionals(body, n - 1, lazy)), lazy)

CompileRepeat(body, min, max, lazy) ==
  IF max = NoMost
  THEN IF min = 0 THEN Star(body, lazy) ELSE Then(Copies(body, min - 1), Plus(body, lazy))
  ELSE Then(Copies(body, min), Optionals(body, max - min, lazy))

CompileAlt(left, right) ==
  << Split(1, Len(left) + 2) >> \o Shift(left, 1)
    \o << Jump(2 + Len(left) + Len(right)) >> \o Shift(right, Len(left) + 2)

RECURSIVE Compile(_)
Compile(node) ==
  CASE node.type = "char" -> << [ op |-> "char", unit |-> node.unit ] >>
    [] node.type = "dot" -> << [ op |-> "any" ] >>
    [] node.type = "class" -> << [ op |-> "class", negated |-> node.negated, ranges |-> node.ranges ] >>
    [] node.type \in { "bol", "eol" } -> << [ op |-> node.type ] >>
    [] node.type = "seq" -> FoldLeft(LAMBDA out, term : Then(out, Compile(term)), << >>, node.terms)
    [] node.type = "alt" ->
         LET rest == Tail(node.alternatives)
         IN CompileAlt(Compile(Head(node.alternatives)),
                       IF Len(rest) = 1 THEN Compile(rest[1])
                       ELSE Compile([ type |-> "alt", alternatives |-> rest ]))
    [] node.type = "repeat" -> CompileRepeat(Compile(node.atom), node.min, node.max, node.lazy)

\* A fragment longer than the bound is refused, one repeated no times included.
RECURSIVE Overlong(_)
Overlong(node) ==
  \/ node.type = "seq" /\ \E i \in DOMAIN node.terms : Overlong(node.terms[i])
  \/ node.type = "alt" /\ \E i \in DOMAIN node.alternatives : Overlong(node.alternatives[i])
  \/ node.type = "repeat" /\ Overlong(node.atom)
  \/ node.type \in { "seq", "alt", "repeat" } /\ Len(Compile(node)) > MaxProgram

LowerPattern(text) ==
  IfCompiled(ParsePattern(text),
    LAMBDA parsed : IF Overlong(parsed.node) THEN NotCompiled
                    ELSE [ ok |-> TRUE, instructions |-> Append(Compile(parsed.node), [ op |-> "match" ]) ])

----------------------------------------------------------------------------
(* The matcher.  A frame is an instruction and a position of the subject   *)
(* (from 0); the frames left to try are a stack.                           *)

MatchFrame(pc, at) == [ pc |-> pc, at |-> at ]

Consumes(inst, unit) ==
  CASE inst.op = "char" -> unit = inst.unit
    [] inst.op = "any" -> unit \notin LineTerminators
    [] inst.op = "class" -> InRanges(unit, inst.ranges) # inst.negated

Pushed(inst, f, subject) ==
  CASE inst.op \in { "char", "any", "class" } ->
         IF f.at < Len(subject) /\ Consumes(inst, subject[f.at + 1])
         THEN << MatchFrame(f.pc + 1, f.at + 1) >> ELSE << >>
    [] inst.op = "bol" -> IF f.at = 0 THEN << MatchFrame(f.pc + 1, f.at) >> ELSE << >>
    [] inst.op = "eol" -> IF f.at = Len(subject) THEN << MatchFrame(f.pc + 1, f.at) >> ELSE << >>
    [] inst.op = "split" -> << MatchFrame(inst.y, f.at), MatchFrame(inst.x, f.at) >>
    [] inst.op = "jump" -> << MatchFrame(inst.x, f.at) >>

\* The steps are counted over every start position together.
RECURSIVE Drive(_, _, _, _, _)
Drive(program, subject, start, stack, steps) ==
  IF stack = << >>
  THEN IF start = Len(subject) THEN "rejected"
       ELSE Drive(program, subject, start + 1, << MatchFrame(0, start + 1) >>, steps)
  ELSE LET f == Last(stack)
           inst == program[f.pc + 1]
       IN IF steps + 1 > StepBound THEN "bounded"
          ELSE IF inst.op = "match" THEN "matched"
          ELSE Drive(program, subject, start, Front(stack) \o Pushed(inst, f, subject), steps + 1)

RunMatcher(program, subject) == Drive(program, subject, 0, << MatchFrame(0, 0) >>, 0)

----------------------------------------------------------------------------
(* regex262::compiles, the Rust reader's check that a pattern compiles: a  *)
(* rule answers the position after what it read, or 0.                     *)

RustQuantifier(text, i) ==
  LET digits == Number(text, i + 1, 0).at
      close == IF CharAt(text, digits) = "," THEN Number(text, digits + 1, 0).at ELSE digits
      after == IF CharAt(text, i) \in { "*", "+", "?" } THEN i + 1
               ELSE IF CharAt(text, i) = "{" /\ digits > i + 1 /\ CharAt(text, close) = "}"
               THEN close + 1 ELSE i
  IN IF after > i /\ CharAt(text, after) = "?" THEN after + 1 ELSE after

RECURSIVE RustClassEnd(_, _)
RustClassEnd(text, i) ==
  CASE CharAt(text, i) = "end" -> 0
    [] CharAt(text, i) = "]" -> i + 1
    [] CharAt(text, i) = "\\" -> IF CharAt(text, i + 1) = "end" THEN 0 ELSE RustClassEnd(text, i + 2)
    [] OTHER -> RustClassEnd(text, i + 1)

RECURSIVE RustDisjunction(_, _)

\* `(?:`, `(?=` and `(?!` are read, and what follows is a disjunction and `)`.
RustGroup(text, i) ==
  LET plain == CharAt(text, i + 1) # "?"
      inner == RustDisjunction(text, IF plain THEN i + 1 ELSE i + 3)
  IN IF ~plain /\ CharAt(text, i + 2) \notin { ":", "=" } THEN 0
     ELSE IF inner = 0 THEN 0
     ELSE IF CharAt(text, inner) # ")" THEN 0
     ELSE inner + 1

RustAtom(text, i) ==
  CASE CharAt(text, i) = "(" -> RustGroup(text, i)
    [] CharAt(text, i) = "[" -> RustClassEnd(text, IF CharAt(text, i + 1) = "^" THEN i + 2 ELSE i + 1)
    [] CharAt(text, i) = "\\" -> IF CharAt(text, i + 1) = "end" THEN 0 ELSE i + 2
    [] CharAt(text, i) \in { ")", "*", "+", "?", "end" } -> 0
    [] OTHER -> i + 1

RustTerm(text, i) ==
  IF CharAt(text, i) \in { "^", "$" }
  THEN IF CharAt(text, i + 1) \in { "*", "+", "?" } THEN 0 ELSE i + 1
  ELSE LET after == RustAtom(text, i) IN IF after = 0 THEN 0 ELSE RustQuantifier(text, after)

RustDisjunction(text, i) ==
  CASE CharAt(text, i) \in { "end", ")" } -> i
    [] CharAt(text, i) = "|" -> RustDisjunction(text, i + 1)
    [] OTHER -> LET after == RustTerm(text, i)
                IN IF after = 0 THEN 0 ELSE RustDisjunction(text, after)

RustCompiles(text) == RustDisjunction(text, 1) = Len(text) + 1
=============================================================================
