----------------------------- MODULE Scalars ------------------------------
(***************************************************************************)
(* The scalars that travel as text, as each implementation reads them: the *)
(* generated Rust crate (support-template.rs), the runtime of the          *)
(* generated TypeScript package (errors.ts, written by validators.mjs) and *)
(* the two IR readers (reader.mjs, rules.rs).  A text is a sequence of     *)
(* symbols.                                                                *)
(***************************************************************************)
EXTENDS Integers, Sequences, SequencesExt

CONSTANT MaxInteger     \* the largest value of the widest integer, 2^127 - 1

ASSUME ScalarsAssumption == MaxInteger \in Nat

DigitOf == [ d \in { "0", "1", "9" } |-> CASE d = "0" -> 0 [] d = "1" -> 1 [] d = "9" -> 9 ]
IsDigit(ch) == ch \in DOMAIN DigitOf
AllDigits(t) == \A i \in DOMAIN t : IsDigit(t[i])
ValueOf(t) == FoldLeft(LAMBDA v, d : 10 * v + DigitOf[d], 0, t)
NoText == << "none" >>            \* no text of a scalar is this one

----------------------------------------------------------------------------
(* Decimals.  A text is an optional sign, a whole part and a fraction.     *)

IsNegative(t) == t # << >> /\ t[1] = "-"
Unsigned(t) == IF IsNegative(t) THEN Tail(t) ELSE t
Dots(t) == { i \in DOMAIN t : t[i] = "." }
FirstDot(t) == IF Dots(t) = { } THEN Len(t) + 1 ELSE CHOOSE i \in Dots(t) : \A j \in Dots(t) : i <= j
WholeDigits(t) == SubSeq(Unsigned(t), 1, FirstDot(Unsigned(t)) - 1)
FractionDigits(t) == SubSeq(Unsigned(t), FirstDot(Unsigned(t)) + 1, Len(Unsigned(t)))
ZeroDigits(n) == [ i \in 1 .. n |-> "0" ]
AllZero(t) == \A i \in DOMAIN t : t[i] = "0"

PlainWhole(t) == /\ WholeDigits(t) # << >> /\ AllDigits(WholeDigits(t))
                 /\ Len(WholeDigits(t)) > 1 => WholeDigits(t)[1] # "0"
IntegerDigits(t) == IF WholeDigits(t) = << "0" >> THEN 0 ELSE Len(WholeDigits(t))
Room(precision, scale) == IF precision > scale THEN precision - scale ELSE 0

\* decimal_normalize: the instance at its declared scale, or none.
DecimalNormalize(t, precision, scale) ==
  IF /\ PlainWhole(t) /\ AllDigits(FractionDigits(t))
     /\ Dots(t) # { } => FractionDigits(t) # << >>
     /\ Len(FractionDigits(t)) <= scale
     /\ ~(IsNegative(t) /\ WholeDigits(t) = << "0" >> /\ AllZero(FractionDigits(t)))
     /\ IntegerDigits(t) <= Room(precision, scale)
  THEN (IF IsNegative(t) THEN << "-" >> ELSE << >>) \o WholeDigits(t)
         \o (IF scale = 0 THEN << >> ELSE << "." >> \o FractionDigits(t) \o ZeroDigits(scale - Len(FractionDigits(t))))
  ELSE NoText

\* The coefficient of a text at a scale that is at least its own.
AtScale(t, scale) ==
  (IF IsNegative(t) THEN -1 ELSE 1) * ValueOf(WholeDigits(t) \o FractionDigits(t) \o ZeroDigits(scale - Len(FractionDigits(t))))

Larger(x, y) == IF x > y THEN x ELSE y
Order(x, y) == IF x < y THEN "less" ELSE IF x > y THEN "greater" ELSE "equal"
Within(x) == x <= MaxInteger /\ -x <= MaxInteger

\* Mutant: the coefficients are compared at the scales they were written with.
DecimalCmpUnscaled(left, right) ==
  LET readable(t) == PlainWhole(t) /\ AllDigits(FractionDigits(t)) /\ t # << "-", "0" >>
  IN IF ~readable(left) \/ ~readable(right) THEN "none"
     ELSE Order(AtScale(left, Len(FractionDigits(left))), AtScale(right, Len(FractionDigits(right))))

\* decimal_cmp: the two coefficients at the larger scale; none where one of
\* them, or the power of ten it is scaled by, does not fit.
DecimalCmp(left, right) ==
  LET scale == Larger(Len(FractionDigits(left)), Len(FractionDigits(right)))
      readable(t) == /\ PlainWhole(t) /\ AllDigits(FractionDigits(t)) /\ t # << "-", "0" >>
                     /\ Within(AtScale(t, scale))
                     /\ ValueOf(<< "1" >> \o ZeroDigits(scale - Len(FractionDigits(t)))) <= MaxInteger
  IN IF ~readable(left) \/ ~readable(right) THEN "none"
     ELSE Order(AtScale(left, scale), AtScale(right, scale))

\* isCanonicalDecimal, decimalWithinPolicy and compareDecimal of errors.ts.
IsCanonicalDecimal(t) ==
  /\ PlainWhole(t) /\ AllDigits(FractionDigits(t)) /\ (Dots(t) # { } => FractionDigits(t) # << >>)
  /\ ~(IsNegative(t) /\ WholeDigits(t) = << "0" >> /\ AllZero(FractionDigits(t)))
DecimalWithinPolicy(t, precision, scale) ==
  IsCanonicalDecimal(t) /\ IntegerDigits(t) <= precision - scale /\ Len(FractionDigits(t)) <= scale
CompareDecimal(left, right) ==
  LET scale == Larger(Len(FractionDigits(left)), Len(FractionDigits(right)))
  IN Order(AtScale(left, scale), AtScale(right, scale))

\* The readers of the IR: decimalAdmitted of reader.mjs, and
\* is_canonical_decimal with decimal_within_policy of rules.rs.
DecimalAdmitted(t, precision, scale) ==
  /\ PlainWhole(t) /\ AllDigits(FractionDigits(t)) /\ (Dots(t) # { } => FractionDigits(t) # << >>)
  /\ FractionDigits(t) # << >> => Last(FractionDigits(t)) # "0"
  /\ ~(IsNegative(t) /\ Unsigned(t) = << "0" >>)
  /\ IntegerDigits(t) <= precision - scale /\ Len(FractionDigits(t)) <= scale
RustDecimalAdmitted(t, precision, scale) ==
  /\ ~(IsNegative(t) /\ Unsigned(t) = << "0" >>)
  /\ PlainWhole(t)
  /\ FractionDigits(t) # << >> => AllDigits(FractionDigits(t)) /\ Last(FractionDigits(t)) # "0"
  /\ IntegerDigits(t) <= Room(precision, scale) /\ Len(FractionDigits(t)) <= scale

----------------------------------------------------------------------------
(* Integers on the string wire.                                            *)

\* is_canonical_integer, and the pattern the generated package tests.
IsCanonicalInteger(t) ==
  LET digits == Unsigned(t)
  IN digits # << >> /\ AllDigits(digits) /\ IF digits[1] = "0" THEN digits = << "0" >> /\ ~IsNegative(t) ELSE TRUE

\* parse_canonical_integer: what the language parses (a sign, any zeros), kept
\* when the value writes itself the same way.
ParsesAs(t) == LET body == IF t # << >> /\ t[1] \in { "+", "-" } THEN Tail(t) ELSE t
               IN body # << >> /\ AllDigits(body)
SignedValue(t) == LET body == IF t[1] \in { "+", "-" } THEN Tail(t) ELSE t
                  IN IF t[1] = "-" THEN -ValueOf(body) ELSE ValueOf(body)
RECURSIVE Said(_)
Said(n) ==
  LET digit(d) == CHOOSE s \in DOMAIN DigitOf : DigitOf[s] = d
  IN IF n < 0 THEN << "-" >> \o Said(-n)
     ELSE IF n < 10 THEN << digit(n) >> ELSE Append(Said(n \div 10), digit(n % 10))
ParseCanonicalInteger(t, lower, upper) ==
  ParsesAs(t) /\ SignedValue(t) \in lower .. upper /\ Said(SignedValue(t)) = t

----------------------------------------------------------------------------
(* Bytes on the base64 wire: a text is a sequence of 6-bit digits, of "="  *)
(* (Pad) and of symbols outside the alphabet (Foreign).                    *)

Pad == 64
Foreign == 65
NoOctets == << -1 >>
Sextet(x) == x < 64

\* The octets of one group of four: padding only in the last group, and only
\* over zero bits.
GroupOctets(g, last) ==
  CASE ~Sextet(g[1]) \/ ~Sextet(g[2]) -> NoOctets
    [] Sextet(g[1]) /\ Sextet(g[2]) /\ g[3] = Pad ->
         IF last /\ g[4] = Pad /\ g[2] % 16 = 0 THEN << g[1] * 4 + g[2] \div 16 >> ELSE NoOctets
    [] Sextet(g[1]) /\ Sextet(g[2]) /\ g[3] # Pad ->
         IF ~Sextet(g[3]) THEN NoOctets
         ELSE IF g[4] = Pad
         THEN IF last /\ g[3] % 4 = 0
              THEN << g[1] * 4 + g[2] \div 16, (g[2] % 16) * 16 + g[3] \div 4 >> ELSE NoOctets
         ELSE IF ~Sextet(g[4]) THEN NoOctets
         ELSE << g[1] * 4 + g[2] \div 16, (g[2] % 16) * 16 + g[3] \div 4, (g[3] % 4) * 64 + g[4] >>

DecodeBytes(t) ==
  LET groups == Len(t) \div 4
      octets(i) == GroupOctets(SubSeq(t, 4 * i - 3, 4 * i), i = groups)
  IN IF Len(t) % 4 # 0 \/ \E i \in 1 .. groups : octets(i) = NoOctets THEN NoOctets
     ELSE FlattenSeq([ i \in 1 .. groups |-> octets(i) ])

\* The digits of one group of one to three octets.
GroupDigits(g) ==
  << g[1] \div 4,
     (g[1] % 4) * 16 + (IF Len(g) > 1 THEN g[2] \div 16 ELSE 0),
     IF Len(g) > 1 THEN (g[2] % 16) * 4 + (IF Len(g) > 2 THEN g[3] \div 64 ELSE 0) ELSE Pad,
     IF Len(g) > 2 THEN g[3] % 64 ELSE Pad >>
EncodeBytes(octets) ==
  FlattenSeq([ i \in 1 .. (Len(octets) + 2) \div 3 |->
    GroupDigits(SubSeq(octets, 3 * i - 2, IF 3 * i < Len(octets) THEN 3 * i ELSE Len(octets))) ])

\* isBase64 and base64OctetLength of errors.ts.
IsBase64(t) ==
  /\ Len(t) % 4 = 0
  /\ \E pads \in 0 .. 2 : /\ pads <= Len(t)
                          /\ \A i \in 1 .. Len(t) - pads : Sextet(t[i])
                          /\ \A i \in Len(t) - pads + 1 .. Len(t) : t[i] = Pad
Base64OctetLength(t) ==
  LET padding == IF Len(t) > 0 /\ t[Len(t)] = Pad THEN IF t[Len(t) - 1] = Pad THEN 2 ELSE 1 ELSE 0
  IN IF IsBase64(t) THEN (Len(t) \div 4) * 3 - padding ELSE -1

----------------------------------------------------------------------------
(* Dates, as days from 1970-01-01, and date-times, in minutes.             *)

Leap(year) == (year % 4 = 0 /\ year % 100 # 0) \/ year % 400 = 0
MonthLengths(year) == << 31, IF Leap(year) THEN 29 ELSE 28, 31, 30, 31, 30, 31, 31, 30, 31, 30, 31 >>
IsValidCivil(year, month, day) == month \in 1 .. 12 /\ day >= 1 /\ day <= MonthLengths(year)[month]

\* The year of the count starts in March, and 400 years are an era.
DaysFromCivil(year, month, day) ==
  LET y == IF month <= 2 THEN year - 1 ELSE year
      era == y \div 400
      yearOfEra == y - era * 400
      dayOfYear == (153 * (month + IF month > 2 THEN -3 ELSE 9) + 2) \div 5 + day - 1
  IN era * 146097 + yearOfEra * 365 + yearOfEra \div 4 - yearOfEra \div 100 + dayOfYear - 719468

DateTimeMinutes(days, hour, minute, offset) == days * 1440 + hour * 60 + minute - offset

----------------------------------------------------------------------------
(* Durations: is_iso8601_duration, and the pattern of the format check.    *)

DateDesignators == << "Y", "M", "W", "D" >>
TimeDesignators == << "H", "M", "S" >>

\* consume_components: numbers, each with an optional fraction, and their
\* designators in order; the number of components, or -1.
RECURSIVE Consume(_, _, _, _)
Consume(t, designators, next, count) ==
  LET digits == CHOOSE n \in 0 .. Len(t) : /\ \A i \in 1 .. n : t[i] = "1"
                                           /\ n = Len(t) \/ t[n + 1] # "1"
      fraction == digits < Len(t) /\ t[digits + 1] = "."
      tail == IF fraction THEN SubSeq(t, digits + 2, Len(t)) ELSE << >>
      decimals == CHOOSE n \in 0 .. Len(tail) : /\ \A i \in 1 .. n : tail[i] = "1"
                                                /\ n = Len(tail) \/ tail[n + 1] # "1"
      at == IF fraction THEN digits + decimals + 2 ELSE digits + 1
      places == { p \in next .. Len(designators) : at <= Len(t) /\ designators[p] = t[at] }
  IN CASE t = << >> -> count
       [] t # << >> /\ (digits = 0 \/ (fraction /\ decimals = 0) \/ places = { }) -> -1
       [] OTHER -> Consume(SubSeq(t, at + 1, Len(t)), designators,
                           (CHOOSE p \in places : TRUE) + 1, count + 1)

IsDuration(t) ==
  LET T == { i \in DOMAIN t : t[i] = "T" }
      split == IF T = { } THEN Len(t) + 1 ELSE CHOOSE i \in T : \A j \in T : i <= j
      date == Consume(SubSeq(t, 2, split - 1), DateDesignators, 1, 0)
      time == Consume(SubSeq(t, split + 1, Len(t)), TimeDesignators, 1, 0)
  IN Len(t) > 1 /\ t[1] = "P" /\ date >= 0 /\ (T # { } => split < Len(t) /\ time >= 0)
                /\ date + (IF T = { } THEN 0 ELSE time) > 0

\* Where each part of (\d+Y)?(\d+M)?... can end, from the positions `from`.
RECURSIVE OptionalParts(_, _, _, _)
OptionalParts(t, from, parts, fractional) ==
  LET ends(i) == { j \in i + 2 .. Len(t) :
                     /\ t[j] = Head(parts) /\ \A k \in i + 1 .. j - 1 : t[k] \in { "1", "." }
                     /\ t[i + 1] = "1" /\ t[j - 1] = "1"
                     /\ \A k, l \in i + 1 .. j - 1 : t[k] = "." /\ t[l] = "." => k = l
                     /\ (\E k \in i + 1 .. j - 1 : t[k] = ".") => Head(parts) \in fractional }
  IN IF parts = << >> THEN from
     ELSE OptionalParts(t, from \cup UNION { ends(i) : i \in from }, Tail(parts), fractional)

DurationFormat(t) ==
  LET sign == IF t # << >> /\ t[1] \in { "+", "-" } THEN 1 ELSE 0
      dated == OptionalParts(t, { sign + 1 }, DateDesignators, { })
      timed == OptionalParts(t, { i + 1 : i \in { j \in dated : j + 1 < Len(t) /\ t[j + 1] = "T" } },
                             TimeDesignators, { "S" })
  IN Len(t) > sign + 1 /\ t[sign + 1] = "P" /\ Len(t) \in dated \cup timed

-----------------------------------------------------------------------------
(***************************************************************************)
(* The path of a source locus, decided three times: SourceLocusPath of the *)
(* generated crate (try_new and is_traversal_free, support-template.rs)    *)
(* and is_relative_locus_path of the Rust reader (schema.rs).  A path is a *)
(* sequence of symbols; "nl" is any of the four line terminators.          *)
(***************************************************************************)

PathSymbols == { "a", "/", "\\", ".", ":", "nl", "nul" }

Holds(path, ch) == \E i \in DOMAIN path : path[i] = ch
DriveLetter(path) == Len(path) >= 2 /\ path[1] = "a" /\ path[2] = ":"

\* The units before the first line terminator.
HeadLength(path) ==
  CHOOSE n \in 0 .. Len(path) : /\ \A i \in 1 .. n : path[i] # "nl"
                                /\ n = Len(path) \/ path[n + 1] = "nl"

\* Two dots of the head after the start or a slash, before a slash or the end.
ParentInHead(path) ==
  \E i \in 1 .. HeadLength(path) - 1 :
    /\ path[i] = "." /\ path[i + 1] = "."
    /\ i = 1 \/ path[i - 1] = "/"
    /\ i + 1 = Len(path) \/ path[i + 2] = "/"

TryNew(path) ==
  /\ path # << >> /\ ~Holds(path, "nul")
  /\ path[1] # "/" /\ ~DriveLetter(path)
  /\ \A i \in 1 .. HeadLength(path) : path[i] # "\\"
  /\ ~ParentInHead(path)

\* A segment of the path that is `..`.
ParentSegment(path) ==
  \E i \in 1 .. Len(path) - 1 :
    /\ path[i] = "." /\ path[i + 1] = "."
    /\ i = 1 \/ path[i - 1] = "/"
    /\ i + 1 = Len(path) \/ path[i + 2] = "/"

IsTraversalFree(path) == ~Holds(path, "nl") /\ ~Holds(path, "\\") /\ ~ParentSegment(path)

IsRelativeLocusPath(path) ==
  /\ path # << >> /\ ~Holds(path, "nul") /\ ~Holds(path, "\\") /\ path[1] # "/"
  /\ ~DriveLetter(path)
  /\ ~ParentSegment(path)
=============================================================================
