------------------------------ MODULE Durations ------------------------------
(***************************************************************************)
(* ParseDuration: a duration is read as a sum of numbers with units, like  *)
(* 1w2d3.5h, in the arithmetic of a signed machine word, which is narrow   *)
(* here.  Schemas compare durations to suppress a difference, and validate *)
(* them: a sum that has wrapped round would hide a change.  hh:mm:ss and a *)
(* number of days before it are other ways to write such a sum.            *)
(***************************************************************************)
EXTENDS Integers

CONSTANTS
    MaxWord,   \* the largest value of a machine word: 2^n - 1
    TimeUnit,  \* units, the base unit among them, in nanoseconds
    Digit,     \* the digits that texts are made of, a subset of 0 .. 9
    MaxDigits, \* of one number
    MaxParts   \* numbers in one text

\* A word holds more than a digit, and every unit.
ASSUME DurationAssumption ==
    /\ MaxWord \in Nat /\ MaxWord > 9
    /\ TimeUnit \subseteq 1 .. MaxWord /\ Digit \subseteq 0 .. 9
    /\ MaxDigits \in Nat /\ MaxParts \in Nat

VARIABLES
    word,    \* d: the sum so far, or Invalid
    number,  \* v and f: the number being read, and one digit after its point
    digits,  \* how many of it were read
    terms,   \* how many numbers have been added
    exact    \* history: what number and sum would be in unbounded arithmetic

durationVars == <<word, number, digits, terms, exact>>

Invalid == -1
NoFraction == -1
NoNumber == [v |-> 0, f |-> NoFraction]

\* Two's complement.
Wrapped(n) ==
    LET m == n % (2 * (MaxWord + 1))
    IN  IF m > MaxWord THEN m - 2 * (MaxWord + 1) ELSE m

-----------------------------------------------------------------------------
\* A slip: only the sign shows an overflow.
OneCheck(x, c) == IF Wrapped(x * 10 + c) < 0 THEN Invalid ELSE Wrapped(x * 10 + c)

\* Two checks for each digit.
leadingInt(x, c) ==
    IF x > MaxWord \div 10 \/ Wrapped(x * 10 + c) < 0 THEN Invalid
    ELSE Wrapped(x * 10 + c)

ReadsDigit(c) ==
    LET x == leadingInt(number.v, c)
    IN  /\ word # Invalid /\ digits < MaxDigits /\ number.f = NoFraction
        /\ number' = IF x = Invalid THEN number ELSE [number EXCEPT !.v = x]
        /\ word' = IF x = Invalid THEN Invalid ELSE word
        /\ digits' = digits + 1
        /\ exact' = [exact EXCEPT !.number = @ * 10 + c]
        /\ UNCHANGED terms

\* leadingFraction, of one digit.
ReadsFraction(c) ==
    /\ word # Invalid /\ digits > 0 /\ number.f = NoFraction
    /\ number' = [number EXCEPT !.f = c]
    /\ UNCHANGED <<word, digits, terms, exact>>

Fraction(unit) == IF number.f > 0 THEN (number.f * unit) \div 10 ELSE 0

\* The number times its unit, with its fraction, is added to the sum.
Added(unit) ==
    LET product == Wrapped(number.v * unit)
        v == Wrapped(product + Fraction(unit))
        d == Wrapped(word + v)
    IN  IF number.v > MaxWord \div unit \/ v < 0 \/ d < 0 THEN Invalid ELSE d

ReadsUnit(unit) ==
    /\ word # Invalid /\ digits > 0 /\ terms < MaxParts
    /\ word' = Added(unit)
    /\ exact' = [number |-> 0, sum |-> exact.sum + exact.number * unit + Fraction(unit)]
    /\ number' = NoNumber /\ digits' = 0 /\ terms' = terms + 1

DurationInit ==
    /\ word = 0 /\ number = NoNumber /\ digits = 0 /\ terms = 0
    /\ exact = [number |-> 0, sum |-> 0]

DurationNext ==
    \/ \E c \in Digit : ReadsDigit(c) \/ ReadsFraction(c)
    \/ \E unit \in TimeUnit : ReadsUnit(unit)

DurationSpec == DurationInit /\ [][DurationNext]_durationVars

-----------------------------------------------------------------------------
(* Properties.                                                             *)

DurationTypeOK ==
    /\ word \in Invalid .. MaxWord
    /\ number.v \in 0 .. MaxWord /\ number.f \in NoFraction .. 9
    /\ digits \in 0 .. MaxDigits /\ terms \in 0 .. MaxParts
    /\ exact.number \in Nat /\ exact.sum \in Nat

\* A text is rejected exactly when what it says is too large for a machine
\* word; no wrapped number, product, fraction or sum is taken for a duration.
DurationIsExact ==
    IF word = Invalid THEN exact.number > MaxWord \/ exact.sum > MaxWord
    ELSE word = exact.sum

=============================================================================
