------------------------------ MODULE Decimals ------------------------------
(***************************************************************************)
(* Exact numbers: Decimal of src/src/types/decimal.cpp, a coefficient of   *)
(* a machine width and a scale of one byte.  A session keeps a value and   *)
(* computes with it, as an expression evaluation does; the widths, the     *)
(* base and the extra digits of a division are constants, so that TLC      *)
(* meets every carry and every limit.                                      *)
(***************************************************************************)
EXTENDS Integers

CONSTANTS MaxCoefficient,  \* 2^63 - 1; the least coefficient is -2^63
          Base,            \* 10
          ScaleCount,      \* 256, the scales a byte can hold
          ExtraPrecision,  \* 6, the digits operator/ adds
          Scales           \* the scales of the operands

VARIABLES lhs, rhs,            \* the operands
          computed, outcome    \* the operation computed last, and what it returned

decimalVars == <<lhs, rhs, computed, outcome>>

MinCoefficient == -MaxCoefficient - 1
Coefficients == MinCoefficient .. MaxCoefficient
Decimal(c, s) == [coefficient |-> c, scale |-> s]
Decimals == {Decimal(c, s) : c \in Coefficients, s \in Scales}

Abs(n) == IF n < 0 THEN -n ELSE n
Max2(a, b) == IF a > b THEN a ELSE b

\* Division of C++: towards zero, where \div goes down.
Quotient(n, d) == IF (n < 0) = (d < 0) THEN Abs(n) \div Abs(d) ELSE -(Abs(n) \div Abs(d))

\* What stands for no coefficient and no Decimal: an overflow was reported.
None == MaxCoefficient + 1
NoDecimal == Decimal(None, 0)

\* Seeded fault: only positive coefficients are checked.
ScaleUpPositive(val, diff) ==
    LET multiplier == Base ^ diff
    IN  IF diff = 0 THEN val
        ELSE IF Base ^ (diff - 1) > MaxCoefficient \div Base THEN None
        ELSE IF val > 0 /\ val > MaxCoefficient \div multiplier THEN None
        ELSE val * multiplier

\* scale_up: the loop gives up when the multiplier itself no longer fits.
ScaleUp(val, diff) ==
    LET multiplier == Base ^ diff
    IN  IF diff = 0 THEN val
        ELSE IF Base ^ (diff - 1) > MaxCoefficient \div Base THEN None
        ELSE IF val > 0 /\ val > MaxCoefficient \div multiplier THEN None
        ELSE IF val < 0 /\ val < Quotient(MinCoefficient, multiplier) THEN None
        ELSE val * multiplier

TargetScale(a, b) == Max2(a.scale, b.scale)
First(a, b) == ScaleUp(a.coefficient, TargetScale(a, b) - a.scale)
Second(a, b) == ScaleUp(b.coefficient, TargetScale(a, b) - b.scale)

Equal(a, b) ==
    /\ First(a, b) # None
    /\ Second(a, b) # None
    /\ First(a, b) = Second(a, b)

\* Seeded fault: an operand that does not scale is never the smaller one.
LessUnsigned(a, b) ==
    IF First(a, b) = None THEN FALSE
    ELSE IF Second(a, b) = None THEN TRUE
    ELSE First(a, b) < Second(a, b)

Less(a, b) ==
    IF First(a, b) = None THEN a.coefficient < 0
    ELSE IF Second(a, b) = None THEN b.coefficient > 0
    ELSE First(a, b) < Second(a, b)

Plus(a, b) ==
    LET c1 == First(a, b)
        c2 == Second(a, b)
    IN  IF c1 = None \/ c2 = None THEN NoDecimal
        ELSE IF \/ c2 > 0 /\ c1 > MaxCoefficient - c2
                \/ c2 < 0 /\ c1 < MinCoefficient - c2 THEN NoDecimal
        ELSE Decimal(c1 + c2, TargetScale(a, b))

Minus(a, b) ==
    LET c1 == First(a, b)
        c2 == Second(a, b)
    IN  IF c1 = None \/ c2 = None THEN NoDecimal
        ELSE IF \/ c2 < 0 /\ c1 > MaxCoefficient + c2
                \/ c2 > 0 /\ c1 < MinCoefficient + c2 THEN NoDecimal
        ELSE Decimal(c1 - c2, TargetScale(a, b))

Times(a, b) ==
    LET c1 == a.coefficient
        c2 == b.coefficient
    IN  IF \/ c1 > 0 /\ c2 > 0 /\ c1 > MaxCoefficient \div c2
           \/ c1 > 0 /\ c2 < 0 /\ c2 < Quotient(MinCoefficient, c1)
           \/ c1 < 0 /\ c2 > 0 /\ c1 < Quotient(MinCoefficient, c2)
           \/ c1 < 0 /\ c2 < 0 /\ c1 < Quotient(MaxCoefficient, c2) THEN NoDecimal
        ELSE Decimal(c1 * c2, (a.scale + b.scale) % ScaleCount)

DividedBy(a, b) ==
    LET c1 == ScaleUp(a.coefficient, ExtraPrecision)
    IN  IF b.coefficient = 0 \/ c1 = None THEN NoDecimal
        ELSE Decimal(Quotient(c1, b.coefficient),
                     (a.scale + ExtraPrecision - b.scale) % ScaleCount)

Operation(o, a, b) ==
    CASE o = "+" -> Plus(a, b)
      [] o = "-" -> Minus(a, b)
      [] o = "*" -> Times(a, b)
      [] o = "/" -> DividedBy(a, b)

Compute(o) ==
    /\ computed = "none"
    /\ computed' = o
    /\ outcome' = Operation(o, lhs, rhs)
    /\ UNCHANGED <<lhs, rhs>>

DecimalInit ==
    lhs = NoDecimal /\ rhs = NoDecimal /\ computed = "start" /\ outcome = NoDecimal

\* The evaluation begins with any two values.
Operands ==
    /\ computed = "start"
    /\ lhs' \in Decimals /\ rhs' \in Decimals
    /\ computed' = "none"
    /\ UNCHANGED outcome

DecimalNext ==
    \/ Operands
    \/ \E o \in {"+", "-", "*", "/"} : Compute(o)

DecimalSpec == DecimalInit /\ [][DecimalNext]_decimalVars

-----------------------------------------------------------------------------
\* The value of a Decimal in units of the smallest scale that occurs.
Unit == ScaleCount
Units(d) == d.coefficient * Base ^ (Unit - d.scale)

\* The scale of the result fits the byte it is kept in.
ScaleFits ==
    CASE computed = "*" -> lhs.scale + rhs.scale < ScaleCount
      [] computed = "/" -> lhs.scale + ExtraPrecision - rhs.scale \in 0 .. ScaleCount - 1
      [] OTHER -> TRUE

\* What an operation returns is right to the last digit, and fits the width: no
\* overflow of a coefficient passes the checks, at either end, for any signs.  A
\* quotient is cut at its scale.  Left out are products and quotients whose scale does
\* not fit its byte and wraps (Decimal::operator+, -, *, /; decimal.cpp:110, :128).
ResultsExact ==
    computed \notin {"start", "none"} /\ outcome # NoDecimal /\ ScaleFits =>
        /\ outcome.coefficient \in Coefficients
        /\ computed = "+" => Units(outcome) = Units(lhs) + Units(rhs)
        /\ computed = "-" => Units(outcome) = Units(lhs) - Units(rhs)
        /\ computed = "*" =>
             /\ outcome.coefficient = lhs.coefficient * rhs.coefficient
             /\ outcome.scale = lhs.scale + rhs.scale
        /\ computed = "/" =>
             /\ outcome.scale + rhs.scale = lhs.scale + ExtraPrecision
             /\ Abs(lhs.coefficient * Base ^ ExtraPrecision
                    - outcome.coefficient * rhs.coefficient) < Abs(rhs.coefficient)

\* The comparisons order the values: of two decimals one is less, or they are equal,
\* never both and never neither, also when a coefficient cannot be scaled up to the
\* other's scale.  A zero is left out whose multiplier overflows: scale_up fails for it
\* although zero has every scale (Decimal::operator==, operator<).
OrderIsValue ==
    LET scales(d, other) == d.coefficient # 0 \/ First(d, other) # None
    IN  computed # "start" /\ scales(lhs, rhs) /\ scales(rhs, lhs) =>
            /\ Less(lhs, rhs) <=> Units(lhs) < Units(rhs)
            /\ Equal(lhs, rhs) <=> Units(lhs) = Units(rhs)

\* Decimals compute with the values they stand for, in results and in comparisons.
DecimalsAreValues == ResultsExact /\ OrderIsValue
=============================================================================
