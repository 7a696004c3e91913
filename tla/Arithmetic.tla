----------------------------- MODULE Arithmetic -----------------------------
(***************************************************************************)
(* Integers (smallint.hh, bigint.hh): a SmallInt is a machine word, and    *)
(* becomes a BigInt when an operation overflows; a BigInt becomes a        *)
(* SmallInt as soon as it fits.  Two integers are compared by their types  *)
(* first, so that each must have one representation only.                  *)
(*                                                                         *)
(* A word has Digits bits and a sign.  `number` is the integer that a      *)
(* computation has reached; a long one goes through many of them.          *)
(***************************************************************************)
EXTENDS Integers

CONSTANTS
    Digits,     \* std::numeric_limits<nativeint>::digits
    MaxNumber   \* bound on the numbers that a computation reaches

ASSUME DigitsAssumption == Digits \in Nat \ {0} /\ MaxNumber \in Nat

\* 2 to the power of n
PowerOfTwo(n) ==
    LET power[i \in 0..n] == IF i = 0 THEN 1 ELSE 2 * power[i - 1]
    IN power[n]

MinInt == -PowerOfTwo(Digits)
MaxInt == PowerOfTwo(Digits) - 1
Words == MinInt..MaxInt
Numbers == (-MaxNumber)..MaxNumber

\* The value of a machine word, on overflow.
Wrap(x) == ((x - MinInt) % PowerOfTwo(Digits + 1)) + MinInt

\* C++ division, towards zero
Abs(x) == IF x < 0 THEN -x ELSE x
Quotient(a, b) ==
    LET q == Abs(a) \div Abs(b) IN IF (a < 0) = (b < 0) THEN q ELSE -q
Remainder(a, b) == a - b * Quotient(a, b)

VARIABLES
    number,   \* the result, with its representation
    exact     \* the integer it should be, for the property

arithmeticVars == <<number, exact>>

SmallInt(x) == [type |-> "SmallInt", value |-> Wrap(x)]
BigInt(x) == [type |-> "BigInt", value |-> x]

\* BigInt::shrink
Shrink(x) == IF x >= MinInt /\ x <= MaxInt THEN SmallInt(x) ELSE BigInt(x)

Negative(x) == x < 0   \* the sign bit

-----------------------------------------------------------------------------
(* SmallInt, with a SmallInt *)

Opposite(a) == IF a # MinInt THEN SmallInt(-a) ELSE Shrink(-a)

\* The sign of ((a ^ c) & (b ^ c))
Add(a, b) ==
    LET c == Wrap(a + b)
    IN IF ~(Negative(a) # Negative(c) /\ Negative(b) # Negative(c)) THEN SmallInt(c)
       ELSE Shrink(a + b)

\* Fault: the test of add.
SubtractTestedAsAdd(a, b) ==
    LET c == Wrap(a - b)
    IN IF ~(Negative(a) # Negative(c) /\ Negative(b) # Negative(c)) THEN SmallInt(c)
       ELSE Shrink(a - b)

\* The sign of (~(a ^ ~b) & (a ^ c))
Subtract(a, b) ==
    LET c == Wrap(a - b)
    IN IF ~(Negative(a) # Negative(b) /\ Negative(a) # Negative(c)) THEN SmallInt(c)
       ELSE Shrink(a - b)

\* The absolute value of the smallest word is itself.
TestMultiplyOverflow(a, b) ==
    LET absa == Wrap(Abs(a))
        absb == Wrap(Abs(b))
        half == PowerOfTwo(Digits \div 2)
    IN /\ ~(absa \in 0..(half - 1) /\ absb \in 0..(half - 1))
       /\ a = MinInt \/ (b # 0 /\ absa >= Quotient(MaxInt, absb))

Multiply(a, b) == IF ~TestMultiplyOverflow(a, b) THEN SmallInt(a * b) ELSE Shrink(a * b)

\* b is not 0
Div(a, b) == IF a # MinInt \/ b # -1 THEN SmallInt(Quotient(a, b)) ELSE Shrink(Quotient(a, b))
Mod(a, b) == IF a # MinInt \/ b # -1 THEN SmallInt(Remainder(a, b)) ELSE Shrink(Remainder(a, b))

AbsoluteValue(a) == IF a # MinInt THEN SmallInt(IF a >= 0 THEN a ELSE -a) ELSE Shrink(-a)

-----------------------------------------------------------------------------
\* An operation on the number and another one, which is a SmallInt or a BigInt: as
\* soon as one of them is a BigInt, both are, and the result is made to fit.
Operate(Small(_, _), Big(_, _), b) ==
    /\ number' = IF number.type = "SmallInt" /\ b \in Words
                 THEN Small(number.value, b)
                 ELSE Shrink(Big(number.value, b))
    /\ exact' = Big(exact, b)
    /\ exact' \in Numbers

Plus(x, y) == x + y
Minus(x, y) == x - y
Times(x, y) == x * y

\* div raises an error when b is 0; mod does not test it.
ArithmeticNext ==
    \/ \E b \in Numbers : Operate(Add, Plus, b)
    \/ \E b \in Numbers : Operate(Subtract, Minus, b)
    \/ \E b \in Numbers : Operate(Multiply, Times, b)
    \/ \E b \in Numbers \ {0} : Operate(Div, Quotient, b)
    \/ \E b \in Numbers \ {0} : Operate(Mod, Remainder, b)
    \/ /\ number' = IF number.type = "SmallInt" THEN Opposite(number.value)
                    ELSE Shrink(-number.value)
       /\ exact' = -exact
    \/ /\ number' = IF number.type = "SmallInt" THEN AbsoluteValue(number.value)
                    ELSE IF number.value < 0 THEN Shrink(-number.value) ELSE number
       /\ exact' = Abs(exact)

ArithmeticInit == number = SmallInt(0) /\ exact = 0

ArithmeticSpec == ArithmeticInit /\ [][ArithmeticNext]_arithmeticVars

-----------------------------------------------------------------------------
\* However a computation goes in and out of the range of a machine word, its
\* result is exact, and is a SmallInt just when it fits in one (smallint.hh).
IntegersAreExact ==
    /\ number.value = exact
    /\ number.type = "SmallInt" <=> exact \in Words

=============================================================================
