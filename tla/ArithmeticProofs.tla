-------------------------- MODULE ArithmeticProofs --------------------------
(***************************************************************************)
(* Integers are exact for every width of the machine word: the tests of    *)
(* smallint.hh find every overflow that they must, and where they send a   *)
(* result that would have fitted to BigInt, shrink() brings it back.       *)
(***************************************************************************)
EXTENDS Arithmetic, Induction

-----------------------------------------------------------------------------
(* Powers of two *)

\* f holds the powers of two up to n.
Powers(f, n) == f[0] = 1 /\ \A i \in Nat : i < n => f[i + 1] = 2 * f[i]

\* The iterations of PowerOfTwo exist.
LEMMA PowerSteps ==
    ASSUME NEW n \in Nat
    PROVE  \E f \in [0..n -> Nat \ {0}] : Powers(f, n) /\ PowerOfTwo(n) = f[n]
<1>1. PICK S : S = {k \in Nat : \E f \in [0..k -> Nat \ {0}] : Powers(f, k)}
  OBVIOUS
<1>2. 0 \in S
  <2>1. PICK f : f = [i \in 0..0 |-> 1]
    OBVIOUS
  <2>2. f \in [0..0 -> Nat \ {0}] /\ Powers(f, 0)
    BY <2>1 DEF Powers
  <2> QED BY <1>1, <2>2
<1>3. ASSUME NEW k \in Nat, k \in S PROVE k + 1 \in S
  <2>1. PICK f \in [0..k -> Nat \ {0}] : Powers(f, k)
    BY <1>1, <1>3
  <2>2. PICK x \in Nat \ {0} : x = 2 * f[k]
    OBVIOUS
  <2>3. PICK g : g = [i \in 0..(k + 1) |-> IF i = k + 1 THEN x ELSE f[i]]
    OBVIOUS
  <2>4. g \in [0..(k + 1) -> Nat \ {0}]
    BY <2>3
  <2>5. g[k + 1] = x /\ \A i \in 0..k : g[i] = f[i]
    BY <2>3
  <2>6. ASSUME NEW i \in Nat, i < k + 1 PROVE g[i + 1] = 2 * g[i]
    <3>1. CASE i = k
      BY <2>2, <2>5, <3>1
    <3>2. CASE i # k
      <4>1. i < k /\ i \in 0..k /\ i + 1 \in 0..k
        BY <2>6, <3>2
      <4>2. f[i + 1] = 2 * f[i]
        BY <2>1, <4>1 DEF Powers
      <4> QED BY <2>5, <4>1, <4>2
    <3> QED BY <3>1, <3>2
  <2>7. g[0] = 1
    BY <2>1, <2>5 DEF Powers
  <2>8. Powers(g, k + 1)
    BY <2>6, <2>7 DEF Powers
  <2>9. k + 1 \in Nat
    BY <1>1, <1>3
  <2> QED BY <1>1, <2>4, <2>8, <2>9
<1>4. n \in S
  BY <1>1, <1>2, <1>3, SetInduction
<1>5. PICK f \in [0..n -> Nat \ {0}] : Powers(f, n)
  BY <1>1, <1>4
<1>6. f = [i \in 0..n |-> IF i = 0 THEN 1 ELSE 2 * f[i - 1]]
  <2>1. ASSUME NEW i \in 0..n, i # 0 PROVE f[i] = 2 * f[i - 1]
    <3>1. PICK j \in Nat : j = i - 1 /\ j < n /\ j + 1 = i
      BY <2>1
    <3>2. f[j + 1] = 2 * f[j]
      BY <1>5, <3>1 DEF Powers
    <3> QED BY <3>1, <3>2
  <2>2. f[0] = 1
    BY <1>5 DEF Powers
  <2> QED BY <2>1, <2>2
<1>7. ASSUME NEW g, g = [i \in 0..n |-> IF i = 0 THEN 1 ELSE 2 * g[i - 1]] PROVE g = f
  <2>1. PICK T : T = {k \in Nat : k <= n => g[k] = f[k]}
    OBVIOUS
  <2>2. 0 \in T
    BY <1>5, <1>7, <2>1 DEF Powers
  <2>3. ASSUME NEW k \in Nat, k \in T PROVE k + 1 \in T
    <3> SUFFICES ASSUME k + 1 <= n PROVE g[k + 1] = f[k + 1]
      BY <2>1
    <3>1. g[k] = f[k] /\ k + 1 \in 0..n /\ k + 1 # 0 /\ (k + 1) - 1 = k /\ k < n
      BY <2>1, <2>3
    <3>2. g[k + 1] = 2 * g[k]
      BY <1>7, <3>1
    <3>3. f[k + 1] = 2 * f[k]
      BY <1>5, <3>1 DEF Powers
    <3> QED BY <3>1, <3>2, <3>3
  <2>4. Nat \subseteq T
    BY <2>1, <2>2, <2>3, SetInduction
  <2>5. \A k \in 0..n : g[k] = f[k]
    BY <2>1, <2>4
  <2>6. f = [k \in 0..n |-> f[k]] /\ g = [k \in 0..n |-> g[k]]
    BY <1>7
  <2> QED BY <2>5, <2>6
<1>8. PowerOfTwo(n) = f[n]
  <2>1. PICK h : h = CHOOSE g : g = [i \in 0..n |-> IF i = 0 THEN 1 ELSE 2 * g[i - 1]]
    OBVIOUS
  <2>2. h = [i \in 0..n |-> IF i = 0 THEN 1 ELSE 2 * h[i - 1]]
    BY <1>6, <2>1
  <2>3. h = f
    BY <1>7, <2>2
  <2>4. PowerOfTwo(n) = h[n]
    BY <2>1 DEF PowerOfTwo
  <2> QED BY <2>3, <2>4
<1> QED BY <1>5, <1>8

\* PowerOfTwo obeys the equations of powers.
LEMMA PowerFacts ==
    /\ PowerOfTwo(0) = 1
    /\ \A n \in Nat : PowerOfTwo(n) \in Nat \ {0} /\ PowerOfTwo(n + 1) = 2 * PowerOfTwo(n)
<1>1. PowerOfTwo(0) = 1
  BY PowerSteps DEF Powers
<1>2. ASSUME NEW n \in Nat
      PROVE  PowerOfTwo(n) \in Nat \ {0} /\ PowerOfTwo(n + 1) = 2 * PowerOfTwo(n)
  <2>1. PICK f \in [0..n -> Nat \ {0}] : Powers(f, n) /\ PowerOfTwo(n) = f[n]
    BY PowerSteps
  <2>10. n + 1 \in Nat
    OBVIOUS
  <2>2. PICK g \in [0..(n + 1) -> Nat \ {0}] : Powers(g, n + 1) /\ PowerOfTwo(n + 1) = g[n + 1]
    BY <2>10, PowerSteps
  <2>3. PICK T : T = {k \in Nat : k <= n => g[k] = f[k]}
    OBVIOUS
  <2>4. 0 \in T
    BY <2>1, <2>2, <2>3 DEF Powers
  <2>5. ASSUME NEW k \in Nat, k \in T PROVE k + 1 \in T
    <3> SUFFICES ASSUME k + 1 <= n PROVE g[k + 1] = f[k + 1]
      BY <2>3
    <3>1. g[k] = f[k] /\ k < n /\ k < n + 1
      BY <2>3, <2>5
    <3> QED BY <2>1, <2>2, <3>1 DEF Powers
  <2>6. Nat \subseteq T
    BY <2>3, <2>4, <2>5, SetInduction
  <2>7. g[n] = f[n]
    BY <2>3, <2>6
  <2>8. g[n + 1] = 2 * g[n]
    BY <2>2 DEF Powers
  <2>9. f[n] \in Nat \ {0}
    OBVIOUS
  <2> QED BY <2>1, <2>2, <2>7, <2>8, <2>9
<1> QED BY <1>1, <1>2

\* The square of half a word fits in a word.
LEMMA HalfSquared ==
    ASSUME NEW n \in Nat
    PROVE  PowerOfTwo(n \div 2) * PowerOfTwo(n \div 2) <= PowerOfTwo(n)
<1>1. PICK S : S = {k \in Nat : PowerOfTwo(k) * PowerOfTwo(k) = PowerOfTwo(2 * k)}
  OBVIOUS
<1>2. 0 \in S
  <2>1. 2 * 0 = 0 /\ 1 * 1 = 1
    OBVIOUS
  <2> QED BY <1>1, <2>1, PowerFacts
<1>3. ASSUME NEW k \in Nat, k \in S PROVE k + 1 \in S
  <2>1. PICK p \in Nat : p = PowerOfTwo(k)
    BY PowerFacts
  <2>2. p * p = PowerOfTwo(2 * k)
    BY <1>1, <1>3, <2>1
  <2>3. PowerOfTwo(k + 1) = 2 * p
    BY <2>1, PowerFacts
  <2>4. 2 * k \in Nat /\ 2 * k + 1 \in Nat /\ 2 * (k + 1) = (2 * k + 1) + 1
    OBVIOUS
  <2>5. PICK q \in Nat : q = PowerOfTwo(2 * k)
    BY <2>4, PowerFacts
  <2>6. PowerOfTwo(2 * k + 1) = 2 * q
    BY <2>4, <2>5, PowerFacts
  <2>7. PowerOfTwo(2 * (k + 1)) = 2 * (2 * q)
    BY <2>4, <2>6, PowerFacts
  <2>8. (2 * p) * (2 * p) = 2 * (2 * (p * p))
    OBVIOUS
  <2> QED BY <1>1, <2>2, <2>3, <2>5, <2>7, <2>8
<1>4. PICK h \in Nat : h = n \div 2 /\ (n = 2 * h \/ n = 2 * h + 1)
  <2>1. n \div 2 \in Nat /\ (n = 2 * (n \div 2) \/ n = 2 * (n \div 2) + 1)
    OBVIOUS
  <2> QED BY <2>1
<1>5. PowerOfTwo(h) * PowerOfTwo(h) = PowerOfTwo(2 * h)
  BY <1>1, <1>2, <1>3, SetInduction
<1>6. PICK q \in Nat : q = PowerOfTwo(2 * h)
  <2>1. 2 * h \in Nat
    OBVIOUS
  <2> QED BY <2>1, PowerFacts
<1>7. PowerOfTwo(n) = q \/ PowerOfTwo(n) = 2 * q
  <2>1. 2 * h \in Nat
    OBVIOUS
  <2> QED BY <1>4, <1>6, <2>1, PowerFacts
<1> QED BY <1>4, <1>5, <1>6, <1>7

-----------------------------------------------------------------------------
(* Machine words *)

\* The words are -N..N - 1, and a word has 2 * N values.
LEMMA WordFacts ==
    \E N \in Nat \ {0} : /\ N = PowerOfTwo(Digits)
                         /\ MinInt = -N
                         /\ MaxInt = N - 1
                         /\ PowerOfTwo(Digits + 1) = 2 * N
                         /\ \A x : x \in Words <=> x \in Int /\ -N <= x /\ x < N
                         /\ \A x : Wrap(x) = ((x - (-N)) % (2 * N)) + (-N)
<1>1. PICK N \in Nat \ {0} : N = PowerOfTwo(Digits) /\ PowerOfTwo(Digits + 1) = 2 * N
  BY PowerFacts, DigitsAssumption
<1>2. MinInt = -N /\ MaxInt = N - 1
  BY <1>1 DEF MinInt, MaxInt
<1>3. \A x : x \in Words <=> x \in Int /\ -N <= x /\ x < N
  BY <1>2 DEF Words
<1>4. \A x : Wrap(x) = ((x - (-N)) % (2 * N)) + (-N)
  BY <1>1, <1>2 DEF Wrap
<1> QED BY <1>1, <1>2, <1>3, <1>4

\* The remainder of a number that is less than one period out of range
LEMMA ModulusNear ==
    ASSUME NEW y \in Int, NEW p \in Nat \ {0}, -p <= y, y < 2 * p
    PROVE  y % p = IF y < 0 THEN y + p ELSE IF y < p THEN y ELSE y - p
<1>1. PICK q \in Int, r \in Int : y = p * q + r /\ 0 <= r /\ r < p /\ r = y % p
  <2>1. y \div p \in Int
    OBVIOUS
  <2>2. y = p * (y \div p) + (y % p) /\ y % p \in 0..(p - 1)
    OBVIOUS
  <2> QED BY <2>1, <2>2
<1>2. CASE q = 0
  BY <1>1, <1>2
<1>3. CASE q = 1
  BY <1>1, <1>3
<1>4. CASE q = -1
  BY <1>1, <1>4
<1>5. CASE q >= 2
  <2>1. p * q >= p * 2
    BY <1>5
  <2> QED BY <1>1, <2>1
<1>6. CASE q <= -2
  <2>1. p * q <= p * (-2)
    BY <1>6
  <2> QED BY <1>1, <2>1
<1> QED BY <1>2, <1>3, <1>4, <1>5, <1>6

\* What wrapping does to a word, and to the sum or difference of two
LEMMA WrapFacts ==
    ASSUME NEW N \in Nat \ {0}, NEW x \in Int, -(2 * N) <= x, x < 2 * N,
           \A z : Wrap(z) = ((z - (-N)) % (2 * N)) + (-N)
    PROVE  Wrap(x) = IF x < -N THEN x + 2 * N ELSE IF x < N THEN x ELSE x - 2 * N
<1>1. PICK y, p : y = x - (-N) /\ p = 2 * N
  OBVIOUS
<1>2. y \in Int /\ p \in Nat \ {0} /\ -p <= y /\ y < 2 * p /\ y = x + N
  BY <1>1
<1>3. y % p = IF y < 0 THEN y + p ELSE IF y < p THEN y ELSE y - p
  BY <1>2, ModulusNear
<1>4. Wrap(x) = (y % p) + (-N)
  BY <1>1
<1>5. y % p \in Int
  BY <1>2, <1>3
<1> QED BY <1>1, <1>2, <1>3, <1>4, <1>5

\* A word is its own value.
LEMMA WrapOfWord ==
    ASSUME NEW x \in Words
    PROVE  Wrap(x) = x /\ x \in Int /\ Shrink(x) = SmallInt(x)
<1>1. PICK N \in Nat \ {0} : /\ MinInt = -N /\ MaxInt = N - 1
                             /\ \A z : z \in Words <=> z \in Int /\ -N <= z /\ z < N
                             /\ \A z : Wrap(z) = ((z - (-N)) % (2 * N)) + (-N)
  BY WordFacts
<1>2. x \in Int /\ -N <= x /\ x < N
  BY <1>1
<1>3. -(2 * N) <= x /\ x < 2 * N
  BY <1>2
<1>4. Wrap(x) = x
  BY <1>1, <1>2, <1>3, WrapFacts
<1>5. x >= MinInt /\ x <= MaxInt
  BY <1>1, <1>2
<1> QED BY <1>2, <1>4, <1>5 DEF Shrink
-----------------------------------------------------------------------------
(* The operations on two words *)

\* The absolute value of a word, and of a product
LEMMA AbsFacts ==
    /\ \A x \in Int : Abs(x) \in Nat /\ (Abs(x) = x \/ Abs(x) = -x) /\ (x # 0 => Abs(x) # 0)
    /\ \A x, y \in Int : Abs(x * y) = Abs(x) * Abs(y)
<1>1. \A x \in Int : Abs(x) \in Nat /\ (Abs(x) = x \/ Abs(x) = -x) /\ (x # 0 => Abs(x) # 0)
  BY DEF Abs
<1>2. ASSUME NEW x \in Int, NEW y \in Int PROVE Abs(x * y) = Abs(x) * Abs(y)
  <2>1. x * y = (-x) * (-y) /\ (-x) * y = -(x * y) /\ x * (-y) = -(x * y)
    OBVIOUS
  <2>2. CASE x >= 0 /\ y >= 0
    <3>1. x * y >= 0
      BY <2>2
    <3> QED BY <2>2, <3>1 DEF Abs
  <2>3. CASE x < 0 /\ y < 0
    <3>1. (-x) * (-y) >= 0
      BY <2>3
    <3> QED BY <2>1, <2>3, <3>1 DEF Abs
  <2>4. CASE x >= 0 /\ y < 0
    <3>1. x * (-y) >= 0
      BY <2>4
    <3> QED BY <2>1, <2>4, <3>1 DEF Abs
  <2>5. CASE x < 0 /\ y >= 0
    <3>1. (-x) * y >= 0
      BY <2>5
    <3> QED BY <2>1, <2>5, <3>1 DEF Abs
  <2> QED BY <2>2, <2>3, <2>4, <2>5
<1> QED BY <1>1, <1>2

\* Division towards zero, and its remainder
LEMMA QuotientFacts ==
    ASSUME NEW a \in Int, NEW b \in Int, b # 0
    PROVE  /\ Quotient(a, b) \in Int /\ Remainder(a, b) \in Int
           /\ Abs(Quotient(a, b)) = Abs(a) \div Abs(b)
           /\ Abs(b) * Abs(Quotient(a, b)) <= Abs(a)
           /\ Abs(Remainder(a, b)) < Abs(b)
<1>1. PICK x \in Nat, y \in Nat \ {0} : x = Abs(a) /\ y = Abs(b)
  BY AbsFacts
<1>2. PICK q \in Nat, r \in Nat : q = x \div y /\ x = y * q + r /\ r < y
  <2>1. x \div y \in Nat
    OBVIOUS
  <2>2. x = y * (x \div y) + (x % y) /\ x % y \in 0..(y - 1)
    OBVIOUS
  <2> QED BY <2>1, <2>2
<1>3. Quotient(a, b) = IF (a < 0) = (b < 0) THEN q ELSE -q
  BY <1>1, <1>2 DEF Quotient
<1>4. Quotient(a, b) \in Int /\ Abs(Quotient(a, b)) = q
  BY <1>2, <1>3 DEF Abs
<1>5. b * Quotient(a, b) = IF a < 0 THEN -(y * q) ELSE y * q
  <2>1. (-y) * q = -(y * q) /\ (-y) * (-q) = y * q /\ y * (-q) = -(y * q)
    OBVIOUS
  <2>2. b = IF b < 0 THEN -y ELSE y
    BY <1>1 DEF Abs
  <2>3. CASE a < 0 /\ b < 0
    <3>1. Quotient(a, b) = q
      BY <1>3, <2>3
    <3> QED BY <2>1, <2>2, <2>3, <3>1
  <2>4. CASE a < 0 /\ ~(b < 0)
    <3>1. Quotient(a, b) = -q
      BY <1>3, <2>4
    <3> QED BY <2>1, <2>2, <2>4, <3>1
  <2>5. CASE ~(a < 0) /\ b < 0
    <3>1. Quotient(a, b) = -q
      BY <1>3, <2>5
    <3> QED BY <2>1, <2>2, <2>5, <3>1
  <2>6. CASE ~(a < 0) /\ ~(b < 0)
    <3>1. Quotient(a, b) = q
      BY <1>3, <2>6
    <3> QED BY <2>1, <2>2, <2>6, <3>1
  <2> QED BY <2>3, <2>4, <2>5, <2>6
<1>6. a = IF a < 0 THEN -x ELSE x
  BY <1>1 DEF Abs
<1>7. Remainder(a, b) = IF a < 0 THEN -r ELSE r
  <2>1. Remainder(a, b) = a - b * Quotient(a, b)
    BY DEF Remainder
  <2> QED BY <1>2, <1>5, <1>6, <2>1
<1>8. Remainder(a, b) \in Int /\ Abs(Remainder(a, b)) = r
  BY <1>2, <1>7 DEF Abs
<1>9. Abs(Quotient(a, b)) = Abs(a) \div Abs(b)
  BY <1>1, <1>2, <1>4
<1>10. y * q <= x
  <2>1. y * q \in Int
    OBVIOUS
  <2> QED BY <1>2, <2>1
<1>11. Abs(b) * Abs(Quotient(a, b)) <= Abs(a)
  BY <1>1, <1>4, <1>10
<1>12. Abs(Remainder(a, b)) < Abs(b)
  BY <1>1, <1>2, <1>8
<1> QED BY <1>4, <1>8, <1>9, <1>11, <1>12

\* A number whose absolute value is less than -MinInt is a word.
LEMMA SmallNumbers ==
    /\ \A x \in Int : Abs(x) < -MinInt => x \in Words
    /\ \A x \in Words : x # MinInt => Abs(x) < -MinInt /\ Abs(x) \in Words /\ -x \in Words
    /\ \A x \in Words : Abs(x) <= -MinInt
    /\ MinInt \in Words /\ MinInt \in Int /\ MinInt < 0 /\ MaxInt = -MinInt - 1
    /\ Words \subseteq Int
BY WordFacts DEF Abs

\* A result that fits is the word that shrink() would make.
LEMMA Fits ==
    ASSUME NEW x \in Words
    PROVE  SmallInt(x) = Shrink(x) /\ SmallInt(Wrap(x)) = Shrink(x)
BY WrapOfWord
\* The test of add is that both operands have the sign that the sum lost.
LEMMA AddIsExact ==
    ASSUME NEW a \in Words, NEW b \in Words
    PROVE  Add(a, b) = Shrink(a + b) /\ a + b \in Int
<1>1. PICK N \in Nat \ {0} : /\ \A z : z \in Words <=> z \in Int /\ -N <= z /\ z < N
                             /\ \A z : Wrap(z) = ((z - (-N)) % (2 * N)) + (-N)
  BY WordFacts
<1>2. a \in Int /\ b \in Int /\ -N <= a /\ a < N /\ -N <= b /\ b < N
  BY <1>1
<1>3. PICK x \in Int : x = a + b /\ -(2 * N) <= x /\ x < 2 * N
  BY <1>2
<1>4. PICK c : c = Wrap(x)
  OBVIOUS
<1>5. c = IF x < -N THEN x + 2 * N ELSE IF x < N THEN x ELSE x - 2 * N
  BY <1>1, <1>3, <1>4, WrapFacts
<1>6. ~(Negative(a) # Negative(c) /\ Negative(b) # Negative(c)) => x \in Words
  BY <1>1, <1>2, <1>3, <1>5 DEF Negative
<1>7. x \in Words => SmallInt(c) = Shrink(x)
  BY <1>4, Fits
<1>8. Add(a, b) = IF ~(Negative(a) # Negative(c) /\ Negative(b) # Negative(c))
                  THEN SmallInt(c) ELSE Shrink(x)
  BY <1>3, <1>4 DEF Add
<1> QED BY <1>3, <1>6, <1>7, <1>8

\* The test of subtract is that the operands differ in sign, and the difference
\* lost the sign of the first.
LEMMA SubtractIsExact ==
    ASSUME NEW a \in Words, NEW b \in Words
    PROVE  Subtract(a, b) = Shrink(a - b) /\ a - b \in Int
<1>1. PICK N \in Nat \ {0} : /\ \A z : z \in Words <=> z \in Int /\ -N <= z /\ z < N
                             /\ \A z : Wrap(z) = ((z - (-N)) % (2 * N)) + (-N)
  BY WordFacts
<1>2. a \in Int /\ b \in Int /\ -N <= a /\ a < N /\ -N <= b /\ b < N
  BY <1>1
<1>3. PICK x \in Int : x = a - b /\ -(2 * N) <= x /\ x < 2 * N
  BY <1>2
<1>4. PICK c : c = Wrap(x)
  OBVIOUS
<1>5. c = IF x < -N THEN x + 2 * N ELSE IF x < N THEN x ELSE x - 2 * N
  BY <1>1, <1>3, <1>4, WrapFacts
<1>6. ~(Negative(a) # Negative(b) /\ Negative(a) # Negative(c)) => x \in Words
  BY <1>1, <1>2, <1>3, <1>5 DEF Negative
<1>7. x \in Words => SmallInt(c) = Shrink(x)
  BY <1>4, Fits
<1>8. Subtract(a, b) = IF ~(Negative(a) # Negative(b) /\ Negative(a) # Negative(c))
                       THEN SmallInt(c) ELSE Shrink(x)
  BY <1>3, <1>4 DEF Subtract
<1> QED BY <1>3, <1>6, <1>7, <1>8

\* Two numbers less than half a word multiply to a word; so do two whose
\* quotient says it.  The smallest word, that has no absolute value, fails both.
LEMMA MultiplyIsExact ==
    ASSUME NEW a \in Words, NEW b \in Words
    PROVE  Multiply(a, b) = Shrink(a * b) /\ a * b \in Int
<1>1. PICK N \in Nat \ {0} : /\ N = PowerOfTwo(Digits) /\ MinInt = -N /\ MaxInt = N - 1
                             /\ \A z : z \in Words <=> z \in Int /\ -N <= z /\ z < N
                             /\ \A z : Wrap(z) = ((z - (-N)) % (2 * N)) + (-N)
  BY WordFacts
<1>2. a \in Int /\ b \in Int /\ -N <= a /\ a < N /\ -N <= b /\ b < N /\ a * b \in Int
  BY <1>1
<1>3. PICK x \in Nat, y \in Nat : x = Abs(a) /\ y = Abs(b)
  BY <1>2, AbsFacts
<1>4. x <= N /\ y <= N /\ (a # MinInt => x < N) /\ (b # MinInt => y < N)
  BY <1>1, <1>2, <1>3 DEF Abs
<1>5. Wrap(N) = -N
  <2>1. N \in Int /\ -(2 * N) <= N /\ N < 2 * N
    OBVIOUS
  <2> QED BY <1>1, <2>1, WrapFacts
<1>6. /\ Wrap(x) = IF x = N THEN -N ELSE x
      /\ Wrap(y) = IF y = N THEN -N ELSE y
  <2>1. \A z \in Nat : z < N => z \in Words
    BY <1>1
  <2> QED BY <1>4, <1>5, <2>1, WrapOfWord
<1>7. PICK h \in Nat : h = PowerOfTwo(Digits \div 2) /\ h * h <= N
  <2>1. Digits \in Nat /\ Digits \div 2 \in Nat
    BY DigitsAssumption
  <2> QED BY <1>1, <2>1, PowerFacts, HalfSquared
<1>8. x * y < N => a * b \in Words
  BY <1>1, <1>2, <1>3, AbsFacts, SmallNumbers
<1>9. CASE Wrap(x) \in 0..(h - 1) /\ Wrap(y) \in 0..(h - 1)
  <2>1. x < h /\ y < h
    BY <1>6, <1>9
  <2>2. x * y < h * h
    BY <2>1
  <2>3. x * y \in Int /\ h * h \in Int
    OBVIOUS
  <2>4. x * y < N
    BY <1>7, <2>2, <2>3
  <2> QED BY <1>2, <1>8, <2>4, Fits DEF Multiply
<1>10. CASE ~(Wrap(x) \in 0..(h - 1) /\ Wrap(y) \in 0..(h - 1))
  <2>1. CASE TestMultiplyOverflow(a, b)
    BY <1>2, <2>1 DEF Multiply
  <2>2. CASE ~TestMultiplyOverflow(a, b)
    <3>1. a # MinInt /\ ~(b # 0 /\ Wrap(x) >= Quotient(MaxInt, Wrap(y)))
      BY <1>3, <1>7, <1>10, <2>2 DEF TestMultiplyOverflow
    <3>2. Wrap(x) = x
      BY <1>4, <1>6, <3>1
    <3>3. CASE b = 0
      <4>1. x * y = 0
        BY <1>3, <3>3 DEF Abs
      <4> QED BY <1>2, <1>8, <2>2, <4>1, Fits DEF Multiply
    <3>4. CASE b # 0 /\ b = MinInt
      <4>1. y = N /\ Wrap(y) = -N
        BY <1>1, <1>3, <1>6, <3>4 DEF Abs
      <4>2. Abs(MaxInt) \div Abs(-N) = 0
        <5>1. Abs(MaxInt) = N - 1 /\ Abs(-N) = N
          BY <1>1 DEF Abs
        <5>2. (N - 1) \div N = 0
          OBVIOUS
        <5> QED BY <5>1, <5>2
      <4>3. Quotient(MaxInt, -N) = 0
        BY <4>2 DEF Quotient
      <4>4. ~(Wrap(x) >= 0)
        BY <3>1, <3>4, <4>1, <4>3
      <4> QED BY <3>2, <4>4
    <3>5. CASE b # 0 /\ b # MinInt
      <4>1. y # 0 /\ Wrap(y) = y /\ y < N
        BY <1>2, <1>3, <1>4, <1>6, <3>5, AbsFacts
      <4>2. PICK q \in Nat : q = Quotient(MaxInt, y) /\ y * q <= N - 1
        <5>1. MaxInt \in Int /\ y \in Int /\ Abs(MaxInt) = N - 1 /\ Abs(y) = y
          BY <1>1 DEF Abs
        <5>2. Quotient(MaxInt, y) \in Int /\ Abs(y) * Abs(Quotient(MaxInt, y)) <= Abs(MaxInt)
          BY <4>1, <5>1, QuotientFacts
        <5>3. Quotient(MaxInt, y) = Abs(MaxInt) \div Abs(y)
          BY <1>1, <5>1 DEF Quotient
        <5>4. Quotient(MaxInt, y) = (N - 1) \div y /\ (N - 1) \div y \in Nat
          BY <4>1, <5>1, <5>3
        <5>5. Abs(Quotient(MaxInt, y)) = Quotient(MaxInt, y)
          BY <5>2, <5>4 DEF Abs
        <5> QED BY <5>1, <5>2, <5>4, <5>5
      <4>3. x < q
        BY <3>1, <3>2, <3>5, <4>1, <4>2
      <4>4. x * y <= y * q
        <5>1. x * y <= q * y
          BY <4>3
        <5> QED BY <5>1
      <4>5. x * y \in Int /\ y * q \in Int
        OBVIOUS
      <4>6. x * y < N
        BY <4>2, <4>4, <4>5
      <4> QED BY <1>2, <1>8, <2>2, <4>6, Fits DEF Multiply
    <3> QED BY <3>3, <3>4, <3>5
  <2> QED BY <2>1, <2>2
<1> QED BY <1>9, <1>10
\* The one quotient of words that is not a word is that of the smallest by -1.
LEMMA DivIsExact ==
    ASSUME NEW a \in Words, NEW b \in Words, b # 0
    PROVE  Div(a, b) = Shrink(Quotient(a, b)) /\ Quotient(a, b) \in Int
<1>1. a \in Int /\ b \in Int
  BY SmallNumbers
<1>2. Quotient(a, b) \in Int /\ Abs(Quotient(a, b)) = Abs(a) \div Abs(b)
  BY <1>1, QuotientFacts
<1>3. ASSUME a # MinInt \/ b # -1 PROVE Quotient(a, b) \in Words
  <2>1. PICK x \in Nat, y \in Nat \ {0} : x = Abs(a) /\ y = Abs(b) /\ x <= -MinInt
    BY <1>1, AbsFacts, SmallNumbers
  <2>2. x \div y \in Nat /\ x \div y <= x
    OBVIOUS
  <2>3. CASE a # MinInt
    <3>1. x < -MinInt
      BY <2>1, <2>3, SmallNumbers
    <3> QED BY <1>2, <2>1, <2>2, <3>1, SmallNumbers
  <2>4. CASE a = MinInt /\ b = 1
    <3>1. x = -MinInt /\ y = 1 /\ x \div 1 = x
      BY <2>1, <2>4, SmallNumbers DEF Abs
    <3>2. Quotient(a, b) = MinInt
      BY <2>1, <2>4, <3>1, SmallNumbers DEF Quotient
    <3> QED BY <3>2, SmallNumbers
  <2>5. CASE a = MinInt /\ b # 1
    <3>1. y >= 2 /\ x > 0
      BY <1>1, <1>3, <2>1, <2>5, SmallNumbers DEF Abs
    <3>2. PICK q \in Nat, r \in Nat : q = x \div y /\ x = y * q + r
      <4>1. x \div y \in Nat
        OBVIOUS
      <4>2. x = y * (x \div y) + (x % y) /\ x % y \in 0..(y - 1)
        OBVIOUS
      <4> QED BY <4>1, <4>2
    <3>3. y * q >= 2 * q
      BY <3>1
    <3>4. q < x
      BY <3>1, <3>2, <3>3
    <3> QED BY <1>2, <2>1, <3>2, <3>4, SmallNumbers
  <2> QED BY <2>3, <2>4, <2>5
<1> QED BY <1>2, <1>3, Fits DEF Div

\* A remainder is smaller than the divisor.
LEMMA ModIsExact ==
    ASSUME NEW a \in Words, NEW b \in Words, b # 0
    PROVE  Mod(a, b) = Shrink(Remainder(a, b)) /\ Remainder(a, b) \in Int
<1>1. a \in Int /\ b \in Int
  BY SmallNumbers
<1>2. Remainder(a, b) \in Int /\ Abs(Remainder(a, b)) < Abs(b)
  BY <1>1, QuotientFacts
<1>3. Abs(b) <= -MinInt /\ Abs(b) \in Nat /\ Abs(Remainder(a, b)) \in Nat /\ MinInt \in Int
  BY <1>1, <1>2, AbsFacts, SmallNumbers
<1>4. Remainder(a, b) \in Words
  BY <1>2, <1>3, SmallNumbers
<1> QED BY <1>2, <1>4, Fits DEF Mod

\* Every word but the smallest has an opposite.
LEMMA OppositeIsExact ==
    ASSUME NEW a \in Words
    PROVE  /\ Opposite(a) = Shrink(-a) /\ -a \in Int
           /\ AbsoluteValue(a) = Shrink(Abs(a)) /\ Abs(a) \in Int
<1>1. a \in Int /\ -a \in Int /\ Abs(a) \in Int /\ Abs(a) = IF a >= 0 THEN a ELSE -a
  BY SmallNumbers DEF Abs
<1>2. CASE a = MinInt
  <2>1. Abs(a) = -a
    BY <1>1, <1>2, SmallNumbers
  <2> QED BY <1>1, <1>2, <2>1 DEF Opposite, AbsoluteValue
<1>3. CASE a # MinInt
  <2>1. Abs(a) \in Words /\ -a \in Words
    BY <1>3, SmallNumbers
  <2>2. SmallInt(Abs(a)) = Shrink(Abs(a)) /\ SmallInt(-a) = Shrink(-a)
    BY <2>1, Fits
  <2>3. AbsoluteValue(a) = SmallInt(Abs(a))
    BY <1>1, <1>3 DEF AbsoluteValue
  <2> QED BY <1>1, <1>3, <2>2, <2>3 DEF Opposite
<1> QED BY <1>2, <1>3

-----------------------------------------------------------------------------
(* The invariant *)

\* The number is what shrink() makes of the exact result.
Canonical == exact \in Int /\ number = Shrink(exact)

\* The two representations, apart
LEMMA ShrinkFacts ==
    ASSUME NEW x \in Int
    PROVE  /\ x \in Words => Shrink(x) = [type |-> "SmallInt", value |-> x]
           /\ x \notin Words => Shrink(x) = [type |-> "BigInt", value |-> x]
           /\ Shrink(x).value = x
           /\ Shrink(x).type = "SmallInt" <=> x \in Words
<1>1. x \in Words => Shrink(x) = [type |-> "SmallInt", value |-> x]
  BY WrapOfWord DEF SmallInt
<1>2. x \notin Words => Shrink(x) = [type |-> "BigInt", value |-> x]
  <2>1. x \in Words <=> x >= MinInt /\ x <= MaxInt
    BY WordFacts DEF Words
  <2> QED BY <2>1 DEF Shrink, BigInt
<1> QED BY <1>1, <1>2

\* IntegersAreExact follows.
LEMMA CanonicalIsExact == Canonical => IntegersAreExact
BY ShrinkFacts DEF Canonical, IntegersAreExact

\* 0 is a word.
LEMMA CanonicalAtFirst == ArithmeticInit => Canonical
<1>1. 0 \in Words
  BY WordFacts
<1> QED BY <1>1, WrapOfWord DEF ArithmeticInit, Canonical

\* One step, by its operation: on words it is one of the lemmas above, and with a
\* BigInt it is exact, and shrunk.
LEMMA CanonicalStep == Canonical /\ ArithmeticNext => Canonical'
<1> SUFFICES ASSUME Canonical, ArithmeticNext PROVE Canonical'
  OBVIOUS
<1>1. /\ exact \in Int /\ number = Shrink(exact) /\ number.value = exact
      /\ number.type = "SmallInt" <=> exact \in Words
  BY ShrinkFacts DEF Canonical
<1>2. Numbers \subseteq Int
  BY DigitsAssumption DEF Numbers
<1>3. ASSUME NEW b \in Numbers, Operate(Add, Plus, b) PROVE Canonical'
  <2>1. b \in Int /\ exact + b \in Int
    BY <1>1, <1>2
  <2>2. exact' = exact + b
    BY <1>3 DEF Operate, Plus
  <2>3. number' = IF number.type = "SmallInt" /\ b \in Words
                  THEN Add(exact, b) ELSE Shrink(exact + b)
    BY <1>1, <1>3 DEF Operate, Plus
  <2> QED BY <1>1, <2>1, <2>2, <2>3, AddIsExact DEF Canonical
<1>4. ASSUME NEW b \in Numbers, Operate(Subtract, Minus, b) PROVE Canonical'
  <2>1. b \in Int /\ exact - b \in Int
    BY <1>1, <1>2
  <2>2. exact' = exact - b
    BY <1>4 DEF Operate, Minus
  <2>3. number' = IF number.type = "SmallInt" /\ b \in Words
                  THEN Subtract(exact, b) ELSE Shrink(exact - b)
    BY <1>1, <1>4 DEF Operate, Minus
  <2> QED BY <1>1, <2>1, <2>2, <2>3, SubtractIsExact DEF Canonical
<1>5. ASSUME NEW b \in Numbers, Operate(Multiply, Times, b) PROVE Canonical'
  <2>1. b \in Int /\ exact * b \in Int
    BY <1>1, <1>2
  <2>2. exact' = exact * b
    BY <1>5 DEF Operate, Times
  <2>3. number' = IF number.type = "SmallInt" /\ b \in Words
                  THEN Multiply(exact, b) ELSE Shrink(exact * b)
    BY <1>1, <1>5 DEF Operate, Times
  <2> QED BY <1>1, <2>1, <2>2, <2>3, MultiplyIsExact DEF Canonical
<1>6. ASSUME NEW b \in Numbers \ {0}, Operate(Div, Quotient, b) PROVE Canonical'
  <2>1. b \in Int /\ b # 0 /\ Quotient(exact, b) \in Int
    BY <1>1, <1>2, QuotientFacts
  <2>2. exact' = Quotient(exact, b)
    BY <1>6 DEF Operate
  <2>3. number' = IF number.type = "SmallInt" /\ b \in Words
                  THEN Div(exact, b) ELSE Shrink(Quotient(exact, b))
    BY <1>1, <1>6 DEF Operate
  <2> QED BY <1>1, <2>1, <2>2, <2>3, DivIsExact DEF Canonical
<1>7. ASSUME NEW b \in Numbers \ {0}, Operate(Mod, Remainder, b) PROVE Canonical'
  <2>1. b \in Int /\ b # 0 /\ Remainder(exact, b) \in Int
    BY <1>1, <1>2, QuotientFacts
  <2>2. exact' = Remainder(exact, b)
    BY <1>7 DEF Operate
  <2>3. number' = IF number.type = "SmallInt" /\ b \in Words
                  THEN Mod(exact, b) ELSE Shrink(Remainder(exact, b))
    BY <1>1, <1>7 DEF Operate
  <2> QED BY <1>1, <2>1, <2>2, <2>3, ModIsExact DEF Canonical
<1>8. ASSUME number' = IF number.type = "SmallInt" THEN Opposite(number.value)
                       ELSE Shrink(-number.value),
             exact' = -exact
      PROVE  Canonical'
  BY <1>1, <1>8, OppositeIsExact DEF Canonical
<1>9. ASSUME number' = IF number.type = "SmallInt" THEN AbsoluteValue(number.value)
                       ELSE IF number.value < 0 THEN Shrink(-number.value) ELSE number,
             exact' = Abs(exact)
      PROVE  Canonical'
  <2>1. Abs(exact) \in Int /\ Abs(exact) = IF exact < 0 THEN -exact ELSE exact
    BY <1>1 DEF Abs
  <2> QED BY <1>1, <1>9, <2>1, OppositeIsExact DEF Canonical
<1> QED BY <1>3, <1>4, <1>5, <1>6, <1>7, <1>8, <1>9 DEF ArithmeticNext

\* Whatever the width of the machine word, and however long the computation goes
\* in and out of its range, the result is the exact integer, in the one
\* representation that == and the hash of integers rely on (smallint.hh).
THEOREM IntegersStayExact == ArithmeticSpec => []IntegersAreExact
<1>1. ArithmeticInit => Canonical
  BY CanonicalAtFirst
<1>2. Canonical /\ [ArithmeticNext]_arithmeticVars => Canonical'
  <2>1. Canonical /\ UNCHANGED arithmeticVars => Canonical'
    BY DEF Canonical, arithmeticVars, Shrink, SmallInt, BigInt
  <2> QED BY <2>1, CanonicalStep
<1>3. Canonical => IntegersAreExact
  BY CanonicalIsExact
<1> QED BY <1>1, <1>2, <1>3, PTL DEF ArithmeticSpec
=============================================================================
