----------------------------- MODULE Arithmetic -----------------------------
(***************************************************************************)
(* The arithmetic of the run-time system (virtual_stack.cpp, x1_arch.cpp,  *)
(* and the orders ADD to OR, abs, sign, entier of opcodes.cpp): numbers of *)
(* both types in the words of the X1, computed with the host's int and     *)
(* long double.                                                            *)
(*                                                                         *)
(* The widths are parameters.  A long double is a fraction; each operation *)
(* rounds its result to L bits, and the exponent is as large as it takes.  *)
(***************************************************************************)
EXTENDS Integers, Sequences, FiniteSets

CONSTANTS
  W,            \* bits of an integer without its sign: 26
  P,            \* bits of a mantissa: 40
  ELow, EMax,   \* exponents: -ELow .. EMax, -2048 .. 2047
  L,            \* bits of the mantissa of a long double: 64
  IntBits,      \* the host's int: 32
  MaxPower,     \* the largest exponent that is tried, with an integer
  MaxRealPower  \* and with a real, or below 0

VARIABLES
  stack,        \* at most two numbers
  error         \* an error has been reported

vars == <<stack, error>>

(* An integer word has W + 1 bits; a real, a sign, P bits of mantissa, and *)
(* the exponent: the two words of 27 bits with the ignored sign left out.  *)
IntOnes  == 2 ^ (W + 1) - 1
EMin     == -ELow
Span     == EMax - EMin + 1
RealOnes == 2 * Span * 2 ^ P - 1

IntMax == 2 ^ W - 1

Integer(w) == [t |-> "integer", v |-> w]
Real(w)    == [t |-> "real", v |-> w]
Thrown     == [t |-> "error", v |-> 0]

IsInt(c) == c.t = "integer"

Abs(n)  == IF n < 0 THEN -n ELSE n
Trunc(n, d) == IF (n < 0) = (d < 0) THEN Abs(n) \div Abs(d) ELSE -(Abs(n) \div Abs(d))

(* Arithmetic of int, which wraps round: what compilers make of it. *)
Wrapped(n) == ((n + 2 ^ (IntBits - 1)) % 2 ^ IntBits) - 2 ^ (IntBits - 1)

-----------------------------------------------------------------------------
(* Long doubles: n/d, and whether a zero is minus zero. *)
RECURSIVE Gcd(_, _)
Gcd(m, n) == IF n = 0 THEN m ELSE Gcd(n, m % n)

Ratio(n, d) ==
  LET g == Gcd(Abs(n), Abs(d))
  IN  [n |-> (IF d < 0 THEN -n ELSE n) \div g, d |-> Abs(d) \div g, z |-> FALSE]
MinusZero   == [n |-> 0, d |-> 1, z |-> TRUE]
Negative(q) == q.n < 0 \/ q.z

Signed(q, neg) == IF q.n = 0 /\ neg THEN MinusZero ELSE q

Minus(q) == [q EXCEPT !.n = -@, !.z = q.n = 0 /\ ~ q.z]
Size(q)  == [q EXCEPT !.n = Abs(@), !.z = FALSE]

(* Exact results, over the least common denominator *)
Plus(p, q) ==
  LET g == Gcd(p.d, q.d)
  IN  IF p.z /\ q.z THEN MinusZero
      ELSE Ratio(p.n * (q.d \div g) + q.n * (p.d \div g), p.d * (q.d \div g))
Times(p, q) == Signed(Ratio(p.n * q.n, p.d * q.d), Negative(p) # Negative(q))
Over(p, q)  == Signed(Ratio(p.n * q.d, p.d * q.n), Negative(p) # Negative(q))

Less(p, q)  == LET g == Gcd(p.d, q.d) IN p.n * (q.d \div g) < q.n * (p.d \div g)
Equal(p, q) == p.n = q.n /\ p.d = q.d

Floor(q) == q.n \div q.d

(* q * 2^k *)
RECURSIVE ldexpl(_, _)
ldexpl(q, k) ==
  IF k = 0 THEN q
  ELSE IF k > 0 THEN ldexpl(IF q.d % 2 = 0 THEN [q EXCEPT !.d = @ \div 2]
                                           ELSE [q EXCEPT !.n = 2 * @], k - 1)
  ELSE ldexpl(IF q.n % 2 = 0 THEN [q EXCEPT !.n = @ \div 2] ELSE [q EXCEPT !.d = 2 * @], k + 1)

(* The exponent that frexpl gives, 1/2 <= q / 2^e < 1 *)
Bits(n)   == CHOOSE e \in 0 .. 30 : n < 2 ^ e /\ (e = 0 \/ n >= 2 ^ (e - 1))
Binade(q) == LET n == Abs(q.n)
             IN  IF n >= q.d THEN Bits(n \div q.d) ELSE 1 - Bits((q.d - 1) \div n)

(* The nearest number of L bits, of two the even one: how the host rounds  *)
LongDouble(q) ==
  IF q.n = 0 THEN q
  ELSE LET e    == Binade(q)
           s    == ldexpl(Size(q), L - e)
           f    == Floor(s)
           rest == 2 * (s.n % s.d)
           m    == IF rest > s.d \/ (rest = s.d /\ f % 2 = 1) THEN f + 1 ELSE f
       IN  ldexpl(Ratio(IF q.n < 0 THEN -m ELSE m, 1), e - L)

Sum(p, q)      == LongDouble(Plus(p, q))
Product(p, q)  == LongDouble(Times(p, q))
Quotient(p, q) == LongDouble(Over(p, q))

(* Halves are rounded away from 0. *)
roundl(q) == LET r == (2 * Abs(q.n) + q.d) \div (2 * q.d) IN IF q.n < 0 THEN -r ELSE r

-----------------------------------------------------------------------------
LeastInt == -(2 ^ (IntBits - 1))

(* The least int has no opposite, and passes for a small one. *)
integer_to_x1(n) ==
  IF n = LeastInt THEN Integer(IntOnes)
  ELSE IF Abs(n) > IntMax THEN Thrown
  ELSE Integer(IF n < 0 THEN IntOnes + n ELSE n)

x1_to_integer(w) == IF w > IntMax THEN w - IntOnes ELSE w

(* Not the code: what follows the mantissa is cut off. *)
MantissaCut(q, e) == Floor(ldexpl(Size(q), P - e))

(* The fraction q / 2^e to P bits, rounded. *)
Mantissa(q, e) == LET s == ldexpl(Size(q), P - e) IN (2 * s.n + s.d) \div (2 * s.d)

RealZero(neg) == Real(IF neg THEN RealOnes ELSE 0)

Underflow(e) == e < EMin

ieee_to_x1(q) ==
  IF q.n = 0 THEN RealZero(q.z)
  ELSE LET e0 == Binade(q)
           m0 == Mantissa(q, e0)
           m  == IF m0 = 2 ^ P THEN m0 \div 2 ELSE m0
           e  == IF m0 = 2 ^ P THEN e0 + 1 ELSE e0
           w  == m * Span + e - EMin
       IN  CASE e > EMax -> Thrown
             [] Underflow(e) -> RealZero(q.n < 0)
             [] OTHER    -> Real(IF q.n < 0 THEN RealOnes - w ELSE w)

x1_to_ieee(w) ==
  LET neg == w > RealOnes \div 2
      v   == IF neg THEN RealOnes - w ELSE w
      m   == v \div Span
      e   == (v % Span) + EMin - P
      q   == ldexpl(Ratio(m, 1), e)
  IN  IF neg THEN Minus(q) ELSE q

Number(c) == IF IsInt(c) THEN Ratio(x1_to_integer(c.v), 1) ELSE x1_to_ieee(c.v)

-----------------------------------------------------------------------------
X1_TRUE == Integer(0)
X1_FALSE == Integer(1)
Boolean(b) == IF b THEN X1_TRUE ELSE X1_FALSE
Truth(c) == c.v = 0

BothInt(a, b) == IsInt(a) /\ IsInt(b)
I(c) == x1_to_integer(c.v)

add(a, b) ==
  IF BothInt(a, b) THEN integer_to_x1(I(a) + I(b)) ELSE ieee_to_x1(Sum(Number(a), Number(b)))

subtract(a, b) ==
  IF BothInt(a, b) THEN integer_to_x1(I(a) - I(b))
  ELSE ieee_to_x1(Sum(Number(a), Minus(Number(b))))

multiply(a, b) ==
  IF BothInt(a, b) /\ Abs(I(a) * I(b)) <= IntMax THEN integer_to_x1(I(a) * I(b))
  ELSE IF BothInt(a, b) THEN ieee_to_x1(Ratio(I(a) * I(b), 1))
  ELSE ieee_to_x1(Product(Number(a), Number(b)))

divide(a, b) ==
  IF Number(b).n = 0 THEN Thrown ELSE ieee_to_x1(Quotient(Number(a), Number(b)))

(* pop_integer takes integers only *)
IDI(a, b) ==
  IF ~ BothInt(a, b) \/ I(b) = 0 THEN Thrown ELSE integer_to_x1(Trunc(I(a), I(b)))

NEG(a) == IF IsInt(a) THEN Integer(IntOnes - a.v) ELSE Real(RealOnes - a.v)

(* Not the code: words are compared. *)
EqualWords(a, b) == IF a.t = b.t THEN a.v = b.v ELSE Equal(Number(a), Number(b))

is_less(a, b)  == Less(Number(a), Number(b))
is_equal(a, b) == Equal(Number(a), Number(b))

(* Not the code: the number is squared before it is used. *)
RECURSIVE IntPowerSquaredFirst(_, _, _)
IntPowerSquaredFirst(x, n, result) ==
  LET s == Wrapped(x * x)
  IN  IF n = 0 THEN result
      ELSE IntPowerSquaredFirst(s, n \div 2, IF n % 2 = 1 THEN Wrapped(result * s) ELSE result)

(* power: by squaring, in int *)
RECURSIVE IntPower(_, _, _)
IntPower(x, n, result) ==
  IF n = 0 THEN result
  ELSE IntPower(Wrapped(x * x), n \div 2, IF n % 2 = 1 THEN Wrapped(result * x) ELSE result)

(* power: in long double; nothing is made of the last square *)
RECURSIVE RealPower(_, _, _)
RealPower(x, n, result) ==
  LET r == IF n % 2 = 1 THEN Product(result, x) ELSE result
  IN  IF n <= 1 THEN r ELSE RealPower(Product(x, x), n \div 2, r)

PowersUndefined(a, i) == i <= 0 /\ Number(a).n = 0

(* exponentiate, for an exponent of type integer *)
exponentiate(a, b) ==
  LET i == I(b)
  IN  IF i > 0
      THEN IF IsInt(a) THEN integer_to_x1(IntPower(I(a), i, 1))
           ELSE ieee_to_x1(RealPower(Number(a), i, Ratio(1, 1)))
      ELSE IF PowersUndefined(a, i) THEN Thrown
      ELSE IF i = 0 THEN IF IsInt(a) THEN Integer(1) ELSE ieee_to_x1(Ratio(1, 1))
      ELSE ieee_to_x1(RealPower(Quotient(Ratio(1, 1), Number(a)), -i, Ratio(1, 1)))

abs(a)  == IF IsInt(a) THEN ieee_to_x1(Ratio(Abs(I(a)), 1))
           ELSE Real(IF a.v > RealOnes \div 2 THEN RealOnes - a.v ELSE a.v)

sign(a) == LET n == Number(a).n
           IN  integer_to_x1(IF n > 0 THEN 1 ELSE IF n < 0 THEN -1 ELSE 0)

(* Not the code: a real number is cut off at the point. *)
EntierCut(a) ==
  IF IsInt(a) THEN a
  ELSE LET q == Number(a)
       IN  IF Less(q, Ratio(-IntMax, 1)) \/ ~ Less(q, Ratio(IntMax + 1, 1)) THEN Thrown
           ELSE integer_to_x1(Trunc(q.n, q.d))

entier(a) ==
  IF IsInt(a) THEN a
  ELSE LET q == Number(a)
       IN  IF Less(q, Ratio(-IntMax, 1)) \/ ~ Less(q, Ratio(IntMax + 1, 1)) THEN Thrown
           ELSE integer_to_x1(Floor(q))

(* Assignment to an integer variable.  Of what int has no room for, (int)  *)
(* makes the least int.                                                    *)
ToInt(n) == IF n = Wrapped(n) THEN n ELSE LeastInt

ST(a) == IF IsInt(a) THEN a ELSE integer_to_x1(ToInt(roundl(Number(a))))

(* Assignment to a real variable: minus zero stays minus zero.             *)
STReal(a) == IF ~ IsInt(a) THEN a
             ELSE IF a.v = IntOnes THEN Real(RealOnes) ELSE ieee_to_x1(Number(a))

-----------------------------------------------------------------------------
(* The numbers there are: every integer, every normalized real, and both   *)
(* zeros of each type.                                                     *)
IntegerWords == 0 .. IntOnes
PlusWords == {m * Span + x : m \in 2 ^ (P - 1) .. 2 ^ P - 1, x \in 0 .. Span - 1}
RealWords == {0, RealOnes} \cup PlusWords \cup {RealOnes - w : w \in PlusWords}

Cells == {Integer(w) : w \in IntegerWords} \cup {Real(w) : w \in RealWords}

Dyadic == {"ADD", "SUB", "MUL", "DIV", "IDI", "TTP", "MOR", "LST", "EQU", "MST", "LES", "UQU",
           "AND", "OR", "IMP", "QVL"}
Monadic == {"NEG", "NON", "abs", "sign", "entier", "ST", "STReal"}

Result(op, a, b) ==
  CASE op = "ADD" -> add(a, b)      [] op = "SUB" -> subtract(a, b)
    [] op = "MUL" -> multiply(a, b) [] op = "DIV" -> divide(a, b)
    [] op = "IDI" -> IDI(a, b)      [] op = "TTP" -> exponentiate(a, b)
    [] op = "MOR" -> Boolean(is_less(b, a))   [] op = "LST" -> Boolean(~ is_less(a, b))
    [] op = "EQU" -> Boolean(is_equal(a, b))  [] op = "MST" -> Boolean(~ is_less(b, a))
    [] op = "LES" -> Boolean(is_less(a, b))   [] op = "UQU" -> Boolean(~ is_equal(a, b))
    [] op = "AND" -> Boolean(Truth(a) /\ Truth(b)) [] op = "OR" -> Boolean(Truth(a) \/ Truth(b))
    [] op = "IMP" -> Boolean(Truth(a) => Truth(b))
    [] op = "QVL" -> Boolean(Truth(a) = Truth(b))

ResultOf(op, a) ==
  CASE op = "NEG" -> NEG(a)   [] op = "NON"  -> Boolean(~ Truth(a))
    [] op = "abs" -> abs(a)   [] op = "sign" -> sign(a)
    [] op = "entier" -> entier(a) [] op = "ST" -> ST(a)
    [] op = "STReal" -> STReal(a)

Init == stack = << >> /\ error = FALSE

Take == Len(stack) < 2 /\ \E c \in Cells : stack' = Append(stack, c) /\ UNCHANGED error

Leaves(r) ==
  IF r = Thrown THEN error' = TRUE /\ UNCHANGED stack
  ELSE stack' = <<r>> /\ UNCHANGED error

(* Exponents are of type integer here, and small. *)
Powers(a, b) ==
  IsInt(b) /\ Abs(I(b)) <= IF IsInt(a) /\ I(b) > 0 THEN MaxPower ELSE MaxRealPower

ApplyDyadic ==
  /\ Len(stack) = 2
  /\ \E op \in Dyadic : (op = "TTP" => Powers(stack[1], stack[2])) /\ Leaves(Result(op, stack[1], stack[2]))

ApplyMonadic == Len(stack) = 1 /\ \E op \in Monadic : Leaves(ResultOf(op, stack[1]))

(* exponentiate with an exponent of type real: the host's exp and ln. *)
RealExponent ==
  /\ Len(stack) = 2 /\ ~ IsInt(stack[2])
  /\ LET a == Number(stack[1])
     IN  IF a.n < 0 \/ (a.n = 0 /\ Number(stack[2]).n <= 0) THEN Leaves(Thrown)
         ELSE IF a.n = 0 THEN Leaves(Real(0))
         ELSE Leaves(Thrown) \/ \E w \in {0} \cup PlusWords : Leaves(Real(w))

(* sqrt, ln, exp, sin, cos and arctan by the functions of the host: any    *)
(* real number, or an error where there is none.                           *)
StandardFunction ==
  /\ Len(stack) = 1
  /\ LET a == Number(stack[1])
     IN  \/ a.n <= 0 /\ Leaves(Thrown)
         \/ \E w \in RealWords : Leaves(Real(w))

Reported == error /\ UNCHANGED vars

Next ==
  \/ ~ error /\ (Take \/ ApplyDyadic \/ ApplyMonadic \/ RealExponent \/ StandardFunction)
  \/ Reported

Spec == Init /\ [][Next]_vars

-----------------------------------------------------------------------------
(* Whatever is computed has the form of a number: reals are normalized.    *)
TypeOK == Len(stack) <= 2 /\ \A i \in DOMAIN stack : stack[i] \in Cells

Values == {x1_to_ieee(w) : w \in RealWords}
Greatest == x1_to_ieee(2 ^ P * Span - 1)
Least == x1_to_ieee(2 ^ (P - 1) * Span)

Distance(p, q) == Size(Plus(p, Minus(q)))

(* Half a unit in the last place beyond the greatest number. *)
OverflowAt == Times(Greatest, Ratio(2 ^ (P + 1) - 1, 2 ^ (P + 1) - 2))

(* How far k roundings to L bits may lead away from q. *)
Deviation(q, k) == Times(Size(q), Ratio(k, 2 ^ L))

(* r is what is left of q after k roundings to L bits and the one to P: no *)
(* real number is nearer to q by more than the former account for.  About  *)
(* the least number there is but 0, and what is too large is an error.     *)
Near(q, k, r) ==
  LET more  == Plus(Size(q), Deviation(q, k))
      fewer == Plus(Size(q), Minus(Deviation(q, k)))
      twice == Times(Ratio(2, 1), Deviation(q, k))
  IN  IF r = Thrown THEN ~ Less(more, OverflowAt)
      ELSE /\ Less(fewer, OverflowAt)
           /\ IF q.n = 0 THEN Number(r).n = 0
              ELSE IF Less(fewer, Least) THEN Number(r).n = 0 \/ Equal(Size(Number(r)), Least)
              ELSE LET d == Distance(Number(r), q)
                   IN  \A x \in Values : ~ Less(Plus(Distance(x, q), twice), d)

Exact(n, r) == IF Abs(n) > IntMax THEN r = Thrown ELSE IsInt(r) /\ I(r) = n

Two == Len(stack) = 2

(* Sums and differences of integers are exact or an error, products of     *)
(* integers exact if they fit and else the nearest real; every other       *)
(* result is the nearest real but for the one rounding of the long double. *)
NearestResult ==
  Two => LET a == stack[1]
             b == stack[2]
             p == Number(a)
             q == Number(b)
         IN  /\ IF BothInt(a, b)
                THEN /\ Exact(I(a) + I(b), add(a, b)) /\ Exact(I(a) - I(b), subtract(a, b))
                     /\ IF Abs(I(a) * I(b)) <= IntMax THEN Exact(I(a) * I(b), multiply(a, b))
                        ELSE ~ IsInt(multiply(a, b)) /\ Near(Times(p, q), 0, multiply(a, b))
                ELSE /\ Near(Plus(p, q), 1, add(a, b)) /\ Near(Plus(p, Minus(q)), 1, subtract(a, b))
                     /\ Near(Times(p, q), 1, multiply(a, b))
             /\ IF q.n = 0 THEN divide(a, b) = Thrown
                ELSE ~ IsInt(divide(a, b)) /\ Near(Over(p, q), 1, divide(a, b))

(* One of a < b, a = b, a > b is true, for numbers of any two types and    *)
(* for zeros of either sign; the other three comparisons are their         *)
(* opposites; and the sign of a difference, where it has not vanished,     *)
(* says the same.                                                          *)
OrderAgrees ==
  Two => LET a == stack[1]
             b == stack[2]
             T(op) == Result(op, a, b) = X1_TRUE
             d == subtract(a, b)
             s == IF d = Thrown THEN 0 ELSE I(sign(d))
         IN  /\ Cardinality({op \in {"LES", "EQU", "MOR"} : T(op)}) = 1
             /\ T("LST") = ~ T("LES") /\ T("MST") = ~ T("MOR") /\ T("UQU") = ~ T("EQU")
             /\ (s = 1 => T("MOR")) /\ (s = -1 => T("LES")) /\ (T("EQU") => s = 0)

RECURSIVE Factors(_, _)
Factors(q, n) == IF n = 0 THEN Ratio(1, 1) ELSE Times(q, Factors(q, n - 1))

(* a to the power i is a x a x ... x a (i times) of the type of a - an     *)
(* error if it is an integer that no word holds - or one divided by it, of *)
(* type real, for negative i, and nothing for 0 to the power 0 or less.    *)
(* Real powers deviate by a rounding for each multiplication, and for each *)
(* time a reciprocal is taken as a factor; integers beyond the host's int  *)
(* are left out.                                                           *)
PowerIsProduct ==
  Two /\ Powers(stack[1], stack[2]) =>
    LET a == stack[1]
        q == Number(a)
        i == I(stack[2])
        r == exponentiate(a, stack[2])
        n == Factors(q, i).n
    IN  CASE i <= 0 /\ q.n = 0     -> r = Thrown
          [] i > 0 /\ IsInt(a)     -> Abs(n) < 2 ^ (IntBits - 1) => Exact(n, r)
          [] i > 0 /\ ~ IsInt(a)   -> Near(Factors(q, i), i - 1, r)
          [] i = 0 /\ q.n # 0      -> r.t = a.t /\ Equal(Number(r), Ratio(1, 1))
          [] i < 0 /\ q.n # 0      -> ~ IsInt(r) /\ Near(Factors(Over(Ratio(1, 1), q), -i), -2 * i - 1, r)

(* exponentiate says of integers a and i: "if i>0: a*a*...*a (i times), of *)
(* the same type as a" - whatever int the product needs on the way.        *)
PowerOfIntegers ==
  Two /\ BothInt(stack[1], stack[2]) =>
    LET i == I(stack[2])
    IN  i \in 1 .. MaxPower => Exact(Factors(Number(stack[1]), i).n, exponentiate(stack[1], stack[2]))

(* entier is the largest integer that is not greater, and assignment to an *)
(* integer variable rounds to the nearest, away from 0 where there are two *)
(* of them - or there is an error if no word has room for it; assignment   *)
(* to a real variable keeps the sign, that of minus zero too.              *)
IntegerOf ==
  stack # << >> =>
    LET q == Number(stack[1])
        Fits(n, r) == IF Abs(n) > IntMax THEN r = Thrown ELSE IsInt(r) /\ I(r) = n
        nearest == IF q.n < 0 THEN -Floor(Plus(Size(q), Ratio(1, 2))) ELSE Floor(Plus(q, Ratio(1, 2)))
    IN  /\ Fits(Floor(q), entier(stack[1])) /\ Fits(nearest, ST(stack[1]))
        /\ Near(q, 0, STReal(stack[1])) /\ (STReal(stack[1]) # Thrown =>
              Negative(Number(STReal(stack[1]))) = (Negative(q) \/ stack[1] = Integer(IntOnes)))
=============================================================================
