----------------------------- MODULE Fractions -----------------------------
(***************************************************************************)
(* Exact arithmetic on fractions in lowest terms, for the quantities that  *)
(* the code keeps as floating-point numbers and divides.                   *)
(***************************************************************************)
EXTENDS Integers, FiniteSetsExt

Fractions == [num : Int, den : Nat \ {0}]

\* Not negative.
Amounts == [num : Nat, den : Nat \ {0}]

Divisors(p, q) == {d \in 1 .. q : p % d = 0 /\ q % d = 0}

Lowest(p, q) ==
    LET d == Max(Divisors(p, q))
    IN  [num |-> p \div d, den |-> q \div d]

Plus(a, b)  == Lowest(a.num * b.den + b.num * a.den, a.den * b.den)
Minus(a, b) == Lowest(a.num * b.den - b.num * a.den, a.den * b.den)
Mult(a, b)  == Lowest(a.num * b.num, a.den * b.den)
Over(a, n)  == Lowest(a.num, a.den * n)
Whole(n)    == [num |-> n, den |-> 1]

\* f is p / q.
IsRatio(f, p, q) == f.num * q = p * f.den
=============================================================================
