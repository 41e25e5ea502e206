---------------------------- MODULE ExtRationals ----------------------------
(***************************************************************************)
(* The numbers of an RRD file.  rrd_value_t is a double; a value is the    *)
(* exact fraction <<n, d>> in lowest terms, without rounding, and d = 0    *)
(* gives the infinities and DNAN.  With this representation the usual      *)
(* rules for fractions give what IEEE arithmetic gives for 0/0, x/0 and    *)
(* any operation on DNAN.  (Infinities are only compared, never added.)    *)
(***************************************************************************)
LOCAL INSTANCE Integers

DNAN == <<0, 0>>
DINF == <<1, 0>>
NegDINF == <<-1, 0>>
Num(n) == <<n, 1>>

Abs(n) == IF n < 0 THEN -n ELSE n
Sign(n) == IF n < 0 THEN -1 ELSE IF n = 0 THEN 0 ELSE 1

Gcd[p \in Nat \X Nat] == IF p[2] = 0 THEN p[1] ELSE Gcd[<<p[2], p[1] % p[2]>>]

Fraction(n, d) ==
    IF d = 0 THEN <<Sign(n), 0>>
    ELSE LET g == Gcd[<<Abs(n), Abs(d)>>]
         IN  <<Sign(d) * (n \div g), Abs(d) \div g>>

IsNan(x) == x = DNAN
Plus(x, y) == Fraction(x[1] * y[2] + y[1] * x[2], x[2] * y[2])
Times(x, y) == Fraction(x[1] * y[1], x[2] * y[2])
Over(x, y) == Fraction(x[1] * y[2], x[2] * y[1])

\* False if one of them is DNAN.
Less(x, y) == x[1] * y[2] < y[1] * x[2]

IfNan(x, y) == IF IsNan(x) THEN y ELSE x
=============================================================================
