------------------------------ MODULE Decimals ------------------------------
(***************************************************************************)
(* utils/math.ts: decimal strings and what is computed with them.  A       *)
(* decimal is an exact fraction <<n, d>> in lowest terms with d > 0; the   *)
(* thirty digits of the code's decimals are taken to be enough.            *)
(***************************************************************************)
EXTENDS Integers

LOCAL Size(n) == IF n < 0 THEN -n ELSE n

LOCAL gcd[a \in Nat, b \in Nat] == IF b = 0 THEN a ELSE gcd[b, a % b]

LOCAL Lowest(n, d) == LET g == gcd[Size(n), d] IN <<n \div g, d \div g>>

D(n) == <<n, 1>>
Zero == D(0)

neg(a) == <<-a[1], a[2]>>
abs(a) == <<Size(a[1]), a[2]>>
add(a, b) == Lowest(a[1] * b[2] + b[1] * a[2], a[2] * b[2])
sub(a, b) == add(a, neg(b))
mul(a, b) == Lowest(a[1] * b[1], a[2] * b[2])
div(a, b) == IF b[1] < 0 THEN Lowest(-(a[1] * b[2]), -(a[2] * b[1]))
             ELSE Lowest(a[1] * b[2], a[2] * b[1])

gt(a, b)  == a[1] * b[2] > b[1] * a[2]
lt(a, b)  == gt(b, a)
gte(a, b) == ~lt(a, b)
lte(a, b) == ~gt(a, b)
isZero(a) == a[1] = 0
min(a, b) == IF lt(b, a) THEN b ELSE a
max(a, b) == IF gt(b, a) THEN b ELSE a

\* roundToDecimals with no decimals: towards zero.
roundToDecimals(a) == D(IF a[1] < 0 THEN -(Size(a[1]) \div a[2]) ELSE a[1] \div a[2])
=============================================================================
