---------------------------- MODULE Arithmetic ----------------------------
(***************************************************************************)
(* The arithmetic of the test programs: the sum of a list, and fractions   *)
(* in place of doubles.  Recursion is by recursive functions with a        *)
(* bounded domain, so that what they compute can be proved.                *)
(***************************************************************************)
EXTENDS Integers, Sequences

\* The sum of a sequence, from its first element to its last.
Sum(s) ==
  LET total[i \in 0 .. Len(s)] == IF i = 0 THEN 0 ELSE total[i - 1] + s[i]
  IN  total[Len(s)]

\* Euclid's algorithm.
Gcd(a, b) ==
  LET gcd[p \in Nat \X (0 .. b)] ==
        IF p[2] = 0 THEN p[1] ELSE gcd[<<p[2], p[1] % p[2]>>]
  IN  gcd[<<a, b>>]

\* Num / den in lowest terms, for a natural num.
Frac(num, den) == LET g == Gcd(num, den) IN <<num \div g, den \div g>>
==========================================================================
