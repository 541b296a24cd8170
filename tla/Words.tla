------------------------------- MODULE Words --------------------------------
(***************************************************************************)
(* Numbers written in digits: bytes in a word of memory, bits in a word.   *)
(* The recursions are the loops over the digits in the code.               *)
(***************************************************************************)
EXTENDS Integers

\* b to the power n.
Power(b, n) == LET p[k \in 0..n] == IF k = 0 THEN 1 ELSE b * p[k - 1] IN p[n]

\* The number with the digits d[0] (the lowest) to d[n - 1] in base b.
Digits(b, n, d) ==
  LET from[k \in 0..n] == IF k = n THEN 0 ELSE d[k] + b * from[k + 1] IN from[0]

\* Digit k of v.
Digit(b, v, k) == (v \div Power(b, k)) % b
=============================================================================
