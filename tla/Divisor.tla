------------------------------ MODULE Divisor ------------------------------
(***************************************************************************)
(* class Divisor of src/perfect_hash.cc: division of a 32-bit number by a  *)
(* fixed one with a multiplication and a shift.  The builder of a perfect  *)
(* hash reduces hash codes with it; the reader of the stored index uses    *)
(* the plain operator %, so that the two must agree on every code.         *)
(***************************************************************************)
EXTENDS Integers

CONSTANTS
  W,      \* 2^32: the number of values of uint32_t
  Powers  \* the powers of two in 1 .. W-1

\* What the proof needs of binary words: some power of two lies between half
\* of a number and the number, and a number between two consecutive powers of
\* two divides no product of them.
ASSUME WordAssumption ==
  /\ W \in Nat \ {0}
  /\ Powers \subseteq 1 .. W-1
  /\ \A n \in 1 .. W-1 : \E p \in Powers : p <= n /\ n < 2*p
  /\ \A p \in Powers : \A n \in p+1 .. 2*p-1 : (p * W) % n # 0

\* The m of operator=, a power of two: m = 1 << sft_.
Top(n) == CHOOSE p \in Powers : p <= n /\ n < 2*p

\* fac_ when n is no power of two, before it is rounded.
Ratio(n) == (Top(n) * W) \div n

\* "r <= m": whether fac_ is rounded up.
RoundsUp(n) == (Ratio(n) * n + n) % W <= Top(n)

Fac(n) == IF Top(n) = n THEN W - 1
          ELSE IF RoundsUp(n) THEN (Ratio(n) + 1) % W ELSE Ratio(n)

\* Mutant: the rounding is not made up for.
TipAlwaysZero(n) == 0

Tip(n) == IF Top(n) = n THEN W - 1
          ELSE IF RoundsUp(n) THEN 0 ELSE Ratio(n)

\* (fac_ * (uint64_t)m + tip_) >> (32 + sft_)
Div(n, m) == (Fac(n) * m + Tip(n)) \div (W * Top(n))

\* m - val_ * div(m)
Mod(n, m) == m - n * Div(n, m)
=============================================================================
