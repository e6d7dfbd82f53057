---------------------------- MODULE MCHashLayout ----------------------------
(* Instance of HashLayout for TLC.  Words have 15 bits instead of 32, so   *)
(* that the products of Divisor stay within TLC's integers; the numbers of *)
(* keys are real ones, on both sides of every threshold of the code.       *)
EXTENDS HashLayout

MCPowers == {2^k : k \in 0 .. 14}

MCTotals == 0 .. 40 \union 250 .. 260 \union {1000, 20000}
              \union 65530 .. 65540 \union {70000, 100000}

\* The least and the greatest codes, and codes about the multiples of a
\* section.
MCCodes ==
  {[s \in 0 .. 2 |-> c] : c \in 0 .. 4 \union 9 .. 11 \union 104 .. 106 \union
       26878 .. 26882 \union W-4 .. W-1}
=============================================================================
