-------------------------- MODULE Compress_proofs --------------------------
(***************************************************************************)
(* For inputs of every length and contents, and every size of literals and *)
(* runs: Compress never writes outside the buffer it reserves, Decompress  *)
(* neither, and the two restore the input or refuse a stream that has lost *)
(* its end.                                                                *)
(*                                                                         *)
(* PackInv is an account of the excess dest - src, the bytes written       *)
(* beyond the bytes consumed.  Only a mark with two literals adds to it,   *)
(* and the first of those has LitCap bytes; the second is as long, or is   *)
(* followed by a run (or the end), whose mark costs nothing.  So a unit of *)
(* excess is paid by 2*LitCap consumed bytes, or ("owed") will be before   *)
(* the next pair of literals.                                              *)
(*                                                                         *)
(* StreamInv says what the bytes mean.  Compress keeps the digits of the   *)
(* length and, for the position of every mark, how much of the input lies  *)
(* before it (ip); Decompress is always at such a position and has         *)
(* restored just that much, so it is at the end of the whole stream if and *)
(* only if it has restored all of the input.                               *)
(***************************************************************************)
EXTENDS Compress, SequenceTheorems, TLAPS

\* The spare bytes: one for each K consumed, rounded up.
K == 2 * LitCap
Excess == dest - src

Paid == K * Excess <= src
Owed == /\ K * Excess <= src + LitCap - 1
        /\ src < Len(input) => input[src+1] \in Filler
Ended == src = Len(input) /\ K * Excess <= src + K - 1

PrefixInv ==
  phase = "prefix" => input \in Seq([byte : Int]) /\ src = 0 /\ dest = 0 /\ high = 0

PackInv ==
  phase = "pack" =>
    /\ Len(input) \in Nat
    /\ src \in 0 .. Len(input) /\ dest \in Nat /\ high \in Nat
    /\ Len(mem) = OutSize(Len(input))
    /\ high <= Len(mem)
    /\ Paid \/ Owed \/ Ended

-----------------------------------------------------------------------------
(* Sequences, whatever their elements are.                                 *)

Listed(s) == Len(s) \in Nat /\ s = [i \in 1 .. Len(s) |-> s[i]]

\* A list is a sequence over any set that holds its elements.
LEMMA ListedSeq ==
  ASSUME NEW s, NEW S, Listed(s), \A i \in 1 .. Len(s) : s[i] \in S
  PROVE  s \in Seq(S)
<1>1. [i \in 1 .. Len(s) |-> s[i]] \in [1 .. Len(s) -> S]
  OBVIOUS
<1>2. s \in [1 .. Len(s) -> S]
  BY <1>1 DEF Listed
<1> QED BY <1>2 DEF Listed

\* A sequence is a list.
LEMMA SeqListed ==
  ASSUME NEW S, NEW s \in Seq(S)
  PROVE  Listed(s)
  BY DEF Listed

\* Append keeps what was there.
LEMMA AppendFacts ==
  ASSUME NEW s, NEW e, Listed(s)
  PROVE  /\ Listed(Append(s, e)) /\ Len(Append(s, e)) = Len(s) + 1
         /\ \A i \in 1 .. Len(s) : Append(s, e)[i] = s[i]
         /\ Append(s, e)[Len(s) + 1] = e
<1> DEFINE S == {s[i] : i \in 1 .. Len(s)} \union {e}
<1>1. (\A i \in 1 .. Len(s) : s[i] \in S) /\ e \in S
  OBVIOUS
<1> HIDE DEF S
<1>2. s \in Seq(S)
  BY <1>1, ListedSeq
<1>3. Append(s, e) \in Seq(S)
  BY <1>1, <1>2
<1>4. Listed(Append(s, e))
  BY <1>3, SeqListed
<1> QED BY <1>1, <1>2, <1>4

\* The elements of a part of a list.
LEMMA SubSeqFacts ==
  ASSUME NEW s, Listed(s), NEW m \in Nat \ {0}, NEW n \in Nat, m <= n + 1, n <= Len(s)
  PROVE  /\ Listed(SubSeq(s, m, n)) /\ Len(SubSeq(s, m, n)) = n - m + 1
         /\ \A i \in 1 .. n - m + 1 : SubSeq(s, m, n)[i] = s[m + i - 1]
<1> DEFINE S == {s[i] : i \in 1 .. Len(s)}
<1>1. \A i \in m .. n : s[i] \in S
  BY DEF Listed
<1> HIDE DEF S
<1>2. /\ SubSeq(s, m, n) \in Seq(S)
      /\ Len(SubSeq(s, m, n)) = n - m + 1
      /\ \A i \in 1 .. n - m + 1 : SubSeq(s, m, n)[i] = s[m + i - 1]
  <2>1. m \in Int /\ n \in Int
    OBVIOUS
  <2>2. /\ SubSeq(s, m, n) \in Seq(S)
        /\ Len(SubSeq(s, m, n)) = IF m <= n THEN n - m + 1 ELSE 0
        /\ \A i \in 1 .. n - m + 1 : SubSeq(s, m, n)[i] = s[m + i - 1]
    BY <1>1, <2>1, SubSeqProperties
  <2> QED BY <2>2
<1> QED BY <1>2, SeqListed

\* The elements of two lists in a row.
LEMMA ConcatFacts ==
  ASSUME NEW s, NEW t, Listed(s), Listed(t)
  PROVE  /\ Listed(s \o t) /\ Len(s \o t) = Len(s) + Len(t)
         /\ \A i \in 1 .. Len(s) : (s \o t)[i] = s[i]
         /\ \A i \in 1 .. Len(t) : (s \o t)[Len(s) + i] = t[i]
<1> DEFINE S == {s[i] : i \in 1 .. Len(s)} \union {t[i] : i \in 1 .. Len(t)}
<1>1. (\A i \in 1 .. Len(s) : s[i] \in S) /\ (\A i \in 1 .. Len(t) : t[i] \in S)
  OBVIOUS
<1> HIDE DEF S
<1>2. s \in Seq(S) /\ t \in Seq(S)
  BY <1>1, ListedSeq
<1>3. /\ s \o t \in Seq(S)
      /\ Len(s \o t) = Len(s) + Len(t)
      /\ \A i \in 1 .. Len(s) + Len(t) :
           (s \o t)[i] = IF i <= Len(s) THEN s[i] ELSE t[i - Len(s)]
  BY <1>2, ConcatProperties
<1>4. Listed(s \o t)
  BY <1>3, SeqListed
<1>5. Len(s) \in Nat /\ Len(t) \in Nat
  BY DEF Listed
<1> QED BY <1>3, <1>4, <1>5

-----------------------------------------------------------------------------
(* Arithmetic.                                                             *)

\* K is a positive integer.
LEMMA KType == K \in Nat \ {0} /\ K = LitCap + LitCap /\ LitCap \in Nat \ {0}
  BY CompressAssumption DEF K

\* Multiplication by a natural number is monotonic.
LEMMA MulMono ==
  ASSUME NEW c \in Nat, NEW a \in Int, NEW b \in Int, a <= b
  PROVE  c * a <= c * b
<1>1. PICK d \in Nat : b = a + d
  <2>1. b - a \in Nat /\ b = a + (b - a)
    OBVIOUS
  <2> QED BY <2>1
<1>2. c * b = c * a + c * d
  BY <1>1
<1>3. c * d \in Nat /\ c * a \in Int
  OBVIOUS
<1> QED BY <1>2, <1>3

\* Multiplication by a successor.
LEMMA MulNext ==
  ASSUME NEW c \in Nat, NEW a \in Int
  PROVE  c * (a + 1) = c * a + c /\ c * (a - 1) = c * a - c /\ c * a \in Int
  OBVIOUS

\* What is paid up to the rounding is within the quotient.
LEMMA QuotBound ==
  ASSUME NEW c \in Nat \ {0}, NEW n \in Nat, NEW q \in Int, c * q <= n
  PROVE  q <= n \div c
<1>1. n = c * (n \div c) + (n % c) /\ n % c \in 0 .. c - 1 /\ n \div c \in Int
  OBVIOUS
<1> DEFINE d == n \div c
<1>2. d \in Int /\ n < c * d + c
  BY <1>1
<1> HIDE DEF d
<1>3. c * (d + 1) = c * d + c /\ c * d \in Int /\ c * q \in Int /\ c * (d+1) \in Int
  BY <1>2
<1>4. CASE q <= d
  BY <1>4 DEF d
<1>5. CASE d + 1 <= q
  <2>1. c * (d + 1) <= c * q
    BY <1>2, <1>5, MulMono
  <2> QED BY <2>1, <1>3, <1>2
<1> QED BY <1>2, <1>4, <1>5

\* Writing into memory does not change its size.
LEMMA PutLen ==
  ASSUME NEW m, NEW at, NEW s, Len(m) \in Nat
  PROVE  Len(Put(m, at, s)) = Len(m)
  BY DEF Put

-----------------------------------------------------------------------------
(* What a pick tells.                                                      *)

\* A literal of fewer than LitCap bytes is followed by a filler or the end;
\* so two literals in a row start with a full one.
LEMMA PickFacts ==
  ASSUME NEW i \in Nat, NEW k \in Nat, Len(input) \in Nat, IsPick(i, k)
  PROVE  /\ i + k <= Len(input)
         /\ input[i+1] \notin Filler =>
              /\ k <= LitCap
              /\ k < LitCap /\ i + k < Len(input) => input[i+k+1] \in Filler
  BY CompressAssumption DEF IsPick

\* A copy reads, and so writes, no more than what is left of the source.
LEMMA CopyBound ==
  ASSUME NEW i \in Nat, NEW l \in Nat, NEW s, Len(s) \in Nat, i + l <= Len(s)
  PROVE  CopyLen(i, l, s) \in Nat /\ i + CopyLen(i, l, s) <= Len(s)
  BY CompressAssumption DEF CopyLen, Fast

\* The spare bytes cover the excess: a pick of literals may use one more, a
\* run none.
LEMMA SpareCovers ==
  ASSUME NEW n \in Nat, NEW s \in 0 .. n, s < n, NEW e \in Int
  PROVE  /\ K * e <= s => e + 1 <= OutSize(n) - n
         /\ K * e <= s + LitCap - 1 => e <= OutSize(n) - n
         /\ OutSize(n) \in Int
<1> DEFINE t == n + K - 1
<1>1. t \in Nat /\ OutSize(n) = n + t \div K /\ t \div K \in Int
  BY KType DEF OutSize, K
<1>2. K \in Nat \ {0} /\ K * (e + 1) = K * e + K /\ K * e \in Int
  BY KType, MulNext
<1>3. ASSUME K * e <= s PROVE e + 1 <= t \div K
  <2>1. K * (e + 1) <= t
    BY <1>2, <1>3
  <2>2. e + 1 \in Int
    OBVIOUS
  <2> HIDE DEF t
  <2> QED BY <2>1, <2>2, <1>1, <1>2, QuotBound
<1>4. ASSUME K * e <= s + LitCap - 1 PROVE e <= t \div K
  <2>1. K * e <= t
    BY <1>2, <1>4, KType
  <2> HIDE DEF t
  <2> QED BY <2>1, <1>1, <1>2, QuotBound
<1> HIDE DEF t
<1> QED BY <1>1, <1>3, <1>4

-----------------------------------------------------------------------------
(* The account.  s and d are src and dest, n the length of the input, k    *)
(* and l what the picks of a round consume.                                *)

\* Two literals: one more excess, paid or owed.
LEMMA TwoLiterals ==
  ASSUME NEW e \in Int, NEW s \in Nat, NEW l \in Nat, l >= 1, K * e <= s,
         NEW s2, s2 = s + LitCap + l
  PROVE  /\ l >= LitCap => K * (e + 1) <= s2
         /\ K * (e + 1) <= s2 + LitCap - 1
<1>1. K * (e + 1) = K * e + K /\ K * e \in Int
  BY KType, MulNext
<1> QED BY <1>1, KType

\* A round with a run: no more excess than before.
LEMMA NoMoreExcess ==
  ASSUME NEW e \in Int, NEW f \in Int, NEW m \in Int, f <= e, K * e <= m
  PROVE  K * f <= m /\ K * f \in Int
<1>1. K * f <= K * e /\ K * e \in Int /\ K * f \in Int
  BY KType, MulMono, MulNext
<1> QED BY <1>1

\* Two runs: a unit of excess less.
LEMMA TwoRuns ==
  ASSUME NEW e \in Int, NEW f \in Int, NEW s \in Nat,
         f <= e - 1, K * e <= s + LitCap - 1
  PROVE  K * f <= s /\ K * f \in Int
<1>1. e - 1 \in Int
  OBVIOUS
<1>2. K * f <= K * (e - 1) /\ K * (e - 1) = K * e - K
      /\ K * e \in Int /\ K * f \in Int
  BY <1>1, KType, MulMono, MulNext
<1> QED BY <1>2, KType

\* A literal at the end: its mark is covered by the rounding.
LEMMA LastLiteral ==
  ASSUME NEW s \in Nat, NEW d \in Nat, NEW k \in Nat, k >= 1, K * (d - s) <= s
  PROVE  K * ((d + 1 + k) - (s + k)) <= s + k + K - 1
<1> DEFINE e == d - s
<1>1. e \in Int /\ (d + 1 + k) - (s + k) = e + 1
  OBVIOUS
<1>2. K * (e + 1) = K * e + K /\ K * e \in Int /\ K * e <= s
  BY <1>1, KType, MulNext
<1> HIDE DEF e
<1> QED BY <1>1, <1>2, KType

-----------------------------------------------------------------------------
(* The rounds.                                                             *)

\* Where another pick follows, the excess is paid or owed, and before a
\* literal it is paid.
LEMMA BeforePick ==
  ASSUME Len(input) \in Nat, src \in 0 .. Len(input), dest \in Nat,
         Paid \/ Owed \/ Ended, src < Len(input)
  PROVE  /\ K * (dest - src) <= src + LitCap - 1
         /\ input[src+1] \notin Filler => K * (dest - src) <= src
<1>1. K * (dest - src) \in Int
  BY KType, MulNext
<1>2. CASE Paid
  BY <1>1, <1>2, KType DEF Paid, Excess
<1>3. CASE Owed
  BY <1>1, <1>3 DEF Owed, Excess
<1>4. CASE Ended
  BY <1>4 DEF Ended
<1> QED BY <1>2, <1>3, <1>4

\* A round with two picks leaves the excess paid or owed.
LEMMA PairAccount ==
  ASSUME Len(input) \in Nat, src \in 0 .. Len(input), dest \in Nat,
         Paid \/ Owed \/ Ended, src < Len(input),
         NEW k \in Nat \ {0}, NEW l \in Nat \ {0}, src + k < Len(input),
         IsPick(src, k), IsPick(src + k, l),
         NEW s2, s2 = src + k + l,
         NEW d2, d2 = dest + 1 + LitLen(src, k) + LitLen(src + k, l)
  PROVE  /\ s2 \in 0 .. Len(input) /\ d2 \in Nat
         /\ \/ K * (d2 - s2) <= s2
            \/ /\ K * (d2 - s2) <= s2 + LitCap - 1
               /\ s2 < Len(input) => input[s2+1] \in Filler
<1> DEFINE y == src + k
<1>1. y \in Nat /\ s2 = y + l /\ s2 <= Len(input) /\ s2 \in Nat /\ src \in Nat
  BY PickFacts
<1>2. LitLen(src, k) \in Nat /\ LitLen(y, l) \in Nat /\ d2 \in Nat
  BY DEF LitLen
<1>3. /\ K * (dest - src) <= src + LitCap - 1
      /\ input[src+1] \notin Filler => K * (dest - src) <= src
  BY BeforePick
<1>4. LitCap \in Nat /\ LitCap >= 1 /\ src + LitCap - 1 \in Int
  BY KType
<1> DEFINE e == dest - src
           f == d2 - s2
<1>e. e \in Int /\ f \in Int /\ K * e <= src + LitCap - 1
      /\ (input[src+1] \notin Filler => K * e <= src)
  BY <1>1, <1>2, <1>3
<1>5. CASE input[src+1] \notin Filler /\ input[y+1] \notin Filler
  <2>1. k = LitCap
    <3>1. k <= LitCap /\ (k < LitCap /\ y < Len(input) => input[y+1] \in Filler)
      BY <1>1, <1>5, PickFacts
    <3> QED BY <3>1, <1>4, <1>5
  <2>2. d2 = dest + 1 + LitCap + l /\ s2 = src + LitCap + l
    BY <1>5, <2>1 DEF LitLen
  <2>3. f = e + 1
    BY <1>1, <2>2, <1>4
  <2> HIDE DEF e, f
  <2>4. /\ l >= LitCap => K * f <= s2
        /\ K * f <= s2 + LitCap - 1
    <3>1. e \in Int /\ src \in Nat /\ l \in Nat /\ l >= 1 /\ K * e <= src
          /\ s2 = src + LitCap + l
      BY <1>1, <1>e, <1>5, <2>2
    <3>2. /\ l >= LitCap => K * (e + 1) <= s2
          /\ K * (e + 1) <= s2 + LitCap - 1
      BY ONLY <3>1, TwoLiterals
    <3> QED BY <3>2, <2>3
  <2>5. l < LitCap /\ s2 < Len(input) => input[s2+1] \in Filler
    BY <1>1, <1>5, PickFacts
  <2> QED BY <1>1, <1>2, <1>4, <2>4, <2>5 DEF f
<1>6. CASE input[src+1] \notin Filler /\ input[y+1] \in Filler
  <2>1. d2 = dest + 1 + k
    BY <1>6 DEF LitLen
  <2>2. f <= e
    BY <1>1, <2>1
  <2> HIDE DEF e, f
  <2>3. K * f <= src /\ K * f \in Int
    BY <1>1, <1>e, <1>6, <2>2, NoMoreExcess
  <2>4. K * f <= s2
    BY <1>1, <2>3
  <2> QED BY <1>1, <1>2, <2>4 DEF f
<1>7. CASE input[src+1] \in Filler /\ input[y+1] \notin Filler
  <2>1. d2 = dest + 1 + l
    BY <1>7 DEF LitLen
  <2>2. f <= e
    BY <1>1, <2>1
  <2> HIDE DEF e, f
  <2>3. K * f <= src + LitCap - 1 /\ K * f \in Int
    BY <1>1, <1>e, <1>4, <2>2, NoMoreExcess
  <2>4. l < LitCap /\ s2 < Len(input) => input[s2+1] \in Filler
    BY <1>1, <1>7, PickFacts
  <2>5. (l >= LitCap => K * f <= s2) /\ K * f <= s2 + LitCap - 1
    BY <1>1, <1>4, <2>3
  <2> QED BY <1>1, <1>2, <1>4, <2>4, <2>5 DEF f
<1>8. CASE input[src+1] \in Filler /\ input[y+1] \in Filler
  <2>1. d2 = dest + 1
    BY <1>8 DEF LitLen
  <2>2. f <= e - 1
    BY <1>1, <2>1
  <2> HIDE DEF e, f
  <2>3. K * f <= src /\ K * f \in Int
    BY <1>1, <1>e, <2>2, TwoRuns
  <2>4. K * f <= s2
    BY <1>1, <2>3
  <2> QED BY <1>1, <1>2, <2>4 DEF f
<1> QED BY <1>5, <1>6, <1>7, <1>8

\* All that a round with two picks writes is inside.
LEMMA PairInside ==
  ASSUME Len(input) \in Nat, src \in 0 .. Len(input), dest \in Nat,
         Paid \/ Owed \/ Ended, src < Len(input),
         NEW k \in Nat \ {0}, NEW l \in Nat \ {0}, src + k < Len(input),
         IsPick(src, k), IsPick(src + k, l)
  PROVE  LET a == LitLen(src, k)
             b == LitLen(src + k, l)
             ca == CopyLen(src, a, input)
             cb == CopyLen(src + k, b, input)
         IN /\ ca \in Nat /\ cb \in Nat /\ a \in Nat
            /\ dest + 1 + ca <= OutSize(Len(input))
            /\ dest + 1 + a + cb <= OutSize(Len(input))
<1> DEFINE n == Len(input)
           y == src + k
           e == dest - src
           a == LitLen(src, k)
           b == LitLen(y, l)
           ca == CopyLen(src, a, input)
           cb == CopyLen(y, b, input)
           Out == OutSize(n)
<1>1. /\ K * e <= src + LitCap - 1
      /\ input[src+1] \notin Filler => K * e <= src
  BY BeforePick
<1>2. /\ input[src+1] \notin Filler => e + 1 <= Out - n
      /\ e <= Out - n
      /\ Out \in Int
  BY <1>1, SpareCovers
<1>3. a \in Nat /\ b \in Nat /\ src + a <= n /\ y + b <= n
  BY PickFacts DEF LitLen
<1>4. ca \in Nat /\ cb \in Nat /\ src + ca <= n /\ y + cb <= n
  BY <1>3, CopyBound
<1>5. CASE input[src+1] \notin Filler
  <2>1. a = k
    BY <1>5 DEF LitLen
  <2>2. dest + 1 + ca <= Out /\ dest + 1 + a + cb <= Out
    <3> HIDE DEF a, b, ca, cb, Out
    <3> QED BY <1>2, <1>3, <1>4, <1>5, <2>1
  <2> QED BY <1>3, <1>4, <2>2
<1>6. CASE input[src+1] \in Filler
  <2>1. a = 0 /\ ca = 0
    BY <1>6 DEF LitLen, CopyLen
  <2>2. dest + 1 + ca <= Out /\ dest + 1 + a + cb <= Out
    <3> HIDE DEF a, b, ca, cb, Out
    <3> QED BY <1>2, <1>3, <1>4, <1>6, <2>1
  <2> QED BY <1>3, <1>4, <2>2
<1> QED BY <1>5, <1>6

\* The last round, with one pick: inside, and the excess within the rounding.
LEMMA LastAccount ==
  ASSUME Len(input) \in Nat, src \in 0 .. Len(input), dest \in Nat,
         Paid \/ Owed \/ Ended, src < Len(input),
         NEW k \in Nat \ {0}, src + k = Len(input), IsPick(src, k),
         NEW d2, d2 = dest + 1 + LitLen(src, k)
  PROVE  LET ca == CopyLen(src, LitLen(src, k), input)
         IN /\ ca \in Nat /\ d2 \in Nat
            /\ dest + 1 + ca <= OutSize(Len(input))
            /\ K * (d2 - Len(input)) <= Len(input) + K - 1
<1> DEFINE n == Len(input)
           a == LitLen(src, k)
           ca == CopyLen(src, a, input)
           e == dest - src
           f == d2 - n
           Out == OutSize(n)
<1>1. /\ K * e <= src + LitCap - 1
      /\ input[src+1] \notin Filler => K * e <= src
  BY BeforePick
<1>2. /\ input[src+1] \notin Filler => e + 1 <= Out - n
      /\ e <= Out - n
      /\ Out \in Int
  BY <1>1, SpareCovers
<1>3. a \in Nat /\ src + a <= n
  BY DEF LitLen
<1>4. ca \in Nat /\ src + ca <= n
  BY <1>3, CopyBound
<1>5. e \in Int /\ f \in Int /\ d2 \in Nat /\ src \in Nat /\ K \in Nat /\ src + LitCap - 1 \in Int
  BY <1>3, KType
<1>6. CASE input[src+1] \notin Filler
  <2>1. a = k /\ f = e + 1
    BY <1>6 DEF LitLen
  <2>2. K * (e + 1) = K * e + K /\ K * e \in Int
    BY KType, MulNext, <1>5
  <2>3. K * (e + 1) <= n + K - 1
    BY <1>1, <1>5, <1>6, <2>2
  <2>4. dest + 1 + ca <= Out
    BY <1>2, <1>4, <1>6
  <2> HIDE DEF e, f, ca, Out
  <2> QED BY <1>4, <1>5, <2>1, <2>3, <2>4 DEF f, ca, Out
<1>7. CASE input[src+1] \in Filler
  <2>1. a = 0 /\ ca = 0 /\ f <= e
    BY <1>7 DEF LitLen, CopyLen
  <2>2. dest + 1 + ca <= Out
    BY <1>2, <2>1
  <2>3. K * f <= src + LitCap - 1 /\ K * f \in Int
    <3> HIDE DEF e, f
    <3> QED BY <1>1, <1>5, <2>1, NoMoreExcess
  <2>4. K * f <= n + K - 1
    <3> HIDE DEF f
    <3> QED BY <2>3, KType
  <2> HIDE DEF e, f, ca, Out
  <2> QED BY <1>4, <1>5, <2>2, <2>4 DEF f, ca, Out
<1> QED BY <1>6, <1>7

-----------------------------------------------------------------------------
(* The theorem.                                                            *)

\* The input is a sequence of bytes.
LEMMA InputBytes == Init => input \in Seq([byte : Int])
<1> SUFFICES ASSUME Init PROVE input \in Seq([byte : Int])
  OBVIOUS
<1>1. PICK n \in Nat : input \in Inputs(n)
  BY CompressAssumption DEF Init
<1>2. PICK g \in [1 .. n -> {-1, 0, 1}] :
        input = [i \in 1 .. n |-> IF g[i] = 1 THEN Literal(i) ELSE [byte |-> g[i]]]
  BY <1>1 DEF Inputs
<1>3. input \in [1 .. n -> [byte : Int]]
  BY <1>2 DEF Literal
<1>4. Listed(input) /\ \A i \in 1 .. Len(input) : input[i] \in [byte : Int]
  BY <1>2, <1>3 DEF Listed
<1> QED BY <1>4, ListedSeq

\* Nothing is written at first, nor while the prefix is.
LEMMA InitPackInv == Init => PrefixInv /\ PackInv
  BY InputBytes DEF Init, PrefixInv, PackInv

\* The resize behind the prefix.
LEMMA PrefixLastInv == PrefixInv /\ PrefixLast => PackInv'
<1> SUFFICES ASSUME PrefixInv, PrefixLast PROVE PackInv'
  OBVIOUS
<1>1. /\ input \in Seq([byte : Int]) /\ src = 0 /\ dest = 0 /\ high = 0
      /\ input' = input /\ src' = src /\ dest' = dest /\ high' = high
      /\ mem' = [i \in 1 .. OutSize(Len(input)) |-> Zero]
  BY DEF PrefixInv, PrefixLast
<1>2. Len(input) \in Nat /\ Len(input') = Len(input)
  BY <1>1
<1>3. OutSize(Len(input)) \in Nat
  <2>1. \A n \in Nat : OutSize(n) \in Nat
    BY CompressAssumption DEF OutSize
  <2> QED BY <1>2, <2>1
<1>4. Len(mem') = OutSize(Len(input))
  BY <1>1, <1>3
<1>5. Paid'
  <2>1. src' = 0 /\ dest' = 0 /\ K \in Nat
    BY <1>1, KType
  <2> QED BY <2>1 DEF Paid, Excess, K
<1> QED BY <1>1, <1>2, <1>3, <1>4, <1>5 DEF PackInv, OutSize

\* A round with two picks keeps the invariant.
LEMMA PackPairInv == PackInv /\ PackPair => PackInv'
<1> SUFFICES ASSUME PackInv, PackPair PROVE PackInv'
  OBVIOUS
<1>1. /\ Len(input) \in Nat /\ src \in 0 .. Len(input) /\ dest \in Nat
      /\ high \in Nat /\ Len(mem) = OutSize(Len(input)) /\ high <= Len(mem)
      /\ Paid \/ Owed \/ Ended
      /\ src < Len(input) /\ input' = input
  BY DEF PackInv, PackPair
<1>2. PICK k \in Nat \ {0}, l \in Nat \ {0} :
        LET y == src + k
            a == LitLen(src, k)
            b == LitLen(y, l)
            mark == [lo |-> Picked(src, k), hi |-> Picked(y, l)]
            ca == CopyLen(src, a, input)
            cb == CopyLen(y, b, input)
            at == dest + 1
            one == Put(Put(mem, dest, <<mark>>), at, SubSeq(input, src + 1, src + ca))
        IN /\ IsPick(src, k) /\ y < Len(input) /\ IsPick(y, l)
           /\ mem' = Put(one, at + a, SubSeq(input, y + 1, y + cb))
           /\ src' = y + l
           /\ dest' = at + a + b
           /\ high' = Higher(high, Higher(at + ca, at + a + cb))
  <2>1. Higher(LitCap, RunCap) \in Nat
    BY CompressAssumption DEF Higher
  <2>2. \A x \in 1 .. Higher(LitCap, RunCap) : x \in Nat \ {0}
    BY <2>1
  <2> QED BY <2>2, Zenon DEF PackPair
<1> DEFINE a == LitLen(src, k)
           b == LitLen(src + k, l)
           ca == CopyLen(src, a, input)
           cb == CopyLen(src + k, b, input)
<1>3. Len(mem) \in Nat
  <2>1. \A n \in Nat : OutSize(n) \in Nat
    BY CompressAssumption DEF OutSize
  <2> QED BY <1>1, <2>1
<1>4. Len(mem') = Len(mem)
  BY <1>2, <1>3, PutLen
<1>5. /\ ca \in Nat /\ cb \in Nat /\ a \in Nat
      /\ dest + 1 + ca <= Len(mem) /\ dest + 1 + a + cb <= Len(mem)
  BY <1>1, <1>2, PairInside
<1>6. PICK h : h = high' /\ h \in Nat /\ h <= Len(mem)
  <2> DEFINE u == dest + 1 + ca
             v == dest + 1 + a + cb
  <2>1. u \in Nat /\ v \in Nat /\ u <= Len(mem) /\ v <= Len(mem)
    BY <1>1, <1>5
  <2>2. high' = Higher(high, Higher(u, v))
    BY <1>2
  <2> HIDE DEF u, v
  <2> QED BY <1>1, <2>1, <2>2 DEF Higher
<1>7. PICK s2, d2 : /\ s2 = src' /\ d2 = dest'
                    /\ s2 = src + k + l
                    /\ d2 = dest + 1 + LitLen(src, k) + LitLen(src + k, l)
  BY <1>2
<1>8. /\ s2 \in 0 .. Len(input) /\ d2 \in Nat
      /\ \/ K * (d2 - s2) <= s2
         \/ /\ K * (d2 - s2) <= s2 + LitCap - 1
            /\ s2 < Len(input) => input[s2+1] \in Filler
  BY <1>1, <1>2, <1>7, PairAccount
<1>9. (Paid \/ Owed)'
  BY <1>1, <1>7, <1>8 DEF Paid, Owed, Excess, K, Filler, Zero, Ones
<1>10. /\ Len(input') \in Nat /\ src' \in 0 .. Len(input') /\ dest' \in Nat
       /\ high' \in Nat /\ Len(mem') = OutSize(Len(input')) /\ high' <= Len(mem')
  BY <1>1, <1>4, <1>6, <1>7, <1>8
<1> QED BY <1>9, <1>10 DEF PackInv

\* The last round keeps the invariant.
LEMMA PackLastInv == PackInv /\ PackLast => PackInv'
<1> SUFFICES ASSUME PackInv, PackLast PROVE PackInv'
  OBVIOUS
<1>1. /\ Len(input) \in Nat /\ src \in 0 .. Len(input) /\ dest \in Nat
      /\ high \in Nat /\ Len(mem) = OutSize(Len(input)) /\ high <= Len(mem)
      /\ Paid \/ Owed \/ Ended
      /\ src < Len(input) /\ input' = input
  BY DEF PackInv, PackLast
<1>2. PICK k \in Nat \ {0} :
        LET a == LitLen(src, k)
            ca == CopyLen(src, a, input)
            mark == [lo |-> Picked(src, k), hi |-> NoNibble]
        IN /\ IsPick(src, k) /\ src + k = Len(input)
           /\ mem' = Put(Put(mem, dest, <<mark>>), dest + 1,
                         SubSeq(input, src + 1, src + ca))
           /\ src' = src + k
           /\ dest' = dest + 1 + a
           /\ high' = Higher(high, dest + 1 + ca)
  <2>1. Higher(LitCap, RunCap) \in Nat
    BY CompressAssumption DEF Higher
  <2> QED BY <2>1 DEF PackLast
<1> DEFINE ca == CopyLen(src, LitLen(src, k), input)
<1>3. Len(mem) \in Nat
  <2>1. \A n \in Nat : OutSize(n) \in Nat
    BY CompressAssumption DEF OutSize
  <2> QED BY <1>1, <2>1
<1>4. Len(mem') = Len(mem)
  BY <1>2, <1>3, PutLen
<1>5. PICK d2 : d2 = dest' /\ d2 = dest + 1 + LitLen(src, k)
  BY <1>2
<1>6. /\ ca \in Nat /\ d2 \in Nat /\ dest + 1 + ca <= Len(mem)
      /\ K * (d2 - Len(input)) <= Len(input) + K - 1
  BY <1>1, <1>2, <1>5, LastAccount
<1>7. PICK h : h = high' /\ h \in Nat /\ h <= Len(mem)
  <2> DEFINE u == dest + 1 + ca
  <2>1. u \in Nat /\ u <= Len(mem) /\ high' = Higher(high, u)
    BY <1>1, <1>2, <1>6
  <2> HIDE DEF u
  <2> QED BY <1>1, <2>1 DEF Higher
<1>8. src' = Len(input)
  BY <1>2
<1>9. Ended'
  BY <1>1, <1>5, <1>6, <1>8 DEF Ended, Excess, K
<1>10. /\ Len(input') \in Nat /\ src' \in 0 .. Len(input') /\ dest' \in Nat
       /\ high' \in Nat /\ Len(mem') = OutSize(Len(input')) /\ high' <= Len(mem')
  BY <1>1, <1>4, <1>5, <1>6, <1>7, <1>8
<1> QED BY <1>9, <1>10 DEF PackInv

\* Every step keeps the invariant: the others leave "pack" or change nothing.
LEMMA NextPackInv == PrefixInv /\ PackInv /\ [Next]_vars => PrefixInv' /\ PackInv'
<1> SUFFICES ASSUME PrefixInv, PackInv, [Next]_vars PROVE PrefixInv' /\ PackInv'
  OBVIOUS
<1>1. CASE PackPair
  BY <1>1, PackPairInv DEF PackPair, PrefixInv
<1>2. CASE PackLast
  BY <1>2, PackLastInv DEF PackLast, PrefixInv
<1>3. CASE \/ PackNothing \/ PackDone \/ Deliver \/ ParseDigit \/ ParseFails
           \/ UnpackMark \/ UnpackDone
  <2>1. phase' # "pack" /\ phase' # "prefix"
    BY <1>3 DEF PackNothing, PackDone, Deliver, ParseDigit, ParseFails, UnpackMark,
                UnpackDone, Return
  <2> QED BY <2>1 DEF PackInv, PrefixInv
<1>4. CASE PrefixDigit
  BY <1>4 DEF PrefixDigit, PrefixInv, PackInv
<1>5. CASE PrefixLast
  <2>1. phase' = "pack"
    BY <1>5 DEF PrefixLast
  <2> QED BY <1>5, <2>1, PrefixLastInv DEF PrefixInv
<1>6. CASE Finished \/ UNCHANGED vars
  BY <1>6 DEF Finished, vars, PrefixInv, PackInv, Paid, Owed, Ended, Excess
<1> QED BY <1>1, <1>2, <1>3, <1>4, <1>5, <1>6 DEF Next

\* Compress never writes outside len + (len+13)/14 bytes, for inputs of every
\* length and contents: neither its marks and literals nor its word copies.
THEOREM PackingInside == Spec => []PackStaysInside
<1>1. PackInv => PackStaysInside
  BY DEF PackInv, PackStaysInside
<1> QED BY <1>1, InitPackInv, NextPackInv, PTL DEF Spec

-----------------------------------------------------------------------------
(* What Compress has written.  The digits of the length: r[j] is what is   *)
(* left of it after j of them.                                             *)

Digits(s, k, r) ==
  /\ k \in Nat /\ r \in [0 .. k -> Nat] /\ r[0] = Len(input)
  /\ \A j \in 1 .. k : s[j].digit = r[j-1] % Base /\ r[j] = r[j-1] \div Base

(* They are all of it if the length is an unsigned.                        *)

Header(s, k, r) ==
  /\ k \in Nat /\ k >= 1
  /\ \A j \in 1 .. k : s[j].digit \in Nat
  /\ \A j \in 1 .. k - 1 : s[j].more = TRUE
  /\ s[k].more = FALSE
  /\ Len(input) < Word =>
       Digits(s, k, r) /\ r[k] = 0 /\ \A j \in 0 .. k - 1 : r[j] >= 1

(* A nibble stands for the bytes of the input behind the first x; literals *)
(* lie behind the first c bytes of s.                                      *)

Lits(nib) == IF nib.run THEN 0 ELSE nib.len

Stands(nib, x) ==
  /\ nib.run \in BOOLEAN /\ nib.len \in Nat /\ x + nib.len <= Len(input)
  /\ nib.run => nib.len <= RunCap /\ \A i \in 1 .. nib.len : input[x+i] = nib.fill
  /\ ~nib.run => nib.len <= LitCap

Follow(s, c, nib, x) == ~nib.run => \A i \in 1 .. nib.len : s[c+i] = input[x+i]

(* The mark at p, counted behind the first off bytes of s, leads from x to *)
(* y in the input, and the next mark is at q.                              *)

Group(s, off, p, x, q, y) ==
  LET lo == s[off+p].lo
      hi == s[off+p].hi
  IN  /\ Stands(lo, x) /\ Follow(s, off + p, lo, x)
      /\ Stands(hi, x + lo.len) /\ Follow(s, off + p + Lits(lo), hi, x + lo.len)
      /\ q = p + 1 + Lits(lo) + Lits(hi)
      /\ y = x + lo.len + hi.len

(* The marks are where ip is defined, and lead to n behind the last byte.  *)

Body(s, off, ip, end, n) ==
  /\ end \in Nat /\ n \in Nat
  /\ DOMAIN ip \subseteq 1 .. end + 1 /\ ip \in [DOMAIN ip -> Nat]
  /\ 1 \in DOMAIN ip /\ ip[1] = 0
  /\ end + 1 \in DOMAIN ip /\ ip[end+1] = n
  /\ \A p \in DOMAIN ip \ {end + 1} :
       ip[p] < n /\ \E q \in DOMAIN ip : Group(s, off, p, ip[p], q, ip[q])

Whole(s, k, r, ip, end) ==
  Header(s, k, r) /\ Body(s, k, ip, end, Len(input)) /\ Len(s) = k + end

(* Decompress has the bytes of full that are left.                         *)

Received(full) ==
  /\ Len(stream) <= Len(full)
  /\ \A i \in 1 .. Len(stream) : stream[i] = full[i]
  /\ lost <=> Len(stream) < Len(full)

-----------------------------------------------------------------------------
(* The inductive invariant, by phases.                                     *)

PrefixPart ==
  /\ \E r : /\ Digits(stream, Len(stream), r) /\ r[Len(stream)] = size
            /\ input # <<>> => \A j \in 0 .. Len(stream) : r[j] >= 1
  /\ size <= Len(input)
  /\ \A j \in 1 .. Len(stream) : stream[j].more = TRUE
  /\ input = <<>> => size = 0 /\ stream = <<>>

PackPart ==
  /\ Listed(mem)
  /\ \E r : Header(stream, Len(stream), r)
  /\ \E ip : Body(mem, 0, ip, dest, src)

PackedPart ==
  IF stream = <<>> THEN input = <<>>
  ELSE \E k, r, ip, end : Whole(stream, k, r, ip, end)

SizeRead(k, r) ==
  /\ src \in 0 .. k - 1 /\ size \in Nat /\ scale \in Nat \ {0}
  /\ dest = 0 /\ high = 0
  /\ Len(input) < Word => Len(input) = size + scale * r[src]

SizePart ==
  \E full, k, r, ip, end :
    Whole(full, k, r, ip, end) /\ Received(full) /\ SizeRead(k, r)

NoWrap == size + Fast <= Word

Unpacked(k, ip) ==
  /\ src \in Nat /\ src >= k /\ src <= Len(stream)
  /\ src - k + 1 \in DOMAIN ip /\ dest = ip[src-k+1]
  /\ size \in Nat /\ dest <= size /\ high \in Nat
  /\ Fits => size = Len(input)
  /\ Len(mem) = Room(size)
  /\ NoWrap => high <= size + Fast - 1 /\ \A i \in 1 .. dest : mem[i] = input[i]

UnpackPart ==
  \E full, k, r, ip, end :
    Whole(full, k, r, ip, end) /\ Received(full) /\ Unpacked(k, ip)

StreamInv ==
  /\ input \in Seq([byte : Int]) /\ Listed(stream) /\ lost \in BOOLEAN
  /\ phase = "prefix" => PrefixPart
  /\ phase = "pack" => PackPart
  /\ phase = "packed" => PackedPart
  /\ phase = "size" => SizePart
  /\ phase = "unpack" => UnpackPart
  /\ RoundTrip

-----------------------------------------------------------------------------
(* Lemmas about the parts.                                                 *)

\* Quotient and remainder.
LEMMA DivMod ==
  ASSUME NEW a \in Nat, NEW b \in Nat \ {0}
  PROVE  a = b * (a \div b) + (a % b) /\ a % b \in 0 .. b - 1 /\ a \div b \in Nat
<1>1. a = b * (a \div b) + (a % b) /\ a % b \in 0 .. b - 1 /\ a \div b \in Int
  OBVIOUS
<1>2. b * 0 <= a /\ 0 \in Int
  OBVIOUS
<1>3. 0 <= a \div b
  BY <1>2, QuotBound
<1> QED BY <1>1, <1>3

\* A remainder that needs no reduction.
LEMMA SmallMod ==
  ASSUME NEW x \in Nat, NEW w \in Nat \ {0}, x < w
  PROVE  x % w = x
<1>1. PICK q \in Nat, u \in Nat : q = x \div w /\ u = x % w /\ x = w * q + u
  <2>1. x = w * (x \div w) + (x % w) /\ x % w \in 0 .. w - 1 /\ x \div w \in Nat
    BY DivMod
  <2>2. x % w \in Nat
    BY <2>1
  <2> QED BY <2>1, <2>2, Zenon
<1>2. CASE q >= 1
  <2>1. w * 1 <= w * q /\ w * q \in Nat
    BY <1>2, MulMono
  <2> QED BY <1>1, <2>1
<1>3. CASE q = 0
  BY <1>1, <1>3
<1> QED BY <1>2, <1>3

\* A remainder is no larger than the number.
LEMMA ModBelow ==
  ASSUME NEW x \in Nat, NEW w \in Nat \ {0}
  PROVE  x % w <= x /\ x % w \in Nat
<1>1. x = w * (x \div w) + (x % w) /\ x % w \in 0 .. w - 1 /\ x \div w \in Nat
  BY DivMod
<1>2. PICK q \in Nat : q = x \div w
  BY <1>1
<1>3. w * q \in Nat
  OBVIOUS
<1> QED BY <1>1, <1>2, <1>3

\* A quotient neither.
LEMMA DivBelow ==
  ASSUME NEW x \in Nat, NEW w \in Nat \ {0}
  PROVE  x \div w <= x /\ x \div w \in Nat
<1>1. x = w * (x \div w) + (x % w) /\ x % w \in 0 .. w - 1 /\ x \div w \in Nat
  BY DivMod
<1>2. PICK q \in Nat : q = x \div w
  BY <1>1
<1>3. q * 1 <= q * w /\ q * w = w * q /\ w * q \in Nat
  BY MulMono
<1> QED BY <1>1, <1>2, <1>3

\* What a write leaves and what it brings.
LEMMA PutFacts ==
  ASSUME NEW m, Len(m) \in Nat, NEW at \in Nat, NEW s, Len(s) \in Nat
  PROVE  /\ Listed(Put(m, at, s)) /\ Len(Put(m, at, s)) = Len(m)
         /\ \A i \in 1 .. Len(m) : i <= at => Put(m, at, s)[i] = m[i]
         /\ \A i \in 1 .. Len(s) : at + i <= Len(m) => Put(m, at, s)[at+i] = s[i]
<1>1. Len(Put(m, at, s)) = Len(m)
  BY PutLen
<1>2. Listed(Put(m, at, s))
  BY <1>1 DEF Listed, Put
<1> QED BY <1>1, <1>2 DEF Put

(* The e bytes behind the first b of t are those behind the first a of s.  *)

Agree(t, b, s, a, e) ==
  /\ a \in Nat /\ b \in Nat /\ e \in Nat
  /\ \A i \in 1 .. e : t[b+i] = s[a+i]

\* A group depends on the bytes between its ends only.
LEMMA GroupSame ==
  ASSUME NEW s, NEW t, NEW a, NEW b, NEW e, Agree(t, b, s, a, e),
         NEW p \in 1 .. e, NEW q \in 1 .. e + 1, NEW x \in Nat, NEW y,
         Group(s, a, p, x, q, y)
  PROVE  Group(t, b, p, x, q, y)
<1>0. /\ a \in Nat /\ b \in Nat /\ e \in Nat
      /\ \A i \in 1 .. e : t[b+i] = s[a+i]
  BY DEF Agree
<1>1. PICK lo, hi : lo = s[a+p].lo /\ hi = s[a+p].hi
  OBVIOUS
<1>2. /\ Stands(lo, x) /\ Follow(s, a + p, lo, x)
      /\ Stands(hi, x + lo.len) /\ Follow(s, a + p + Lits(lo), hi, x + lo.len)
      /\ q = p + 1 + Lits(lo) + Lits(hi) /\ y = x + lo.len + hi.len
  BY <1>1 DEF Group
<1>3. lo.len \in Nat /\ hi.len \in Nat
  BY <1>2 DEF Stands
<1>4. PICK u, v : u = Lits(lo) /\ v = Lits(hi) /\ u \in Nat /\ v \in Nat
                  /\ (~lo.run => u = lo.len) /\ (~hi.run => v = hi.len)
  BY <1>3 DEF Lits
<1>5. t[b+p] = s[a+p]
  BY <1>0
<1>6. Follow(t, b + p, lo, x)
  <2> SUFFICES ASSUME ~lo.run, NEW i \in 1 .. lo.len PROVE t[b+p+i] = input[x+i]
    BY DEF Follow
  <2>1. s[a+p+i] = input[x+i]
    BY <1>2 DEF Follow
  <2>2. i \in Nat /\ p + i \in 1 .. e
    BY <1>0, <1>2, <1>3, <1>4
  <2>3. t[b+(p+i)] = s[a+(p+i)]
    BY <1>0, <2>2
  <2>4. b + (p + i) = b + p + i /\ a + (p + i) = a + p + i
    BY <1>0, <2>2
  <2> QED BY <2>1, <2>3, <2>4
<1>7. Follow(t, b + p + u, hi, x + lo.len)
  <2> SUFFICES ASSUME ~hi.run, NEW i \in 1 .. hi.len PROVE t[b+p+u+i] = input[x+lo.len+i]
    BY DEF Follow
  <2>1. s[a+p+u+i] = input[x+lo.len+i]
    BY <1>2, <1>4 DEF Follow
  <2>2. i \in Nat /\ p + u + i \in 1 .. e
    BY <1>0, <1>2, <1>3, <1>4
  <2>3. t[b+(p+u+i)] = s[a+(p+u+i)]
    BY <1>0, <2>2
  <2>4. b + (p + u + i) = b + p + u + i /\ a + (p + u + i) = a + p + u + i
    BY <1>0, <1>4, <2>2
  <2> QED BY <2>1, <2>3, <2>4
<1> QED BY <1>1, <1>2, <1>4, <1>5, <1>6, <1>7 DEF Group

\* One more mark.
LEMMA BodyGrows ==
  ASSUME NEW m, NEW t, NEW ip, NEW d, NEW s, Body(m, 0, ip, d, s),
         NEW e \in Nat, NEW n \in Nat, d < e, s < n,
         \A i \in 1 .. d : t[i] = m[i],
         Group(t, 0, d + 1, s, e + 1, n)
  PROVE  \E jp : Body(t, 0, jp, e, n)
<1> DEFINE jp == [p \in DOMAIN ip \union {e + 1} |-> IF p = e + 1 THEN n ELSE ip[p]]
<1>1. /\ d \in Nat /\ s \in Nat /\ DOMAIN ip \subseteq 1 .. d + 1 /\ ip \in [DOMAIN ip -> Nat]
      /\ 1 \in DOMAIN ip /\ ip[1] = 0 /\ d + 1 \in DOMAIN ip /\ ip[d+1] = s
  BY DEF Body
<1>2. /\ DOMAIN jp = DOMAIN ip \union {e + 1} /\ jp[e+1] = n
      /\ \A p \in DOMAIN ip : jp[p] = ip[p] /\ p # e + 1
  BY <1>1
<1>3. /\ DOMAIN jp \subseteq 1 .. e + 1 /\ jp \in [DOMAIN jp -> Nat]
      /\ 1 \in DOMAIN jp /\ jp[1] = 0 /\ e + 1 \in DOMAIN jp
  BY <1>1, <1>2
<1> HIDE DEF jp
<1>4. ASSUME NEW p \in DOMAIN jp \ {e + 1}
      PROVE  jp[p] < n /\ \E q \in DOMAIN jp : Group(t, 0, p, jp[p], q, jp[q])
  <2>1. p \in DOMAIN ip /\ jp[p] = ip[p] /\ ip[p] \in Nat
    BY <1>1, <1>2
  <2>2. CASE p = d + 1
    BY <1>1, <1>2, <2>1, <2>2
  <2>3. CASE p # d + 1
    <3>1. PICK q \in DOMAIN ip : ip[p] < s /\ Group(m, 0, p, ip[p], q, ip[q])
      BY <2>1, <2>3 DEF Body
    <3>2. p \in 1 .. d /\ q \in 1 .. d + 1 /\ jp[q] = ip[q] /\ q \in DOMAIN jp
      BY <1>1, <1>2, <2>1, <2>3
    <3>3. Agree(t, 0, m, 0, d)
      BY <1>1 DEF Agree
    <3>4. Group(t, 0, p, ip[p], q, ip[q])
      <4>1. 0 \in Nat /\ d \in Nat /\ ip[p] \in Nat
        BY <1>1, <2>1
      <4> QED BY <3>1, <3>2, <3>3, <4>1, GroupSame
    <3>5. ip[p] < n
      BY <1>1, <2>1, <3>1
    <3> QED BY <2>1, <3>2, <3>4, <3>5
  <2> QED BY <2>2, <2>3
<1>5. Body(t, 0, jp, e, n)
  BY <1>2, <1>3, <1>4 DEF Body
<1> QED BY <1>5

\* The nibble of a pick stands for what was picked.
LEMMA PickStands ==
  ASSUME NEW i \in Nat, NEW k \in Nat \ {0}, Len(input) \in Nat, i < Len(input), IsPick(i, k)
  PROVE  /\ Stands(Picked(i, k), i) /\ Picked(i, k).len = k
         /\ Lits(Picked(i, k)) = LitLen(i, k)
         /\ ~Picked(i, k).run => LitLen(i, k) = k
         /\ LitLen(i, k) \in 0 .. LitCap
<1>1. CASE input[i+1] \in Filler
  <2>1. Picked(i, k) = [run |-> TRUE, fill |-> input[i+1], len |-> k]
    BY <1>1 DEF Picked
  <2>2. k <= RunCap /\ i + k <= Len(input) /\ \A j \in i + 1 .. i + k : input[j] = input[i+1]
    BY <1>1 DEF IsPick
  <2>3. \A j \in 1 .. k : input[i+j] = input[i+1]
    BY <2>2
  <2>4. LitLen(i, k) = 0 /\ 0 \in 0 .. LitCap
    BY <1>1, CompressAssumption DEF LitLen
  <2> QED BY <2>1, <2>2, <2>3, <2>4 DEF Stands, Lits
<1>2. CASE input[i+1] \notin Filler
  <2>1. Picked(i, k) = [run |-> FALSE, fill |-> Zero, len |-> k]
    BY <1>2 DEF Picked
  <2>2. k <= LitCap /\ i + k <= Len(input)
    BY <1>2 DEF IsPick
  <2>3. LitLen(i, k) = k /\ k \in 0 .. LitCap
    BY <1>2, <2>2, CompressAssumption DEF LitLen
  <2> QED BY <2>1, <2>2, <2>3 DEF Stands, Lits
<1> QED BY <1>1, <1>2

\* A copy has at least the bytes it is asked for.
LEMMA CopyEnough ==
  ASSUME NEW i \in Nat, NEW l \in 0 .. LitCap, NEW s, Len(s) \in Nat, i + l <= Len(s)
  PROVE  /\ CopyLen(i, l, s) \in Nat /\ l <= CopyLen(i, l, s)
         /\ CopyLen(i, l, s) <= Fast /\ i + CopyLen(i, l, s) <= Len(s)
         /\ l = 0 => CopyLen(i, l, s) = 0
  BY CompressAssumption DEF CopyLen, Fast

(* A copy of l of the bytes behind the first i of the input, in fact of c, *)
(* behind the first at of the memory m makes it t.                         *)

CanCopy(m, at, i, l, c) ==
  /\ Len(m) \in Nat /\ at \in Nat /\ i \in Nat /\ l \in Nat /\ c \in Nat
  /\ Listed(input) /\ l <= c /\ i + c <= Len(input) /\ at + c <= Len(m)

Copied(t, m, at, i, l) ==
  /\ Len(t) = Len(m) /\ Listed(t)
  /\ \A j \in 1 .. at : t[j] = m[j]
  /\ \A j \in 1 .. l : t[at+j] = input[i+j]

\* A copy brings the bytes it is meant to bring, and changes none before them.
LEMMA CopyWrites ==
  ASSUME NEW m, NEW at, NEW i, NEW l, NEW c, NEW t,
         CanCopy(m, at, i, l, c), t = Put(m, at, SubSeq(input, i + 1, i + c))
  PROVE  Copied(t, m, at, i, l)
<1>0. /\ Len(m) \in Nat /\ at \in Nat /\ i \in Nat /\ l \in Nat /\ c \in Nat
      /\ Listed(input) /\ l <= c /\ i + c <= Len(input) /\ at + c <= Len(m)
  BY DEF CanCopy
<1>1. PICK s : s = SubSeq(input, i + 1, i + c)
  OBVIOUS
<1>2. PICK u \in Nat \ {0}, v \in Nat : u = i + 1 /\ v = i + c /\ u <= v + 1 /\ v <= Len(input)
  <2>1. i + 1 \in Nat \ {0} /\ i + c \in Nat /\ i + 1 <= i + c + 1 /\ i + c <= Len(input)
    BY <1>0
  <2> QED BY <2>1
<1>3. Len(s) = v - u + 1 /\ \A j \in 1 .. v - u + 1 : s[j] = input[u+j-1]
  BY <1>0, <1>1, <1>2, SubSeqFacts
<1>4. Len(s) = c /\ \A j \in 1 .. c : s[j] = input[i+j]
  <2>1. v - u + 1 = c /\ \A j \in 1 .. c : u + j - 1 = i + j
    BY <1>0, <1>2
  <2> QED BY <1>3, <2>1
<1>5. Len(s) \in Nat
  BY <1>0, <1>4
<1>6. t = Put(m, at, s)
  BY <1>1
<1>7. /\ Listed(t) /\ Len(t) = Len(m)
      /\ \A j \in 1 .. Len(m) : j <= at => t[j] = m[j]
      /\ \A j \in 1 .. Len(s) : at + j <= Len(m) => t[at+j] = s[j]
  BY <1>0, <1>5, <1>6, PutFacts
<1>8. \A j \in 1 .. at : t[j] = m[j]
  BY <1>0, <1>7
<1>9. ASSUME NEW j \in 1 .. l PROVE t[at+j] = input[i+j]
  <2>1. j \in 1 .. c /\ j \in 1 .. Len(s) /\ at + j <= Len(m)
    BY <1>0, <1>4
  <2>2. t[at+j] = s[j]
    BY <1>7, <2>1
  <2> QED BY <1>4, <2>1, <2>2
<1> QED BY <1>7, <1>8, <1>9 DEF Copied

\* The mark itself.
LEMMA MarkWrites ==
  ASSUME NEW m, Len(m) \in Nat, NEW d \in Nat, d + 1 <= Len(m), NEW mark,
         NEW t, t = Put(m, d, <<mark>>)
  PROVE  /\ Len(t) = Len(m) /\ Listed(t) /\ t[d+1] = mark
         /\ \A i \in 1 .. d : t[i] = m[i]
<1>1. PICK s : s = <<mark>>
  OBVIOUS
<1>2. Len(s) = 1 /\ s[1] = mark /\ Len(s) \in Nat
  BY <1>1
<1>3. t = Put(m, d, s)
  BY <1>1
<1>4. /\ Len(t) = Len(m) /\ Listed(t)
      /\ \A i \in 1 .. Len(m) : i <= d => t[i] = m[i]
      /\ \A i \in 1 .. Len(s) : d + i <= Len(m) => t[d+i] = s[i]
  BY <1>2, <1>3, PutFacts
<1>5. 1 \in 1 .. Len(s)
  BY <1>2
<1>6. t[d+1] = mark
  BY <1>2, <1>4, <1>5
<1> QED BY <1>4, <1>6

(* The mark of lo and hi behind the first d bytes of m.                    *)

Marked(m, d, lo, hi, x, y) ==
  /\ x \in Nat /\ y \in Nat /\ d \in Nat /\ m[d+1] = [lo |-> lo, hi |-> hi]
  /\ Stands(lo, x) /\ Stands(hi, y) /\ y = x + lo.len

\* A mark and its two copies make a group.
LEMMA GroupWritten ==
  ASSUME NEW x, NEW y, NEW d, NEW lo, NEW hi, NEW m1, NEW m2, NEW t,
         Marked(m1, d, lo, hi, x, y),
         Copied(m2, m1, d + 1, x, Lits(lo)), Copied(t, m2, d + 1 + Lits(lo), y, Lits(hi))
  PROVE  Group(t, 0, d + 1, x, d + 1 + Lits(lo) + Lits(hi) + 1, y + hi.len)
<1>1. PICK a, b : a = Lits(lo) /\ b = Lits(hi)
  OBVIOUS
<1>2. /\ x \in Nat /\ y \in Nat /\ d \in Nat /\ m1[d+1] = [lo |-> lo, hi |-> hi]
      /\ Stands(lo, x) /\ Stands(hi, y) /\ y = x + lo.len
  BY DEF Marked
<1>3. /\ \A i \in 1 .. d + 1 : m2[i] = m1[i]
      /\ \A i \in 1 .. a : m2[d+1+i] = input[x+i]
      /\ \A i \in 1 .. d + 1 + a : t[i] = m2[i]
      /\ \A i \in 1 .. b : t[d+1+a+i] = input[y+i]
  BY <1>1 DEF Copied
<1>4. lo.len \in Nat /\ hi.len \in Nat /\ a \in Nat /\ b \in Nat
      /\ (~lo.run => a = lo.len) /\ (~hi.run => b = hi.len)
  BY <1>1, <1>2 DEF Stands, Lits
<1>5. t[0+(d+1)].lo = lo /\ t[0+(d+1)].hi = hi
  <2>1. d + 1 \in 1 .. d + 1 /\ d + 1 \in 1 .. d + 1 + a /\ 0 + (d + 1) = d + 1
    BY <1>2, <1>4
  <2>2. t[d+1] = m1[d+1]
    BY <1>3, <2>1
  <2> QED BY <1>2, <2>1, <2>2
<1>6. Follow(t, 0 + (d + 1), lo, x)
  <2> SUFFICES ASSUME ~lo.run, NEW i \in 1 .. a PROVE t[0+(d+1)+i] = input[x+i]
    BY <1>4 DEF Follow
  <2>1. i \in Nat /\ d + 1 + i \in 1 .. d + 1 + a /\ 0 + (d + 1) + i = d + 1 + i
    BY <1>2, <1>4
  <2>2. t[d+1+i] = m2[d+1+i]
    BY <1>3, <2>1
  <2> QED BY <1>3, <2>1, <2>2
<1>7. Follow(t, 0 + (d + 1) + a, hi, x + lo.len)
  <2> SUFFICES ASSUME ~hi.run, NEW i \in 1 .. b PROVE t[0+(d+1)+a+i] = input[x+lo.len+i]
    BY <1>4 DEF Follow
  <2>1. i \in Nat /\ 0 + (d + 1) + a + i = d + 1 + a + i /\ y + i = x + lo.len + i
    BY <1>2, <1>4
  <2> QED BY <1>3, <2>1
<1>8. d + 1 + a + b + 1 = (d + 1) + 1 + a + b /\ y + hi.len = x + lo.len + hi.len
  BY <1>2, <1>4
<1> QED BY <1>1, <1>2, <1>5, <1>6, <1>7, <1>8 DEF Group

-----------------------------------------------------------------------------
(* Compress keeps the invariant.                                           *)

\* What is written says the same of an input that does not change.
LEMMA WholePrimed ==
  ASSUME NEW s, NEW k, NEW r, NEW ip, NEW e, input' = input, Whole(s, k, r, ip, e)
  PROVE  Whole(s, k, r, ip, e)'
  BY DEF Whole, Header, Digits, Body, Group, Stands, Follow, Lits

\* The digits written before stay digits.
LEMMA DigitsGrow ==
  ASSUME NEW s, Listed(s), NEW k \in Nat, k = Len(s), NEW r, Digits(s, k, r),
         NEW b, b.digit = r[k] % Base
  PROVE  \E u : /\ Digits(Append(s, b), k + 1, u) /\ u[k+1] = r[k] \div Base
                /\ \A j \in 0 .. k : u[j] = r[j]
<1>0. PICK t : t = Append(s, b) /\ t[k+1] = b /\ \A j \in 1 .. k : t[j] = s[j]
  <2>1. Append(s, b)[Len(s) + 1] = b /\ \A j \in 1 .. Len(s) : Append(s, b)[j] = s[j]
    BY AppendFacts
  <2> QED BY <2>1, Zenon
<1> DEFINE u == [j \in 0 .. k + 1 |-> IF j = k + 1 THEN r[k] \div Base ELSE r[j]]
<1>1. /\ r \in [0 .. k -> Nat] /\ r[0] = Len(input) /\ r[k] \in Nat
      /\ \A j \in 1 .. k : s[j].digit = r[j-1] % Base /\ r[j] = r[j-1] \div Base
  BY DEF Digits
<1>2. r[k] \div Base \in Nat
  BY <1>1, DivMod, CompressAssumption
<1>3. u[k+1] = r[k] \div Base /\ \A j \in 0 .. k : u[j] = r[j]
  OBVIOUS
<1>4. u \in [0 .. k + 1 -> Nat]
  BY <1>1, <1>2, SMTT(20)
<1> HIDE DEF u
<1>5. ASSUME NEW j \in 1 .. k + 1
      PROVE  t[j].digit = u[j-1] % Base /\ u[j] = u[j-1] \div Base
  <2>1. CASE j = k + 1
    BY <1>0, <1>3, <2>1
  <2>2. CASE j # k + 1
    <3>1. j \in 1 .. k /\ j - 1 \in 0 .. k /\ j \in 0 .. k
      BY <2>2
    <3>2. u[j] = r[j] /\ u[j-1] = r[j-1] /\ t[j] = s[j]
      BY <1>0, <1>3, <3>1
    <3> QED BY <1>1, <3>1, <3>2
  <2> QED BY <2>1, <2>2
<1>6. Digits(t, k + 1, u)
  BY <1>1, <1>3, <1>4, <1>5 DEF Digits
<1> QED BY <1>0, <1>3, <1>6

\* At first nothing is written.
LEMMA InitStream == Init => StreamInv
<1> SUFFICES ASSUME Init PROVE StreamInv
  OBVIOUS
<1>1. input \in Seq([byte : Int]) /\ Len(input) \in Nat
  BY InputBytes
<1>2. stream = <<>> /\ Len(stream) = 0 /\ Listed(stream)
  <2>1. stream = <<>>
    BY DEF Init
  <2>2. <<>> \in Seq([byte : Int])
    OBVIOUS
  <2> QED BY <2>1, <2>2, SeqListed
<1>3. PrefixPart
  <2> DEFINE r == [j \in 0 .. 0 |-> Len(input)]
  <2>1. Digits(stream, 0, r) /\ r[0] = size
    BY <1>1 DEF Digits, Init
  <2>2. input # <<>> => r[0] >= 1
    BY <1>1
  <2>3. input = <<>> => size = 0
    BY DEF Init
  <2> HIDE DEF r
  <2>4. \E u : /\ Digits(stream, Len(stream), u) /\ u[Len(stream)] = size
               /\ input # <<>> => \A j \in 0 .. Len(stream) : u[j] >= 1
    BY <1>2, <2>1, <2>2
  <2>5. \A j \in 1 .. Len(stream) : stream[j].more = TRUE
    BY <1>2
  <2>6. size <= Len(input)
    BY <1>1 DEF Init
  <2> QED BY <1>2, <2>3, <2>4, <2>5, <2>6, Zenon DEF PrefixPart
<1>4. phase = "prefix" /\ lost = FALSE
  BY DEF Init
<1> QED BY <1>1, <1>2, <1>3, <1>4 DEF StreamInv, RoundTrip

\* No input, no stream.
LEMMA PackNothingStream == StreamInv /\ PackNothing => StreamInv'
<1> SUFFICES ASSUME StreamInv, PackNothing PROVE StreamInv'
  OBVIOUS
<1>1. /\ phase = "prefix" /\ input = <<>> /\ phase' = "packed"
      /\ input' = input /\ stream' = stream /\ lost' = lost
  BY DEF PackNothing
<1>2. stream = <<>>
  BY <1>1 DEF StreamInv, PrefixPart
<1>3. PackedPart'
  BY <1>1, <1>2 DEF PackedPart
<1> QED BY <1>1, <1>3 DEF StreamInv, RoundTrip, Listed

\* One more digit.
LEMMA PrefixDigitStream == StreamInv /\ PrefixDigit => StreamInv'
<1> SUFFICES ASSUME StreamInv, PrefixDigit PROVE StreamInv'
  OBVIOUS
<1>1. /\ phase = "prefix" /\ size % Word >= Base /\ phase' = phase
      /\ input' = input /\ lost' = lost /\ size' = size \div Base
      /\ stream' = Append(stream, [more |-> TRUE, digit |-> size % Base])
  BY DEF PrefixDigit
<1>2. /\ input \in Seq([byte : Int]) /\ Listed(stream) /\ lost \in BOOLEAN /\ PrefixPart
  BY <1>1 DEF StreamInv
<1>3. PICK k \in Nat : k = Len(stream)
  BY <1>2 DEF Listed
<1>4. PICK r : /\ Digits(stream, k, r) /\ r[k] = size
               /\ input # <<>> => \A j \in 0 .. k : r[j] >= 1
  BY <1>2, <1>3 DEF PrefixPart
<1>5. /\ Listed(stream') /\ Len(stream') = k + 1
      /\ \A j \in 1 .. k : stream'[j] = stream[j]
      /\ stream'[k+1] = [more |-> TRUE, digit |-> size % Base]
  BY <1>1, <1>2, <1>3, AppendFacts
<1>6. PICK u : /\ Digits(stream', k + 1, u) /\ u[k+1] = r[k] \div Base
               /\ \A j \in 0 .. k : u[j] = r[j]
  <2>1. PICK b : b = [more |-> TRUE, digit |-> size % Base]
    OBVIOUS
  <2>2. b.digit = r[k] % Base /\ stream' = Append(stream, b)
    BY <1>1, <1>4, <2>1
  <2> QED BY <1>2, <1>3, <1>4, <2>2, DigitsGrow
<1>7. size \in Nat /\ size >= Base /\ 1 <= size \div Base /\ size \div Base <= Len(input)
  <2>1. size \in Nat /\ Base \in Nat \ {0, 1} /\ Word \in Nat \ {0} /\ Len(input) \in Nat
    BY <1>2, <1>4, CompressAssumption DEF Digits
  <2>2. size % Word <= size
    BY <2>1, ModBelow
  <2>3. size >= Base
    BY <1>1, <2>1, <2>2
  <2>4. Base * 1 <= size /\ 1 \in Int
    BY <2>1, <2>3
  <2>5. 1 <= size \div Base
    BY <2>1, <2>4, QuotBound
  <2>6. size \div Base <= size /\ size \div Base \in Nat
    BY <2>1, DivBelow
  <2>7. size <= Len(input)
    BY <1>2 DEF PrefixPart
  <2> QED BY <2>1, <2>3, <2>5, <2>6, <2>7
<1>8. input # <<>>
  BY <1>2, <1>7, CompressAssumption DEF PrefixPart
<1>9. \A j \in 0 .. k + 1 : u[j] >= 1
  <2> SUFFICES ASSUME NEW j \in 0 .. k + 1 PROVE u[j] >= 1
    OBVIOUS
  <2>1. CASE j = k + 1
    BY <1>4, <1>6, <1>7, <2>1
  <2>2. CASE j # k + 1
    BY <1>4, <1>6, <1>8, <2>2
  <2> QED BY <2>1, <2>2
<1>10. \A j \in 1 .. k + 1 : stream'[j].more = TRUE
  <2> SUFFICES ASSUME NEW j \in 1 .. k + 1 PROVE stream'[j].more = TRUE
    OBVIOUS
  <2>1. CASE j = k + 1
    BY <1>5, <2>1
  <2>2. CASE j # k + 1
    BY <1>2, <1>3, <1>5, <2>2 DEF PrefixPart
  <2> QED BY <2>1, <2>2
<1>11. Digits(stream, k + 1, u)' /\ u[k+1] = size'
  BY <1>1, <1>4, <1>6 DEF Digits
<1>12. PrefixPart'
  BY <1>1, <1>5, <1>7, <1>8, <1>9, <1>10, <1>11 DEF PrefixPart
<1> QED BY <1>1, <1>2, <1>5, <1>12 DEF StreamInv, RoundTrip

\* The last digit.
LEMMA PrefixLastStream == PrefixInv /\ StreamInv /\ PrefixLast => StreamInv'
<1> SUFFICES ASSUME PrefixInv, StreamInv, PrefixLast PROVE StreamInv'
  OBVIOUS
<1>1. /\ phase = "prefix" /\ size % Word < Base /\ phase' = "pack" /\ input # <<>>
      /\ input' = input /\ lost' = lost /\ src' = src /\ dest' = dest
      /\ stream' = Append(stream, [more |-> FALSE, digit |-> size % Word])
      /\ mem' = [i \in 1 .. OutSize(Len(input)) |-> Zero]
  BY DEF PrefixLast
<1>2. /\ input \in Seq([byte : Int]) /\ Listed(stream) /\ lost \in BOOLEAN /\ PrefixPart
      /\ src = 0 /\ dest = 0
  BY <1>1 DEF StreamInv, PrefixInv
<1>3. PICK k \in Nat : k = Len(stream)
  BY <1>2 DEF Listed
<1>4. PICK r : /\ Digits(stream, k, r) /\ r[k] = size
               /\ \A j \in 0 .. k : r[j] >= 1
  BY <1>1, <1>2, <1>3 DEF PrefixPart
<1>5. /\ Listed(stream') /\ Len(stream') = k + 1
      /\ \A j \in 1 .. k : stream'[j] = stream[j]
      /\ stream'[k+1] = [more |-> FALSE, digit |-> size % Word]
  BY <1>1, <1>2, <1>3, AppendFacts
<1>6. size \in Nat /\ Base \in Nat \ {0} /\ Word \in Nat \ {0} /\ Len(input) \in Nat
  BY <1>2, <1>4, CompressAssumption DEF Digits
<1>7. size % Word \in Nat
  BY <1>6, DivMod
<1>8. ASSUME Len(input) < Word
      PROVE  size % Word = size % Base /\ size \div Base = 0
  <2>1. size < Word /\ size % Word = size
    <3>1. size < Word
      BY <1>2, <1>6, <1>8 DEF PrefixPart
    <3> QED BY <1>6, <3>1, SmallMod
  <2>2. size < Base
    BY <1>1, <2>1
  <2>3. size % Base = size
    BY <1>6, <2>2, SmallMod
  <2>4. size = Base * (size \div Base) + (size % Base) /\ size \div Base \in Nat
    BY <1>6, DivMod
  <2>5. PICK q \in Nat : q = size \div Base
    BY <2>4
  <2>6. Base * q = 0
    BY <1>6, <2>3, <2>4, <2>5
  <2>7. q = 0
    <3>1. CASE q >= 1
      <4>1. Base * 1 <= Base * q
        BY <1>6, <2>5, <3>1, MulMono
      <4> QED BY <1>6, <2>6, <4>1
    <3> QED BY <2>5, <3>1
  <2> QED BY <2>1, <2>3, <2>5, <2>7
<1>9. \A j \in 1 .. k + 1 : stream'[j].digit \in Nat
  <2> SUFFICES ASSUME NEW j \in 1 .. k + 1 PROVE stream'[j].digit \in Nat
    OBVIOUS
  <2>1. CASE j = k + 1
    BY <1>5, <1>7, <2>1
  <2>2. CASE j # k + 1
    <3>1. j \in 1 .. k /\ j - 1 \in 0 .. k
      BY <2>2
    <3>2. stream[j].digit = r[j-1] % Base /\ r[j-1] \in Nat
      BY <1>4, <3>1 DEF Digits
    <3>3. r[j-1] % Base \in Nat
      BY <1>6, <3>2, ModBelow
    <3> QED BY <1>5, <3>1, <3>2, <3>3
  <2> QED BY <2>1, <2>2
<1>10. \E u : Header(stream', k + 1, u)
  <2>1. \A j \in 1 .. k : stream'[j].more = TRUE
    BY <1>2, <1>3, <1>5 DEF PrefixPart
  <2>2. stream'[k+1].more = FALSE /\ k + 1 \in Nat /\ k + 1 >= 1 /\ (k + 1) - 1 = k
    BY <1>5
  <2>3. CASE ~(Len(input) < Word)
    BY <1>9, <2>1, <2>2, <2>3 DEF Header
  <2>4. CASE Len(input) < Word
    <3>1. PICK b : b = [more |-> FALSE, digit |-> size % Word]
      OBVIOUS
    <3>2. b.digit = r[k] % Base /\ stream' = Append(stream, b)
      BY <1>1, <1>4, <1>8, <2>4, <3>1
    <3>3. PICK u : /\ Digits(stream', k + 1, u) /\ u[k+1] = r[k] \div Base
                   /\ \A j \in 0 .. k : u[j] = r[j]
      BY <1>2, <1>3, <1>4, <3>2, DigitsGrow
    <3>4. u[k+1] = 0 /\ \A j \in 0 .. k : u[j] >= 1
      BY <1>4, <1>8, <2>4, <3>3
    <3> QED BY <1>9, <2>1, <2>2, <3>3, <3>4 DEF Header
  <2> QED BY <2>3, <2>4
<1>11. (\E u : Header(stream, Len(stream), u))'
  BY <1>1, <1>5, <1>10 DEF Header, Digits
<1>12. \E ip : Body(mem', 0, ip, 0, 0)
  <2> DEFINE ip == [p \in 1 .. 1 |-> 0]
  <2>1. DOMAIN ip = {1} /\ ip[1] = 0 /\ ip \in [{1} -> Nat]
    OBVIOUS
  <2> HIDE DEF ip
  <2>2. Body(mem', 0, ip, 0, 0)
    BY <2>1 DEF Body
  <2> QED BY <2>2
<1>13. (\E ip : Body(mem, 0, ip, dest, src))'
  BY <1>1, <1>2, <1>12 DEF Body, Group, Stands, Follow
<1>14. Listed(mem)'
  <2>1. OutSize(Len(input)) \in Nat
    <3>1. \A n \in Nat : OutSize(n) \in Nat
      BY CompressAssumption DEF OutSize
    <3> QED BY <1>2, <3>1
  <2> QED BY <1>1, <2>1 DEF Listed
<1>15. PackPart'
  BY <1>11, <1>13, <1>14 DEF PackPart
<1> QED BY <1>1, <1>2, <1>5, <1>15 DEF StreamInv, RoundTrip

\* A round that adds a group.
LEMMA PackPartGrows ==
  ASSUME StreamInv, phase = "pack", input' = input, stream' = stream,
         NEW t, Listed(t), t = mem', NEW d \in Nat, d = dest', NEW s \in Nat, s = src',
         dest < d, src < s, \A i \in 1 .. dest : t[i] = mem[i],
         Group(t, 0, dest + 1, src, d + 1, s)
  PROVE  PackPart'
<1>1. PICK ip : Body(mem, 0, ip, dest, src)
  BY DEF StreamInv, PackPart
<1>2. PICK jp : Body(t, 0, jp, d, s)
  BY <1>1, BodyGrows
<1>3. Body(t, 0, jp, d, s)'
  <2>1. \A nib, x : Stands(nib, x)' <=> Stands(nib, x)
    BY DEF Stands
  <2>2. \A a, c, nib, x : Follow(a, c, nib, x)' <=> Follow(a, c, nib, x)
    BY DEF Follow
  <2>3. \A p, x, q, y : Group(t, 0, p, x, q, y)' <=> Group(t, 0, p, x, q, y)
    <3> SUFFICES ASSUME NEW p, NEW x, NEW q, NEW y
                 PROVE  Group(t, 0, p, x, q, y)' <=> Group(t, 0, p, x, q, y)
      OBVIOUS
    <3> QED BY <2>1, <2>2 DEF Group, Lits
  <2> QED BY <1>2, <2>3, Zenon DEF Body
<1>4. (\E r : Header(stream, Len(stream), r))'
  BY DEF StreamInv, PackPart, Header, Digits
<1> QED BY <1>3, <1>4 DEF PackPart

\* The bytes in front of dest are those of the groups so far: a round with two
\* picks adds a group.
LEMMA PackPairStream == PackInv /\ StreamInv /\ PackPair => StreamInv'
<1> SUFFICES ASSUME PackInv, StreamInv, PackPair PROVE StreamInv'
  OBVIOUS
<1>1. /\ phase = "pack" /\ phase' = phase /\ input' = input /\ stream' = stream /\ lost' = lost
      /\ src < Len(input)
  BY DEF PackPair
<1>2. /\ input \in Seq([byte : Int]) /\ Len(input) \in Nat /\ Listed(input)
      /\ src \in Nat /\ dest \in Nat
      /\ Len(mem) = OutSize(Len(input)) /\ Listed(mem) /\ Len(mem) \in Nat
      /\ Paid \/ Owed \/ Ended
  BY <1>1, SeqListed DEF StreamInv, PackInv, PackPart, Listed
<1>3. PICK k \in Nat \ {0}, l \in Nat \ {0} :
        LET y == src + k
            a == LitLen(src, k)
            b == LitLen(y, l)
            mark == [lo |-> Picked(src, k), hi |-> Picked(y, l)]
            ca == CopyLen(src, a, input)
            cb == CopyLen(y, b, input)
            at == dest + 1
            one == Put(Put(mem, dest, <<mark>>), at, SubSeq(input, src + 1, src + ca))
        IN /\ IsPick(src, k) /\ y < Len(input) /\ IsPick(y, l)
           /\ mem' = Put(one, at + a, SubSeq(input, y + 1, y + cb))
           /\ src' = y + l
           /\ dest' = at + a + b
           /\ high' = Higher(high, Higher(at + ca, at + a + cb))
  <2>1. Higher(LitCap, RunCap) \in Nat
    BY CompressAssumption DEF Higher
  <2>2. \A x \in 1 .. Higher(LitCap, RunCap) : x \in Nat \ {0}
    BY <2>1
  <2> QED BY <2>2, Zenon DEF PackPair
<1>4. PICK y, lo, hi :
        y \in Nat /\ y = src + k /\ lo = Picked(src, k) /\ hi = Picked(y, l)
  <2>1. src + k \in Nat
    BY <1>2
  <2> QED BY <2>1
<1>5. IsPick(src, k) /\ IsPick(y, l) /\ y < Len(input) /\ src' = y + l
  BY <1>3, <1>4
<1>6. PICK a \in 0 .. LitCap : /\ a = LitLen(src, k) /\ a = Lits(lo) /\ Stands(lo, src)
                              /\ lo.len = k /\ (~lo.run => a = k)
  BY <1>1, <1>2, <1>4, <1>5, PickStands
<1>7. PICK b \in 0 .. LitCap : /\ b = LitLen(y, l) /\ b = Lits(hi) /\ Stands(hi, y)
                              /\ hi.len = l /\ (~hi.run => b = l)
  BY <1>1, <1>2, <1>4, <1>5, PickStands
<1>8. a \in Nat /\ b \in Nat /\ src + a <= Len(input) /\ y + b <= Len(input)
  <2>1. k \in Nat /\ l \in Nat /\ LitCap \in Nat
    BY CompressAssumption
  <2>2. src + k <= Len(input)
    BY <1>2, <1>5, <2>1, PickFacts
  <2>3. y + l <= Len(input)
    BY <1>2, <1>4, <1>5, <2>1, PickFacts
  <2>4. (a = k \/ a = 0) /\ (b = l \/ b = 0)
    BY <1>6, <1>7 DEF LitLen
  <2> QED BY <1>2, <1>4, <2>1, <2>2, <2>3, <2>4
<1>9. PICK ca \in Nat, cb \in Nat :
        /\ ca = CopyLen(src, a, input) /\ cb = CopyLen(y, b, input)
        /\ a <= ca /\ b <= cb /\ src + ca <= Len(input) /\ y + cb <= Len(input)
        /\ dest + 1 + ca <= Len(mem) /\ dest + 1 + a + cb <= Len(mem)
  <2>1. /\ CopyLen(src, a, input) \in Nat /\ a <= CopyLen(src, a, input)
        /\ src + CopyLen(src, a, input) <= Len(input)
    BY <1>2, <1>8, CopyEnough
  <2>2. /\ CopyLen(y, b, input) \in Nat /\ b <= CopyLen(y, b, input)
        /\ y + CopyLen(y, b, input) <= Len(input)
    BY <1>2, <1>4, <1>8, CopyEnough
  <2>3. /\ dest + 1 + CopyLen(src, LitLen(src, k), input) <= Len(mem)
        /\ dest + 1 + LitLen(src, k) + CopyLen(src + k, LitLen(src + k, l), input) <= Len(mem)
    <3>1. Len(input) \in Nat /\ src \in 0 .. Len(input) /\ src < Len(input)
      BY <1>1, <1>2
    <3> QED BY <1>2, <1>3, <3>1, PairInside
  <2>4. /\ dest + 1 + CopyLen(src, a, input) <= Len(mem)
        /\ dest + 1 + a + CopyLen(y, b, input) <= Len(mem)
    BY <1>4, <1>6, <1>7, <2>3
  <2> QED BY <2>1, <2>2, <2>4
<1>10. PICK m1, m2, m3 :
         /\ m1 = Put(mem, dest, <<[lo |-> lo, hi |-> hi]>>)
         /\ m2 = Put(m1, dest + 1, SubSeq(input, src + 1, src + ca))
         /\ m3 = Put(m2, dest + 1 + a, SubSeq(input, y + 1, y + cb))
         /\ m3 = mem' /\ dest' = dest + 1 + a + b
  BY <1>3, <1>4, <1>6, <1>7, <1>9
<1>11. /\ Len(m1) = Len(mem) /\ m1[dest+1] = [lo |-> lo, hi |-> hi]
       /\ \A i \in 1 .. dest : m1[i] = mem[i]
  <2>1. dest + 1 <= Len(mem)
    BY <1>2, <1>9
  <2> QED BY <1>2, <1>10, <2>1, MarkWrites
<1>12. Copied(m2, m1, dest + 1, src, a)
  <2>1. CanCopy(m1, dest + 1, src, a, ca)
    BY <1>2, <1>8, <1>9, <1>11 DEF CanCopy
  <2>2. m2 = Put(m1, dest + 1, SubSeq(input, src + 1, src + ca))
    BY <1>10
  <2> QED BY <2>1, <2>2, CopyWrites
<1>13. Copied(m3, m2, dest + 1 + a, y, b)
  <2>1. Len(m2) = Len(mem)
    BY <1>11, <1>12 DEF Copied
  <2>2. CanCopy(m2, dest + 1 + a, y, b, cb)
    BY <1>2, <1>4, <1>8, <1>9, <2>1 DEF CanCopy
  <2>3. m3 = Put(m2, dest + 1 + a, SubSeq(input, y + 1, y + cb))
    BY <1>10
  <2> QED BY <2>2, <2>3, CopyWrites
<1>14. Group(m3, 0, dest + 1, src, dest + 1 + a + b + 1, y + hi.len)
  <2>1. Marked(m1, dest, lo, hi, src, y)
    BY <1>2, <1>4, <1>6, <1>7, <1>11 DEF Marked
  <2> QED BY <1>6, <1>7, <1>12, <1>13, <2>1, GroupWritten
<1>15. PICK d2 \in Nat, s2 \in Nat :
         /\ d2 = dest + 1 + a + b /\ s2 = y + hi.len /\ dest < d2 /\ src < s2
         /\ d2 = dest' /\ s2 = src'
  <2>1. src' = y + hi.len /\ dest' = dest + 1 + a + b
    BY <1>5, <1>7, <1>10
  <2>2. y + hi.len \in Nat /\ src < y + hi.len
    BY <1>2, <1>4, <1>7
  <2>3. dest + 1 + a + b \in Nat /\ dest < dest + 1 + a + b
    BY <1>2, <1>8
  <2> QED BY <2>1, <2>2, <2>3
<1>16. PackPart'
  <2>1. Group(m3, 0, dest + 1, src, d2 + 1, s2)
    BY <1>14, <1>15
  <2>2. \A i \in 1 .. dest : m3[i] = mem[i]
    <3> SUFFICES ASSUME NEW i \in 1 .. dest PROVE m3[i] = mem[i]
      OBVIOUS
    <3>1. i \in 1 .. dest + 1 /\ i \in 1 .. dest + 1 + a
      BY <1>2, <1>8
    <3> QED BY <1>11, <1>12, <1>13, <3>1 DEF Copied
  <2>3. /\ Listed(m3) /\ m3 = mem' /\ d2 \in Nat /\ s2 \in Nat /\ d2 = dest' /\ s2 = src'
        /\ dest < d2 /\ src < s2
    BY <1>10, <1>13, <1>15 DEF Copied
  <2> QED BY <1>1, <2>1, <2>2, <2>3, PackPartGrows
<1> QED BY <1>1, <1>2, <1>16 DEF StreamInv, RoundTrip, Listed

\* The round whose only pick reaches the end adds a group with one nibble.
LEMMA PackLastStream == PackInv /\ StreamInv /\ PackLast => StreamInv'
<1> SUFFICES ASSUME PackInv, StreamInv, PackLast PROVE StreamInv'
  OBVIOUS
<1>1. /\ phase = "pack" /\ phase' = phase /\ input' = input /\ stream' = stream /\ lost' = lost
      /\ src < Len(input)
  BY DEF PackLast
<1>2. /\ input \in Seq([byte : Int]) /\ Len(input) \in Nat /\ Listed(input)
      /\ src \in Nat /\ dest \in Nat
      /\ Len(mem) = OutSize(Len(input)) /\ Listed(mem) /\ Len(mem) \in Nat
      /\ Paid \/ Owed \/ Ended
  BY <1>1, SeqListed DEF StreamInv, PackInv, PackPart, Listed
<1>3. PICK k \in Nat \ {0} :
        LET a == LitLen(src, k)
            ca == CopyLen(src, a, input)
            mark == [lo |-> Picked(src, k), hi |-> NoNibble]
        IN /\ IsPick(src, k) /\ src + k = Len(input)
           /\ mem' = Put(Put(mem, dest, <<mark>>), dest + 1,
                         SubSeq(input, src + 1, src + ca))
           /\ src' = src + k
           /\ dest' = dest + 1 + a
           /\ high' = Higher(high, dest + 1 + ca)
  <2>1. Higher(LitCap, RunCap) \in Nat
    BY CompressAssumption DEF Higher
  <2>2. \A x \in 1 .. Higher(LitCap, RunCap) : x \in Nat \ {0}
    BY <2>1
  <2> QED BY <2>2, Zenon DEF PackLast
<1>4. PICK y, lo, hi :
        y \in Nat /\ y = src + k /\ lo = Picked(src, k) /\ hi = NoNibble /\ y = Len(input)
  <2>1. src + k \in Nat /\ src + k = Len(input)
    BY <1>2, <1>3
  <2> QED BY <2>1
<1>5. IsPick(src, k) /\ src' = y
  BY <1>3, <1>4
<1>6. PICK a \in 0 .. LitCap : /\ a = LitLen(src, k) /\ a = Lits(lo) /\ Stands(lo, src)
                              /\ lo.len = k /\ (~lo.run => a = k)
  BY <1>1, <1>2, <1>4, <1>5, PickStands
<1>7. Stands(hi, y) /\ Lits(hi) = 0 /\ hi.len = 0
  BY <1>4, CompressAssumption DEF Stands, Lits, NoNibble
<1>8. a \in Nat /\ src + a <= Len(input)
  <2>1. LitCap \in Nat /\ k \in Nat
    BY CompressAssumption
  <2>2. a = k \/ a = 0
    BY <1>6 DEF LitLen
  <2> QED BY <1>2, <1>4, <2>1, <2>2
<1>9. PICK ca \in Nat :
        /\ ca = CopyLen(src, a, input) /\ a <= ca /\ src + ca <= Len(input)
        /\ dest + 1 + ca <= Len(mem)
  <2>1. /\ CopyLen(src, a, input) \in Nat /\ a <= CopyLen(src, a, input)
        /\ src + CopyLen(src, a, input) <= Len(input)
    BY <1>2, <1>8, CopyEnough
  <2>2. dest + 1 + CopyLen(src, LitLen(src, k), input) <= Len(mem)
    <3>1. Len(input) \in Nat /\ src \in 0 .. Len(input) /\ src < Len(input)
      BY <1>1, <1>2
    <3>2. PICK d2 : d2 = dest + 1 + LitLen(src, k)
      OBVIOUS
    <3> QED BY <1>2, <1>3, <3>1, <3>2, LastAccount
  <2> QED BY <1>6, <2>1, <2>2
<1>10. PICK m1, m2 :
         /\ m1 = Put(mem, dest, <<[lo |-> lo, hi |-> hi]>>)
         /\ m2 = Put(m1, dest + 1, SubSeq(input, src + 1, src + ca))
         /\ m2 = mem' /\ dest' = dest + 1 + a
  BY <1>3, <1>4, <1>6, <1>9
<1>11. /\ Len(m1) = Len(mem) /\ m1[dest+1] = [lo |-> lo, hi |-> hi]
       /\ \A i \in 1 .. dest : m1[i] = mem[i]
  <2>1. dest + 1 <= Len(mem)
    BY <1>2, <1>9
  <2> QED BY <1>2, <1>10, <2>1, MarkWrites
<1>12. Copied(m2, m1, dest + 1, src, a)
  <2>1. CanCopy(m1, dest + 1, src, a, ca)
    BY <1>2, <1>8, <1>9, <1>11 DEF CanCopy
  <2>2. m2 = Put(m1, dest + 1, SubSeq(input, src + 1, src + ca))
    BY <1>10
  <2> QED BY <2>1, <2>2, CopyWrites
<1>13. Copied(m2, m2, dest + 1 + a, y, 0)
  BY <1>12 DEF Copied
<1>14. Group(m2, 0, dest + 1, src, dest + 1 + a + 0 + 1, y + hi.len)
  <2>1. Marked(m1, dest, lo, hi, src, y)
    BY <1>2, <1>4, <1>6, <1>7, <1>11 DEF Marked
  <2> QED BY <1>6, <1>7, <1>12, <1>13, <2>1, GroupWritten
<1>15. PICK d2 \in Nat, s2 \in Nat :
         /\ d2 = dest + 1 + a /\ s2 = y /\ dest < d2 /\ src < s2
         /\ d2 = dest' /\ s2 = src'
  <2>1. src' = y /\ dest' = dest + 1 + a
    BY <1>5, <1>10
  <2>2. src < y /\ dest + 1 + a \in Nat /\ dest < dest + 1 + a
    BY <1>2, <1>4, <1>8
  <2> QED BY <1>4, <2>1, <2>2
<1>16. PackPart'
  <2>1. Group(m2, 0, dest + 1, src, d2 + 1, s2)
    BY <1>7, <1>8, <1>14, <1>15
  <2>2. \A i \in 1 .. dest : m2[i] = mem[i]
    <3> SUFFICES ASSUME NEW i \in 1 .. dest PROVE m2[i] = mem[i]
      OBVIOUS
    <3>1. i \in 1 .. dest + 1
      BY <1>2
    <3> QED BY <1>11, <1>12, <3>1 DEF Copied
  <2>3. /\ Listed(m2) /\ m2 = mem' /\ d2 \in Nat /\ s2 \in Nat /\ d2 = dest' /\ s2 = src'
        /\ dest < d2 /\ src < s2
    BY <1>10, <1>12, <1>15 DEF Copied
  <2> QED BY <1>1, <2>1, <2>2, <2>3, PackPartGrows
<1> QED BY <1>1, <1>2, <1>16 DEF StreamInv, RoundTrip, Listed

\* Marks and literals keep their meaning when they are moved.
LEMMA BodySame ==
  ASSUME NEW s, NEW t, NEW a, NEW b, NEW ip, NEW e, NEW n,
         Body(s, a, ip, e, n), Agree(t, b, s, a, e)
  PROVE  Body(t, b, ip, e, n)
<1>1. /\ e \in Nat /\ n \in Nat /\ DOMAIN ip \subseteq 1 .. e + 1 /\ ip \in [DOMAIN ip -> Nat]
      /\ 1 \in DOMAIN ip /\ ip[1] = 0 /\ e + 1 \in DOMAIN ip /\ ip[e+1] = n
  BY DEF Body
<1>2. ASSUME NEW p \in DOMAIN ip \ {e + 1}
      PROVE  ip[p] < n /\ \E q \in DOMAIN ip : Group(t, b, p, ip[p], q, ip[q])
  <2>1. PICK q \in DOMAIN ip : ip[p] < n /\ Group(s, a, p, ip[p], q, ip[q])
    BY DEF Body
  <2>2. p \in 1 .. e /\ q \in 1 .. e + 1 /\ ip[p] \in Nat
    BY <1>1
  <2>3. Group(t, b, p, ip[p], q, ip[q])
    BY <2>1, <2>2, GroupSame
  <2> QED BY <2>1, <2>3
<1> QED BY <1>1, <1>2 DEF Body

\* When all is consumed, what is written lies within the buffer.
LEMMA PackedInside ==
  ASSUME PackInv, phase = "pack", src = Len(input)
  PROVE  dest \in Nat /\ dest <= Len(mem) /\ Len(input) \in Nat
<1> DEFINE n == Len(input)
           e == dest - n
           t == n + K - 1
<1>1. n \in Nat /\ dest \in Nat /\ Len(mem) = OutSize(n) /\ e \in Int
  BY DEF PackInv
<1>2. t \in Nat /\ OutSize(n) = n + t \div K /\ t \div K \in Int
  BY <1>1, KType DEF OutSize, K
<1>3. K * e <= t
  <2>1. K * e \in Int /\ K \in Nat \ {0} /\ LitCap \in Nat /\ LitCap <= K
    BY <1>1, KType, MulNext
  <2>2. K * e <= n \/ K * e <= n + LitCap - 1 \/ K * e <= n + K - 1
    BY DEF PackInv, Paid, Owed, Ended, Excess
  <2> QED BY <1>1, <2>1, <2>2
<1> HIDE DEF t
<1>4. e <= t \div K
  BY <1>1, <1>2, <1>3, KType, QuotBound
<1> QED BY <1>1, <1>2, <1>4

\* The prefix and the groups are what Compress returns.
LEMMA PackDoneStream == PackInv /\ StreamInv /\ PackDone => StreamInv'
<1> SUFFICES ASSUME PackInv, StreamInv, PackDone PROVE StreamInv'
  OBVIOUS
<1>1. /\ phase = "pack" /\ phase' = "packed" /\ input' = input /\ lost' = lost
      /\ src = Len(input) /\ stream' = stream \o SubSeq(mem, 1, dest)
  BY DEF PackDone
<1>2. /\ input \in Seq([byte : Int]) /\ Listed(stream) /\ lost \in BOOLEAN /\ Listed(mem)
  BY <1>1 DEF StreamInv, PackPart
<1>3. dest \in Nat /\ dest <= Len(mem) /\ Len(input) \in Nat
  BY <1>1, PackedInside
<1>4. PICK r : Header(stream, Len(stream), r)
  BY <1>1 DEF StreamInv, PackPart
<1>5. PICK ip : Body(mem, 0, ip, dest, Len(input))
  BY <1>1 DEF StreamInv, PackPart
<1>6. PICK k \in Nat : k = Len(stream)
  BY <1>2 DEF Listed
<1>7. PICK s : /\ s = SubSeq(mem, 1, dest) /\ Listed(s) /\ Len(s) = dest
               /\ \A i \in 1 .. dest : s[i] = mem[i]
  <2>1. PICK u \in Nat \ {0} : u = 1
    OBVIOUS
  <2>2. u <= dest + 1 /\ dest - u + 1 = dest /\ \A i \in 1 .. dest : u + i - 1 = i
    BY <1>3, <2>1
  <2>3. /\ Listed(SubSeq(mem, u, dest)) /\ Len(SubSeq(mem, u, dest)) = dest - u + 1
        /\ \A i \in 1 .. dest - u + 1 : SubSeq(mem, u, dest)[i] = mem[u+i-1]
    BY <1>2, <1>3, <2>2, SubSeqFacts
  <2>4. PICK s : s = SubSeq(mem, u, dest)
    OBVIOUS
  <2>5. Listed(s) /\ Len(s) = dest /\ \A i \in 1 .. dest : s[i] = mem[i]
    BY <2>2, <2>3, <2>4
  <2>6. s = SubSeq(mem, 1, dest)
    BY <2>1, <2>4
  <2> QED BY <2>5, <2>6, Zenon
<1>8. PICK t : /\ t = stream' /\ Listed(t) /\ Len(t) = k + dest
               /\ \A i \in 1 .. k : t[i] = stream[i]
               /\ \A i \in 1 .. dest : t[k+i] = s[i]
  <2>0. Listed(stream) /\ Listed(s)
    BY <1>2, <1>7
  <2>1. /\ Listed(stream \o s) /\ Len(stream \o s) = Len(stream) + Len(s)
        /\ \A i \in 1 .. Len(stream) : (stream \o s)[i] = stream[i]
        /\ \A i \in 1 .. Len(s) : (stream \o s)[Len(stream)+i] = s[i]
    BY <2>0, ConcatFacts
  <2> QED BY <1>1, <1>6, <1>7, <2>1
<1>9. Body(t, k, ip, dest, Len(input))
  <2>1. Agree(t, k, mem, 0, dest)
    BY <1>3, <1>6, <1>7, <1>8 DEF Agree
  <2> QED BY <1>5, <2>1, BodySame
<1>10. Header(t, k, r)
  <2>1. Header(stream, k, r) /\ k \in Nat /\ k >= 1
    BY <1>4, <1>6 DEF Header
  <2>2. /\ \A j \in 1 .. k : t[j].digit \in Nat
        /\ \A j \in 1 .. k - 1 : t[j].more = TRUE
        /\ t[k].more = FALSE
    BY <1>8, <2>1 DEF Header
  <2>3. ASSUME Len(input) < Word
        PROVE  Digits(t, k, r) /\ r[k] = 0 /\ \A j \in 0 .. k - 1 : r[j] >= 1
    <3>1. Digits(stream, k, r) /\ r[k] = 0 /\ \A j \in 0 .. k - 1 : r[j] >= 1
      BY <2>1, <2>3 DEF Header
    <3>2. Digits(t, k, r)
      BY <1>8, <3>1 DEF Digits
    <3> QED BY <3>1, <3>2
  <2> QED BY <2>1, <2>2, <2>3 DEF Header
<1>11. Whole(t, k, r, ip, dest)
  BY <1>8, <1>9, <1>10 DEF Whole
<1>12. \E e : Whole(t, k, r, ip, e)'
  <2>1. PICK e : e = dest
    OBVIOUS
  <2>2. Whole(t, k, r, ip, e)
    BY <1>11, <2>1
  <2> QED BY <1>1, <2>2, WholePrimed
<1>13. t # <<>>
  <2>1. k >= 1
    BY <1>10 DEF Header
  <2> QED BY <1>3, <1>8, <2>1
<1>14. PackedPart'
  BY <1>8, <1>12, <1>13 DEF PackedPart
<1> QED BY <1>1, <1>2, <1>8, <1>14 DEF StreamInv, RoundTrip

-----------------------------------------------------------------------------
(* Decompress keeps the invariant.                                         *)

\* What arrives is a beginning of what was returned.
LEMMA DeliverStream == StreamInv /\ Deliver => StreamInv'
<1> SUFFICES ASSUME StreamInv, Deliver PROVE StreamInv'
  OBVIOUS
<1>1. /\ phase = "packed" /\ input' = input
      /\ src' = 0 /\ dest' = 0 /\ high' = 0 /\ mem' = <<>> /\ size' = 0 /\ scale' = 1
  BY DEF Deliver
<1>2. input \in Seq([byte : Int]) /\ Listed(stream) /\ Len(stream) \in Nat /\ PackedPart
  BY <1>1 DEF StreamInv, Listed
<1>3. PICK n \in 0 .. Len(stream) :
        stream' = SubSeq(stream, 1, n) /\ lost' = (n < Len(stream))
  BY DEF Deliver
<1>4. PICK t : /\ t = stream' /\ Listed(t) /\ Len(t) = n
               /\ \A i \in 1 .. n : t[i] = stream[i]
  <2>1. PICK u \in Nat \ {0} : u = 1
    OBVIOUS
  <2>2. n \in Nat /\ n <= Len(stream) /\ u <= n + 1 /\ n - u + 1 = n /\ \A i \in 1 .. n : u + i - 1 = i
    BY <1>2, <2>1
  <2>3. /\ Listed(SubSeq(stream, u, n)) /\ Len(SubSeq(stream, u, n)) = n - u + 1
        /\ \A i \in 1 .. n - u + 1 : SubSeq(stream, u, n)[i] = stream[u+i-1]
    BY <1>2, <2>2, SubSeqFacts
  <2>4. PICK t : t = SubSeq(stream, u, n)
    OBVIOUS
  <2>5. Listed(t) /\ Len(t) = n /\ \A i \in 1 .. n : t[i] = stream[i]
    BY <2>2, <2>3, <2>4
  <2>6. t = stream'
    BY <1>3, <2>1, <2>4
  <2> QED BY <2>5, <2>6, Zenon
<1>5. lost' \in BOOLEAN /\ (lost' <=> n < Len(stream))
  <2>1. CASE n < Len(stream)
    <3>1. lost' = TRUE
      BY <1>3, <2>1
    <3> QED BY <2>1, <3>1
  <2>2. CASE ~(n < Len(stream))
    <3>0. (n < Len(stream)) = FALSE
      BY <1>2, <2>2
    <3>1. lost' = FALSE
      BY <1>3, <3>0, Zenon
    <3> QED BY <2>2, <3>1
  <2> QED BY <2>1, <2>2
<1>6. CASE t = <<>>
  <2>1. phase' = "done" /\ answer' = "true" /\ stream' = <<>>
    BY <1>4, <1>6 DEF Deliver, Return
  <2>2. n = 0
    BY <1>4, <1>6
  <2>3. ASSUME ~lost' PROVE input = <<>>
    <3>1. Len(stream) = 0
      BY <1>2, <1>5, <2>2, <2>3
    <3>2. stream = <<>>
      BY <1>2, <3>1 DEF Listed
    <3> QED BY <1>2, <3>2 DEF PackedPart
  <2>4. RoundTrip'
    BY <1>1, <2>1, <2>3 DEF RoundTrip
  <2> QED BY <1>1, <1>2, <1>4, <1>5, <2>1, <2>4 DEF StreamInv
<1>7. CASE t # <<>>
  <2>1. phase' = "size"
    BY <1>4, <1>7 DEF Deliver
  <2>2. stream # <<>>
    <3>1. CASE stream = <<>>
      <4>1. n = 0
        BY <1>2, <3>1
      <4>2. t = <<>>
        BY <1>4, <4>1 DEF Listed
      <4> QED BY <1>7, <4>2
    <3> QED BY <3>1
  <2>3. PICK full, k, r, ip, end : full = stream /\ Whole(full, k, r, ip, end)
    BY <1>2, <2>2 DEF PackedPart
  <2>4. Whole(full, k, r, ip, end)'
    BY <1>1, <2>3, WholePrimed
  <2>5. Received(full)'
    BY <1>2, <1>4, <1>5, <2>3 DEF Received
  <2>6. /\ k \in Nat /\ k >= 1 /\ Len(input) \in Nat
        /\ Len(input) < Word => r[0] = Len(input)
    BY <1>2, <2>3 DEF Whole, Header, Digits
  <2>7. SizeRead(k, r)'
    BY <1>1, <2>6 DEF SizeRead
  <2>8. SizePart'
    BY <2>4, <2>5, <2>7 DEF SizePart
  <2> QED BY <1>1, <1>2, <1>4, <1>5, <2>1, <2>8 DEF StreamInv, RoundTrip
<1> QED BY <1>6, <1>7

\* One more digit of a length that an unsigned can hold.
LEMMA DigitRead ==
  ASSUME NEW s \in Nat, NEW c \in Nat, NEW q \in Nat, NEW d \in Nat, NEW b \in Nat,
         NEW n \in Nat, n = s + c * (b * q + d)
  PROVE  s + d * c \in Nat /\ n = (s + d * c) + (c * b) * q /\ s + d * c <= n
<1>1. c * (b * q + d) = c * (b * q) + c * d
  OBVIOUS
<1>2. c * (b * q) = (c * b) * q /\ c * d = d * c /\ (c * b) * q \in Nat /\ d * c \in Nat
  OBVIOUS
<1> QED BY <1>1, <1>2

\* What a header says of the digit that is read next.
LEMMA HeaderDigit ==
  ASSUME NEW full, NEW k, NEW r, Header(full, k, r), NEW j \in 0 .. k - 1
  PROVE  /\ k \in Nat /\ j + 1 \in 1 .. k /\ full[j+1].digit \in Nat
         /\ full[j+1].more \in BOOLEAN
         /\ full[j+1].more => j + 1 \in 0 .. k - 1
         /\ ~full[j+1].more => j + 1 = k
         /\ Len(input) < Word =>
              /\ r[j] \in Nat /\ r[j+1] \in Nat
              /\ r[j] = Base * r[j+1] + full[j+1].digit
              /\ ~full[j+1].more => r[j+1] = 0
<1>1. /\ k \in Nat /\ k >= 1
      /\ \A i \in 1 .. k : full[i].digit \in Nat
      /\ \A i \in 1 .. k - 1 : full[i].more = TRUE
      /\ full[k].more = FALSE
  BY DEF Header
<1>2. j + 1 \in 1 .. k /\ j \in 0 .. k /\ j + 1 \in 0 .. k /\ (j + 1) - 1 = j
  BY <1>1
<1>3. ASSUME Len(input) < Word
      PROVE  /\ r[j] \in Nat /\ r[j+1] \in Nat
             /\ r[j] = Base * r[j+1] + full[j+1].digit
             /\ j + 1 = k => r[j+1] = 0
  <2>1. /\ r \in [0 .. k -> Nat] /\ r[k] = 0
        /\ \A i \in 1 .. k : full[i].digit = r[i-1] % Base /\ r[i] = r[i-1] \div Base
    BY <1>3 DEF Header, Digits
  <2>2. r[j] \in Nat /\ r[j+1] \in Nat
    BY <1>2, <2>1
  <2>3. full[j+1].digit = r[(j+1)-1] % Base /\ r[j+1] = r[(j+1)-1] \div Base
    BY <1>2, <2>1
  <2>4. full[j+1].digit = r[j] % Base /\ r[j+1] = r[j] \div Base
    BY <1>2, <2>3
  <2>5. Base \in Nat \ {0}
    BY CompressAssumption
  <2>6. r[j] = Base * (r[j] \div Base) + (r[j] % Base)
    BY <2>2, <2>5, DivMod
  <2>7. r[j] = Base * r[j+1] + full[j+1].digit
    BY <2>4, <2>6
  <2> QED BY <2>1, <2>2, <2>7
<1>4. CASE j + 1 = k
  <2>1. full[j+1].more = FALSE
    BY <1>1, <1>4
  <2> QED BY <1>1, <1>2, <1>3, <1>4, <2>1
<1>5. CASE j + 1 # k
  <2>1. j + 1 \in 1 .. k - 1 /\ j + 1 \in 0 .. k - 1
    BY <1>1, <1>5
  <2>2. full[j+1].more = TRUE
    BY <1>1, <2>1
  <2> QED BY <1>1, <1>2, <1>3, <2>1, <2>2
<1> QED BY <1>4, <1>5

\* The bytes that were received are the first of what was returned.
LEMMA ReceivedByte ==
  ASSUME NEW full, Received(full), Listed(stream), NEW i \in Nat, i < Len(stream)
  PROVE  stream[i+1] = full[i+1]
<1>1. i + 1 \in 1 .. Len(stream)
  BY DEF Listed
<1> QED BY <1>1 DEF Received

\* A digit of the length, read as it was written.
LEMMA ParseDigitStream == StreamInv /\ ParseDigit => StreamInv'
<1> SUFFICES ASSUME StreamInv, ParseDigit PROVE StreamInv'
  OBVIOUS
<1>1. /\ phase = "size" /\ src < Len(stream)
      /\ input' = input /\ stream' = stream /\ lost' = lost /\ dest' = dest /\ high' = high
      /\ size' = (size + stream[src+1].digit * scale) % Word
      /\ scale' = scale * Base /\ src' = src + 1
  BY DEF ParseDigit
<1>2. /\ input \in Seq([byte : Int]) /\ Listed(stream) /\ lost \in BOOLEAN
      /\ Len(stream) \in Nat /\ Len(input) \in Nat /\ SizePart
  BY <1>1 DEF StreamInv, Listed
<1>3. PICK full, k, r, ip, end :
        Whole(full, k, r, ip, end) /\ Received(full) /\ SizeRead(k, r)
  BY <1>2 DEF SizePart
<1>4. /\ src \in 0 .. k - 1 /\ size \in Nat /\ scale \in Nat \ {0} /\ dest = 0 /\ high = 0
      /\ Len(input) < Word => Len(input) = size + scale * r[src]
  BY <1>3 DEF SizeRead
<1>5. Header(full, k, r) /\ Body(full, k, ip, end, Len(input)) /\ Len(full) = k + end
  BY <1>3 DEF Whole
<1>6. PICK b, d, q : b = stream[src+1] /\ d = b.digit /\ q = r[src+1]
  OBVIOUS
<1>7. k \in Nat
  BY <1>5 DEF Header, Digits
<1>8. b = full[src+1] /\ src \in Nat
  <2>1. src \in Nat
    BY <1>4, <1>7
  <2> QED BY <1>1, <1>2, <1>3, <1>6, <2>1, ReceivedByte
<1>9. /\ src + 1 \in 1 .. k /\ d \in Nat
      /\ b.more \in BOOLEAN
      /\ b.more => src + 1 \in 0 .. k - 1
      /\ ~b.more => src + 1 = k
      /\ Len(input) < Word =>
           /\ r[src] \in Nat /\ q \in Nat /\ r[src] = Base * q + d
           /\ ~b.more => q = 0
  BY <1>4, <1>5, <1>6, <1>8, HeaderDigit
<1>10. PICK z \in Nat : z = size'
  <2>1. PICK w : w = size + d * scale /\ w \in Nat
    <3>1. d * scale \in Nat
      BY <1>4, <1>9
    <3> QED BY <1>4, <3>1
  <2>2. size' = w % Word /\ Word \in Nat \ {0}
    BY <1>1, <1>6, <2>1, CompressAssumption
  <2>3. w % Word \in Nat
    BY <2>1, <2>2
  <2> QED BY <2>2, <2>3
<1>11. PICK c \in Nat \ {0} : c = scale'
  <2>1. scale * Base \in Nat \ {0}
    <3>1. scale * Base \in Nat /\ scale * 1 <= scale * Base
      BY <1>4, CompressAssumption, MulMono
    <3> QED BY <1>4, <3>1
  <2> QED BY <1>1, <2>1
<1>12. Len(input) < Word => Len(input) = z + c * q
  <2> SUFFICES ASSUME Len(input) < Word PROVE Len(input) = z + c * q
    OBVIOUS
  <2>1. Len(input) = size + scale * (Base * q + d) /\ q \in Nat
    BY <1>4, <1>9
  <2>2. scale \in Nat /\ Base \in Nat /\ size \in Nat /\ Word \in Nat \ {0}
    BY <1>4, CompressAssumption
  <2>3. /\ size + d * scale \in Nat /\ Len(input) = (size + d * scale) + (scale * Base) * q
        /\ size + d * scale <= Len(input)
    BY <1>2, <1>9, <2>1, <2>2, DigitRead
  <2>4. PICK w \in Nat : w = size + d * scale /\ w < Word
    BY <1>2, <2>2, <2>3
  <2>5. w % Word = w
    BY <2>2, <2>4, SmallMod
  <2>6. z = w
    BY <1>1, <1>6, <1>10, <2>4, <2>5
  <2> QED BY <1>1, <1>11, <2>3, <2>4, <2>6
<1>13. Whole(full, k, r, ip, end)'
  BY <1>1, <1>3, WholePrimed
<1>14. Received(full)'
  BY <1>1, <1>3 DEF Received
<1>15. CASE b.more
  <2>1. phase' = phase
    BY <1>6, <1>15 DEF ParseDigit
  <2>2. SizeRead(k, r)'
    BY <1>1, <1>4, <1>6, <1>9, <1>10, <1>11, <1>12, <1>15 DEF SizeRead
  <2>3. SizePart'
    BY <1>13, <1>14, <2>2 DEF SizePart
  <2> QED BY <1>1, <1>2, <2>1, <2>3 DEF StreamInv, RoundTrip
<1>16. CASE ~b.more
  <2>1. phase' = "unpack" /\ mem' = [i \in 1 .. Room(size') |-> Zero]
    BY <1>6, <1>16 DEF ParseDigit
  <2>2. src' = k /\ k <= Len(stream)
    BY <1>1, <1>2, <1>4, <1>7, <1>9, <1>16
  <2>3. 1 \in DOMAIN ip /\ ip[1] = 0 /\ k - k + 1 = 1
    BY <1>5, <1>7 DEF Body
  <2>4. Room(z) \in Nat /\ Len(mem') = Room(z)
    <3>1. Word \in Nat \ {0} /\ z + Fast - 1 \in Nat
      BY CompressAssumption DEF Fast
    <3>2. Room(z) \in Nat
      BY <3>1 DEF Room
    <3> QED BY <1>10, <2>1, <3>2
  <2>5. Fits => z = Len(input)
    <3> SUFFICES ASSUME Fits PROVE z = Len(input)
      OBVIOUS
    <3>1. Len(input) < Word
      BY <1>2, CompressAssumption DEF Fits, Fast
    <3>2. q = 0
      BY <1>9, <1>16, <3>1
    <3> QED BY <1>10, <1>11, <1>12, <3>1, <3>2
  <2>6. 0 <= z + Fast - 1 /\ 0 \in Nat /\ 0 <= z
    BY CompressAssumption DEF Fast
  <2>7. Fits' <=> Fits
    BY <1>1 DEF Fits
  <2>8. Unpacked(k, ip)'
    <3>1. \A i \in 1 .. 0 : mem'[i] = input'[i]
      OBVIOUS
    <3>2. src' \in Nat /\ src' >= k /\ src' <= Len(stream') /\ src' - k + 1 = 1
      BY <1>1, <1>7, <2>2, <2>3
    <3>3. dest' = 0 /\ high' = 0 /\ size' = z
      BY <1>1, <1>4, <1>10
    <3>4. Fits' => z = Len(input')
      BY <1>1, <2>5, <2>7
    <3> QED BY <1>10, <2>3, <2>4, <2>6, <3>1, <3>2, <3>3, <3>4 DEF Unpacked
  <2>9. UnpackPart'
    BY <1>13, <1>14, <2>8 DEF UnpackPart
  <2> QED BY <1>1, <1>2, <2>1, <2>9 DEF StreamInv, RoundTrip
<1> QED BY <1>15, <1>16

\* The length of a whole stream can be read.
LEMMA ParseFailsStream == StreamInv /\ ParseFails => StreamInv'
<1> SUFFICES ASSUME StreamInv, ParseFails PROVE StreamInv'
  OBVIOUS
<1>1. /\ phase = "size" /\ (scale >= Word \/ src >= Len(stream))
      /\ phase' = "done" /\ answer' = "false"
      /\ input' = input /\ stream' = stream /\ lost' = lost
  BY DEF ParseFails, Return
<1>2. /\ input \in Seq([byte : Int]) /\ Listed(stream) /\ lost \in BOOLEAN
      /\ Len(stream) \in Nat /\ Len(input) \in Nat /\ SizePart
  BY <1>1 DEF StreamInv, Listed
<1>3. PICK full, k, r, ip, end :
        Whole(full, k, r, ip, end) /\ Received(full) /\ SizeRead(k, r)
  BY <1>2 DEF SizePart
<1>4. /\ src \in 0 .. k - 1 /\ size \in Nat /\ scale \in Nat \ {0}
      /\ Len(input) < Word => Len(input) = size + scale * r[src]
  BY <1>3 DEF SizeRead
<1>5. Header(full, k, r) /\ end \in Nat /\ Len(full) = k + end
  BY <1>3 DEF Whole, Body
<1>6. k \in Nat /\ (Len(input) < Word => r[src] \in Nat /\ r[src] >= 1)
  <2>1. k \in Nat /\ src \in 0 .. k
    BY <1>4, <1>5 DEF Header
  <2> QED BY <1>4, <1>5, <2>1 DEF Header, Digits
<1>7. ASSUME Fits PROVE lost
  <2>1. CASE src >= Len(stream)
    BY <1>2, <1>3, <1>4, <1>5, <1>6, <2>1 DEF Received
  <2>2. CASE scale >= Word
    <3>1. Len(input) < Word
      BY <1>2, <1>7, CompressAssumption DEF Fits, Fast
    <3>2. scale * 1 <= scale * r[src] /\ scale * r[src] \in Nat
      <4>1. r[src] \in Nat /\ r[src] >= 1 /\ scale \in Nat
        BY <1>4, <1>6, <3>1
      <4> QED BY <4>1, MulMono
    <3> QED BY <1>2, <1>4, <2>2, <3>1, <3>2, CompressAssumption
  <2> QED BY <1>1, <2>1, <2>2
<1>8. RoundTrip'
  BY <1>1, <1>2, <1>7 DEF RoundTrip, Fits
<1> QED BY <1>1, <1>2, <1>8 DEF StreamInv

(* The lambda of Decompress, in front of byte c of the stream, with x      *)
(* bytes of the input restored.                                            *)

State(ok, c, x, m, h) == [ok |-> ok, src |-> c, dest |-> x, mem |-> m, high |-> h]

Restored(full, c, x, m, h) ==
  /\ Listed(input) /\ Listed(stream) /\ Received(full) /\ size \in Nat
  /\ c \in Nat /\ c <= Len(stream) /\ x \in Nat /\ x <= size /\ h \in Nat
  /\ Len(m) = Room(size)
  /\ NoWrap => h <= size + Fast - 1 /\ \A i \in 1 .. x : m[i] = input[i]

\* The reserved bytes, when size+7 is an unsigned.
LEMMA RoomIs ==
  ASSUME size \in Nat
  PROVE  /\ Room(size) \in Nat
         /\ NoWrap => Room(size) = size + Fast - 1 /\ size <= Room(size)
<1>1. Word \in Nat \ {0} /\ Fast \in Nat /\ Fast >= 1
  BY CompressAssumption DEF Fast
<1>2. PICK x \in Nat : x = size + Fast - 1
  BY <1>1
<1>3. Room(size) = x % Word
  BY <1>2 DEF Room
<1>4. x % Word \in Nat
  BY <1>1
<1>5. ASSUME NoWrap PROVE x % Word = x /\ size <= x
  <2>1. x < Word
    BY <1>1, <1>2, <1>5 DEF NoWrap
  <2> QED BY <1>1, <1>2, <2>1, SmallMod
<1> QED BY <1>2, <1>3, <1>4, <1>5

\* A nibble is refused when the output or the stream has no room for it.
LEMMA UnpackRefuses ==
  ASSUME NEW c, NEW x, NEW m, NEW h, NEW nib, NEW ok, ok \in BOOLEAN, nib.run \in BOOLEAN,
         ~ok \/ x + nib.len > size \/ (~nib.run /\ c + nib.len > Len(stream))
  PROVE  Unpack(State(ok, c, x, m, h), nib) = State(FALSE, c, x, m, h)
  BY DEF Unpack, State

(* The bytes that the lambda writes for a nibble.                          *)

Data(data, c, nib) ==
  /\ nib.run => data = [i \in 1 .. RunCap |-> nib.fill]
  /\ ~nib.run => data = SubSeq(stream, c + 1, c + CopyLen(c, nib.len, stream))

\* What the writes of a run or of literals bring.
LEMMA DataFacts ==
  ASSUME NEW full, NEW c, NEW x, NEW m, NEW h, Restored(full, c, x, m, h),
         NEW nib, Stands(nib, x), Follow(full, c, nib, x),
         x + nib.len <= size, ~nib.run => c + nib.len <= Len(stream), nib.len # 0,
         NEW data, Data(data, c, nib)
  PROVE  /\ Len(data) \in Nat /\ nib.len <= Len(data)
         /\ x + Len(data) <= size + Fast - 1
         /\ \A i \in 1 .. nib.len : data[i] = input[x+i]
<1>1. /\ Listed(stream) /\ Len(stream) \in Nat /\ size \in Nat /\ c \in Nat /\ x \in Nat
      /\ Received(full)
  BY DEF Restored, Listed
<1>2. /\ nib.run \in BOOLEAN /\ nib.len \in Nat
      /\ nib.run => nib.len <= RunCap /\ \A i \in 1 .. nib.len : input[x+i] = nib.fill
      /\ ~nib.run => nib.len <= LitCap
  BY DEF Stands
<1>3. PICK l \in Nat : l = nib.len /\ l >= 1 /\ x + l <= size
  BY <1>2
<1>4. LitCap \in Nat /\ RunCap \in Nat /\ RunCap <= LitCap + 1 /\ Fast = LitCap + 1
  BY CompressAssumption DEF Fast
<1>5. CASE nib.run
  <2>1. data = [i \in 1 .. RunCap |-> nib.fill]
    BY <1>5 DEF Data
  <2>2. Len(data) = RunCap /\ \A i \in 1 .. RunCap : data[i] = nib.fill
    BY <1>4, <2>1
  <2>3. l <= RunCap /\ \A i \in 1 .. l : input[x+i] = nib.fill
    BY <1>2, <1>3, <1>5
  <2>4. x + RunCap <= size + Fast - 1
    BY <1>1, <1>3, <1>4
  <2>5. \A i \in 1 .. l : data[i] = input[x+i]
    BY <1>4, <2>2, <2>3
  <2> QED BY <1>3, <1>4, <2>2, <2>3, <2>4, <2>5
<1>6. CASE ~nib.run
  <2>1. l \in 0 .. LitCap /\ c + l <= Len(stream)
    BY <1>2, <1>3, <1>4, <1>6
  <2>2. PICK w \in Nat : w = CopyLen(c, l, stream) /\ l <= w /\ w <= Fast /\ c + w <= Len(stream)
    <3>1. /\ CopyLen(c, l, stream) \in Nat /\ l <= CopyLen(c, l, stream)
          /\ CopyLen(c, l, stream) <= Fast /\ c + CopyLen(c, l, stream) <= Len(stream)
      BY <1>1, <2>1, CopyEnough
    <3> QED BY <3>1
  <2>3. PICK u \in Nat \ {0}, v \in Nat : u = c + 1 /\ v = c + w /\ u <= v + 1 /\ v <= Len(stream)
    <3>1. c + 1 \in Nat \ {0} /\ c + w \in Nat /\ c + 1 <= c + w + 1 /\ c + w <= Len(stream)
      BY <1>1, <2>2
    <3> QED BY <3>1
  <2>4. data = SubSeq(stream, u, v)
    BY <1>3, <1>6, <2>2, <2>3 DEF Data
  <2>5. Len(data) = v - u + 1 /\ \A i \in 1 .. v - u + 1 : data[i] = stream[u+i-1]
    <3>1. Listed(stream) /\ u <= v + 1 /\ v <= Len(stream)
      BY <1>1, <2>3
    <3>2. /\ Len(SubSeq(stream, u, v)) = v - u + 1
          /\ \A i \in 1 .. v - u + 1 : SubSeq(stream, u, v)[i] = stream[u+i-1]
      BY <3>1, SubSeqFacts
    <3> QED BY <2>4, <3>2
  <2>6. Len(data) = w
    BY <1>1, <2>2, <2>3, <2>5
  <2>7. ASSUME NEW i \in 1 .. l PROVE data[i] = input[x+i]
    <3>1. i \in 1 .. v - u + 1 /\ u + i - 1 = c + i /\ c + i \in 1 .. Len(stream)
      BY <1>1, <2>1, <2>2, <2>3, SMTT(20)
    <3>2. data[i] = stream[c+i]
      BY <2>5, <3>1
    <3>3. stream[c+i] = full[c+i]
      BY <1>1, <3>1 DEF Received
    <3>4. full[c+i] = input[x+i]
      BY <1>3, <1>6 DEF Follow
    <3> QED BY <3>2, <3>3, <3>4
  <2>8. x + w <= size + Fast - 1
    BY <1>1, <1>3, <1>4, <2>2
  <2> QED BY <1>3, <2>2, <2>6, <2>7, <2>8
<1> QED BY <1>2, <1>5, <1>6

\* A nibble that is not refused restores the bytes it stands for.
LEMMA UnpackRestores ==
  ASSUME NEW full, NEW c, NEW x, NEW m, NEW h, Restored(full, c, x, m, h),
         NEW nib, Stands(nib, x), Follow(full, c, nib, x),
         x + nib.len <= size, ~nib.run => c + nib.len <= Len(stream)
  PROVE  \E m2, h2 :
           /\ Unpack(State(TRUE, c, x, m, h), nib)
                = State(TRUE, c + Lits(nib), x + nib.len, m2, h2)
           /\ Restored(full, c + Lits(nib), x + nib.len, m2, h2)
<1>1. /\ Listed(stream) /\ Len(stream) \in Nat /\ size \in Nat /\ c \in Nat /\ x \in Nat
      /\ h \in Nat /\ Received(full) /\ Listed(input) /\ c <= Len(stream)
      /\ Len(m) = Room(size)
      /\ NoWrap => h <= size + Fast - 1 /\ \A i \in 1 .. x : m[i] = input[i]
  BY DEF Restored, Listed
<1>2. nib.run \in BOOLEAN /\ nib.len \in Nat
  BY DEF Stands
<1>3. CASE nib.len = 0
  <2>1. Lits(nib) = 0 /\ c + Lits(nib) = c /\ x + nib.len = x
    BY <1>1, <1>2, <1>3 DEF Lits
  <2>2. Unpack(State(TRUE, c, x, m, h), nib) = State(TRUE, c, x, m, h)
    BY <1>1, <1>2, <1>3, <2>1 DEF Unpack, State
  <2> QED BY <2>1, <2>2
<1>4. CASE nib.len # 0
  <2>1. PICK data : data = IF nib.run THEN [i \in 1 .. RunCap |-> nib.fill]
                           ELSE SubSeq(stream, c + 1, c + CopyLen(c, nib.len, stream))
    OBVIOUS
  <2>2. /\ Len(data) \in Nat /\ nib.len <= Len(data)
        /\ x + Len(data) <= size + Fast - 1
        /\ \A i \in 1 .. nib.len : data[i] = input[x+i]
    <3>1. Data(data, c, nib)
      BY <1>2, <2>1 DEF Data
    <3> QED BY <1>4, <3>1, DataFacts
  <2>3. PICK m2, h2 : m2 = Put(m, x, data) /\ h2 = Higher(h, x + Len(data))
    OBVIOUS
  <2>4. PICK c2 : c2 = c + Lits(nib) /\ c2 = IF nib.run THEN c ELSE c + nib.len
    BY <1>1, <1>2 DEF Lits
  <2>5. Unpack(State(TRUE, c, x, m, h), nib) = State(TRUE, c2, x + nib.len, m2, h2)
    <3>1. ~(x + nib.len > size) /\ ~(~nib.run /\ c + nib.len > Len(stream))
      BY <1>1, <1>2
    <3> QED BY <1>4, <2>1, <2>3, <2>4, <3>1 DEF Unpack, State
  <2>6. c2 \in Nat /\ c2 <= Len(stream) /\ x + nib.len \in Nat
    BY <1>1, <1>2, <2>4
  <2>7. h2 \in Nat /\ (NoWrap => h2 <= size + Fast - 1)
    <3>1. PICK w \in Nat : w = x + Len(data) /\ w <= size + Fast - 1
      BY <1>1, <2>2
    <3>2. h2 = h \/ h2 = w
      BY <2>3, <3>1 DEF Higher
    <3> QED BY <1>1, <3>1, <3>2
  <2>8. Room(size) \in Nat /\ (NoWrap => size <= Room(size))
    BY <1>1, RoomIs
  <2>9. /\ Len(m2) = Len(m)
        /\ \A i \in 1 .. Len(m) : i <= x => m2[i] = m[i]
        /\ \A i \in 1 .. Len(data) : x + i <= Len(m) => m2[x+i] = data[i]
    <3>1. Len(m) \in Nat /\ Len(data) \in Nat
      BY <1>1, <2>2, <2>8
    <3>2. m2 = Put(m, x, data)
      BY <2>3
    <3> QED BY <1>1, <3>1, <3>2, PutFacts
  <2>10. ASSUME NoWrap, NEW i \in 1 .. x + nib.len PROVE m2[i] = input[i]
    <3>1. i \in Nat /\ i <= Len(m) /\ i >= 1
      BY <1>1, <1>2, <2>8, <2>10
    <3>2. CASE i <= x
      <4>1. i \in 1 .. x /\ i \in 1 .. Len(m)
        BY <1>1, <2>8, <3>1, <3>2
      <4> QED BY <1>1, <2>9, <2>10, <3>2, <4>1
    <3>3. CASE i > x
      <4>1. PICK j \in 1 .. nib.len : i = x + j
        <5>1. i - x \in 1 .. nib.len /\ i = x + (i - x)
          BY <1>1, <1>2, <3>1, <3>3
        <5> QED BY <5>1
      <4>2. j \in 1 .. Len(data) /\ x + j <= Len(m)
        BY <1>1, <1>2, <2>2, <3>1, <4>1
      <4>3. m2[x+j] = data[j]
        BY <2>9, <4>2
      <4>4. data[j] = input[x+j]
        BY <2>2
      <4> QED BY <4>1, <4>3, <4>4
    <3> QED BY <1>1, <3>1, <3>2, <3>3
  <2>11. Restored(full, c2, x + nib.len, m2, h2)
    BY <1>1, <2>6, <2>7, <2>9, <2>10 DEF Restored
  <2> QED BY <2>4, <2>5, <2>11
<1> QED BY <1>3, <1>4

\* A mark of the stream, both nibbles: the next group is restored, or the
\* stream has lost its end.
LEMMA UnpackMarkStream == StreamInv /\ UnpackMark => StreamInv'
<1> SUFFICES ASSUME StreamInv, UnpackMark PROVE StreamInv'
  OBVIOUS
<1>1. /\ phase = "unpack" /\ src < Len(stream)
      /\ input' = input /\ stream' = stream /\ lost' = lost /\ size' = size
  BY DEF UnpackMark
<1>2. /\ input \in Seq([byte : Int]) /\ Listed(input) /\ Listed(stream) /\ lost \in BOOLEAN
      /\ Len(stream) \in Nat /\ Len(input) \in Nat /\ UnpackPart
  BY <1>1, SeqListed DEF StreamInv, Listed
<1>3. PICK full, k, r, ip, end :
        Whole(full, k, r, ip, end) /\ Received(full) /\ Unpacked(k, ip)
  BY <1>2 DEF UnpackPart
<1>4. /\ src \in Nat /\ src >= k /\ src <= Len(stream)
      /\ src - k + 1 \in DOMAIN ip /\ dest = ip[src-k+1]
      /\ size \in Nat /\ dest <= size /\ high \in Nat
      /\ Fits => size = Len(input)
      /\ Len(mem) = Room(size)
      /\ NoWrap => high <= size + Fast - 1 /\ \A i \in 1 .. dest : mem[i] = input[i]
  BY <1>3 DEF Unpacked
<1>5. /\ k \in Nat /\ Body(full, k, ip, end, Len(input)) /\ Len(full) = k + end
      /\ end \in Nat /\ DOMAIN ip \subseteq 1 .. end + 1 /\ ip \in [DOMAIN ip -> Nat]
  BY <1>3 DEF Whole, Header, Digits, Body
<1>6. PICK p \in DOMAIN ip : p = src - k + 1
  BY <1>4
<1>7. p \in 1 .. end /\ k + p = src + 1 /\ dest = ip[p] /\ dest \in Nat
  <2>1. Len(stream) <= k + end
    BY <1>3, <1>5 DEF Received
  <2> QED BY <1>1, <1>2, <1>4, <1>5, <1>6, <2>1
<1>8. PICK q \in DOMAIN ip : Group(full, k, p, ip[p], q, ip[q])
  <2>1. p # end + 1
    BY <1>5, <1>7
  <2> QED BY <1>5, <2>1 DEF Body
<1>9. PICK lo, hi : lo = stream[src+1].lo /\ hi = stream[src+1].hi
  OBVIOUS
<1>10. PICK x \in Nat : x = dest
  BY <1>7
<1>11. PICK c \in Nat : c = src + 1 /\ c <= Len(stream)
  BY <1>1, <1>2, <1>4
<1>12. /\ Stands(lo, x) /\ Follow(full, c, lo, x)
       /\ Stands(hi, x + lo.len) /\ Follow(full, c + Lits(lo), hi, x + lo.len)
       /\ q = p + 1 + Lits(lo) + Lits(hi) /\ ip[q] = x + lo.len + hi.len
  <2>1. stream[src+1] = full[src+1]
    BY <1>1, <1>2, <1>3, <1>4, ReceivedByte
  <2>2. full[k+p].lo = lo /\ full[k+p].hi = hi /\ k + p = c /\ ip[p] = x
    BY <1>7, <1>9, <1>10, <1>11, <2>1
  <2> QED BY <1>8, <2>2 DEF Group
<1>13. /\ lo.len \in Nat /\ hi.len \in Nat /\ lo.run \in BOOLEAN /\ hi.run \in BOOLEAN
       /\ x + lo.len + hi.len <= Len(input) /\ q \in 1 .. end + 1
  BY <1>5, <1>12 DEF Stands
<1>14. PICK a \in Nat, b \in Nat :
         /\ a = Lits(lo) /\ b = Lits(hi)
         /\ (~lo.run => a = lo.len) /\ (~hi.run => b = hi.len)
  BY <1>13 DEF Lits
<1>15. ASSUME Fits, ~lost
       PROVE  /\ x + lo.len <= size /\ x + lo.len + hi.len <= size
              /\ c + a <= Len(stream) /\ c + a + b <= Len(stream)
  <2>1. Len(stream) = k + end
    BY <1>2, <1>3, <1>5, <1>15 DEF Received
  <2>2. size = Len(input)
    BY <1>4, <1>15
  <2>3. c + a + b = k + q - 1 /\ k + q - 1 <= k + end
    <3>1. q = p + 1 + a + b
      BY <1>12, <1>14
    <3>2. k + p = c /\ p \in Nat /\ k \in Nat /\ end \in Nat /\ q \in 1 .. end + 1
      BY <1>5, <1>7, <1>11, <1>13
    <3> QED BY <3>1, <3>2
  <2> QED BY <1>2, <1>13, <2>1, <2>2, <2>3
<1>16. PICK m, h : m = mem /\ h = high
  OBVIOUS
<1>17. Restored(full, c, x, m, h)
  BY <1>2, <1>3, <1>4, <1>10, <1>11, <1>16 DEF Restored
<1>18. PICK one : one = Unpack(State(TRUE, c, x, m, h), lo)
  OBVIOUS
<1>19. PICK two : two = Unpack(one, hi)
  OBVIOUS
<1>20. /\ src' = two.src /\ dest' = two.dest /\ mem' = two.mem /\ high' = two.high
       /\ IF two.ok THEN phase' = phase /\ answer' = answer
          ELSE phase' = "done" /\ answer' = "false"
  BY <1>9, <1>10, <1>11, <1>16, <1>18, <1>19 DEF UnpackMark, State, Return
<1>21. ASSUME two.ok = FALSE, Fits => lost PROVE StreamInv'
  <2>1. phase' = "done" /\ answer' = "false"
    BY <1>20, <1>21
  <2>2. RoundTrip'
    BY <1>1, <1>2, <1>21, <2>1 DEF RoundTrip, Fits
  <2> QED BY <1>1, <1>2, <2>1, <2>2 DEF StreamInv
<1>22. CASE ~(x + lo.len <= size /\ (~lo.run => c + lo.len <= Len(stream)))
  <2>1. x + lo.len > size \/ (~lo.run /\ c + lo.len > Len(stream))
    BY <1>2, <1>4, <1>13, <1>22
  <2>2. TRUE \in BOOLEAN /\ FALSE \in BOOLEAN
    OBVIOUS
  <2>3. one = State(FALSE, c, x, m, h)
    BY <1>13, <1>18, <2>1, <2>2, UnpackRefuses, ZenonT(30)
  <2>4. two = State(FALSE, c, x, m, h)
    BY <1>13, <1>19, <2>2, <2>3, UnpackRefuses
  <2>5. two.ok = FALSE
    BY <2>4 DEF State
  <2>6. Fits => lost
    BY <1>14, <1>15, <1>22
  <2> QED BY <1>21, <2>5, <2>6
<1>23. CASE x + lo.len <= size /\ (~lo.run => c + lo.len <= Len(stream))
  <2>1. PICK m1, h1 : /\ one = State(TRUE, c + Lits(lo), x + lo.len, m1, h1)
                      /\ Restored(full, c + Lits(lo), x + lo.len, m1, h1)
    BY <1>12, <1>17, <1>18, <1>23, UnpackRestores, ZenonT(30)
  <2>2. PICK c1 \in Nat, x1 \in Nat : c1 = c + Lits(lo) /\ x1 = x + lo.len
    BY <1>13, <1>14
  <2>3. /\ one = State(TRUE, c1, x1, m1, h1) /\ Restored(full, c1, x1, m1, h1)
        /\ Stands(hi, x1) /\ Follow(full, c1, hi, x1)
    BY <1>12, <2>1, <2>2
  <2>4. CASE ~(x1 + hi.len <= size /\ (~hi.run => c1 + hi.len <= Len(stream)))
    <3>1. x1 + hi.len > size \/ (~hi.run /\ c1 + hi.len > Len(stream))
      BY <1>2, <1>4, <1>13, <2>4
    <3>2. TRUE \in BOOLEAN
      OBVIOUS
    <3>3. two = State(FALSE, c1, x1, m1, h1)
      BY <1>13, <1>19, <2>3, <3>1, <3>2, UnpackRefuses, ZenonT(30)
    <3>4. two.ok = FALSE
      BY <3>3 DEF State
    <3>5. Fits => lost
      BY <1>14, <1>15, <2>2, <2>4
    <3> QED BY <1>21, <3>4, <3>5
  <2>5. CASE x1 + hi.len <= size /\ (~hi.run => c1 + hi.len <= Len(stream))
    <3>1. PICK m2, h2 : /\ two = State(TRUE, c1 + Lits(hi), x1 + hi.len, m2, h2)
                        /\ Restored(full, c1 + Lits(hi), x1 + hi.len, m2, h2)
      BY <1>19, <2>3, <2>5, UnpackRestores, ZenonT(30)
    <3>2. PICK c2 \in Nat, x2 \in Nat : c2 = c1 + Lits(hi) /\ x2 = x1 + hi.len
      BY <1>13, <1>14, SMTT(20)
    <3>3. two = State(TRUE, c2, x2, m2, h2) /\ Restored(full, c2, x2, m2, h2)
      BY <3>1, <3>2
    <3>4. /\ src' = c2 /\ dest' = x2 /\ mem' = m2 /\ high' = h2
          /\ phase' = phase /\ answer' = answer
      BY <1>20, <3>3 DEF State
    <3>5. c2 >= k /\ c2 - k + 1 = q /\ x2 = ip[q]
      <4>1. q = p + 1 + a + b /\ ip[q] = x + lo.len + hi.len
        BY <1>12, <1>14
      <4>2. k + p = c /\ p \in Nat /\ k \in Nat
        BY <1>5, <1>7, <1>11
      <4>3. c2 = c + a + b
        BY <1>14, <2>2, <3>2
      <4>4. x2 = x + lo.len + hi.len
        BY <2>2, <3>2
      <4> QED BY <4>1, <4>2, <4>3, <4>4
    <3>6. /\ c2 <= Len(stream) /\ x2 <= size /\ h2 \in Nat /\ Len(m2) = Room(size)
          /\ NoWrap => h2 <= size + Fast - 1 /\ \A i \in 1 .. x2 : m2[i] = input[i]
      BY <3>3 DEF Restored
    <3>7. Unpacked(k, ip)'
      <4>1. Fits' => size' = Len(input')
        BY <1>1, <1>4 DEF Fits
      <4>2. Len(mem') = Room(size')
        BY <1>1, <3>4, <3>6
      <4>3. NoWrap' => high' <= size' + Fast - 1 /\ \A i \in 1 .. dest' : mem'[i] = input'[i]
        BY <1>1, <3>4, <3>6 DEF NoWrap
      <4>4. /\ src' \in Nat /\ src' >= k /\ src' <= Len(stream')
            /\ src' - k + 1 \in DOMAIN ip /\ dest' = ip[src'-k+1]
            /\ size' \in Nat /\ dest' <= size' /\ high' \in Nat
        BY <1>1, <1>4, <3>4, <3>5, <3>6
      <4> QED BY <4>1, <4>2, <4>3, <4>4 DEF Unpacked
    <3>8. Whole(full, k, r, ip, end)' /\ Received(full)'
      BY <1>1, <1>3, WholePrimed DEF Received
    <3>9. UnpackPart'
      BY <3>7, <3>8 DEF UnpackPart
    <3> QED BY <1>1, <1>2, <3>4, <3>9 DEF StreamInv, RoundTrip
  <2> QED BY <2>4, <2>5
<1> QED BY <1>22, <1>23

\* At the end of the stream all is restored, or the stream has lost its end.
LEMMA UnpackDoneStream == StreamInv /\ UnpackDone => StreamInv'
<1> SUFFICES ASSUME StreamInv, UnpackDone PROVE StreamInv'
  OBVIOUS
<1>1. /\ phase = "unpack" /\ src = Len(stream) /\ phase' = "done"
      /\ input' = input /\ stream' = stream /\ lost' = lost /\ size' = size
      /\ mem' = Resized(mem, size)
      /\ answer' = IF dest = size THEN "true" ELSE "false"
  BY DEF UnpackDone, Return
<1>2. /\ input \in Seq([byte : Int]) /\ Listed(input) /\ Listed(stream) /\ lost \in BOOLEAN
      /\ Len(stream) \in Nat /\ Len(input) \in Nat /\ UnpackPart
  BY <1>1, SeqListed DEF StreamInv, Listed
<1>3. PICK full, k, r, ip, end :
        Whole(full, k, r, ip, end) /\ Received(full) /\ Unpacked(k, ip)
  BY <1>2 DEF UnpackPart
<1>4. /\ src - k + 1 \in DOMAIN ip /\ dest = ip[src-k+1] /\ size \in Nat
      /\ Fits => size = Len(input)
      /\ Len(mem) = Room(size)
      /\ NoWrap => \A i \in 1 .. dest : mem[i] = input[i]
  BY <1>3 DEF Unpacked
<1>5. /\ k \in Nat /\ Len(full) = k + end /\ end \in Nat
      /\ ip[end+1] = Len(input)
      /\ \A p \in DOMAIN ip \ {end + 1} : ip[p] < Len(input)
      /\ ip \in [DOMAIN ip -> Nat]
  BY <1>3 DEF Whole, Header, Digits, Body
<1>6. ASSUME Fits, lost PROVE answer' = "false"
  <2>1. Len(stream) < k + end
    BY <1>3, <1>5, <1>6 DEF Received
  <2>2. src - k + 1 # end + 1
    BY <1>1, <1>2, <1>5, <2>1
  <2>3. dest < Len(input) /\ dest \in Nat
    BY <1>4, <1>5, <2>2
  <2>4. size = Len(input)
    BY <1>4, <1>6
  <2> QED BY <1>1, <2>3, <2>4
<1>7. ASSUME Fits, ~lost PROVE answer' = "true" /\ mem' = input
  <2>1. Len(stream) = k + end
    BY <1>2, <1>3, <1>5, <1>7 DEF Received
  <2>2. src - k + 1 = end + 1
    BY <1>1, <1>2, <1>5, <2>1
  <2>3. size = Len(input) /\ dest = size
    BY <1>4, <1>5, <1>7, <2>2
  <2>4. NoWrap
    BY <1>7, <2>3 DEF NoWrap, Fits
  <2>5. size <= Len(mem) /\ Len(mem) \in Nat
    BY <1>4, <2>4, RoomIs
  <2>6. mem' = [i \in 1 .. size |-> input[i]]
    <3>1. \A i \in 1 .. size : i <= Len(mem) /\ mem[i] = input[i]
      BY <1>4, <2>3, <2>4, <2>5
    <3> QED BY <1>1, <3>1 DEF Resized
  <2>7. input = [i \in 1 .. size |-> input[i]]
    BY <1>2, <2>3 DEF Listed
  <2> QED BY <1>1, <2>3, <2>6, <2>7
<1>8. RoundTrip'
  BY <1>1, <1>6, <1>7 DEF RoundTrip, Fits
<1> QED BY <1>1, <1>2, <1>8 DEF StreamInv

-----------------------------------------------------------------------------

\* Every step keeps the invariant.
LEMMA NextStream == PrefixInv /\ PackInv /\ StreamInv /\ [Next]_vars => StreamInv'
<1> SUFFICES ASSUME PrefixInv, PackInv, StreamInv, [Next]_vars PROVE StreamInv'
  OBVIOUS
<1>1. CASE PackNothing \/ PrefixDigit \/ PrefixLast
  BY <1>1, PackNothingStream, PrefixDigitStream, PrefixLastStream
<1>2. CASE PackPair \/ PackLast \/ PackDone
  BY <1>2, PackPairStream, PackLastStream, PackDoneStream
<1>3. CASE Deliver \/ ParseDigit \/ ParseFails
  BY <1>3, DeliverStream, ParseDigitStream, ParseFailsStream
<1>4. CASE UnpackMark \/ UnpackDone
  BY <1>4, UnpackMarkStream, UnpackDoneStream
<1>5. CASE Finished \/ UNCHANGED vars
  <2>1. UNCHANGED vars
    BY <1>5 DEF Finished
  <2>2. PrefixPart => PrefixPart'
    BY <2>1 DEF vars, PrefixPart, Digits
  <2>3. PackPart => PackPart'
    <3> SUFFICES ASSUME PackPart PROVE PackPart'
      OBVIOUS
    <3>1. PICK r, ip : Header(stream, Len(stream), r) /\ Body(mem, 0, ip, dest, src)
      BY DEF PackPart
    <3>2. Header(stream, Len(stream), r)'
      BY <2>1, <3>1 DEF vars, Header, Digits
    <3>3. Body(mem, 0, ip, dest, src)'
      BY <2>1, <3>1 DEF vars, Body, Group, Stands, Follow, Lits
    <3>4. Listed(mem)'
      BY <2>1 DEF vars, PackPart, Listed
    <3> QED BY <3>2, <3>3, <3>4 DEF PackPart
  <2>4. PackedPart => PackedPart'
    <3> SUFFICES ASSUME PackedPart PROVE PackedPart'
      OBVIOUS
    <3>1. stream' = stream /\ input' = input
      BY <2>1 DEF vars
    <3>2. CASE stream = <<>>
      BY <3>1, <3>2 DEF PackedPart
    <3>3. CASE stream # <<>>
      <4>1. PICK s, k, r, ip, end : s = stream /\ Whole(s, k, r, ip, end)
        BY <3>3 DEF PackedPart
      <4>2. Whole(s, k, r, ip, end)' /\ s = stream'
        BY <3>1, <4>1, WholePrimed
      <4> QED BY <3>1, <3>3, <4>2 DEF PackedPart
    <3> QED BY <3>2, <3>3
  <2>5. SizePart => SizePart'
    <3> SUFFICES ASSUME SizePart PROVE SizePart'
      OBVIOUS
    <3>1. PICK full, k, r, ip, end :
            Whole(full, k, r, ip, end) /\ Received(full) /\ SizeRead(k, r)
      BY DEF SizePart
    <3>2. Whole(full, k, r, ip, end)'
      BY <2>1, <3>1, WholePrimed DEF vars
    <3>3. Received(full)' /\ SizeRead(k, r)'
      BY <2>1, <3>1 DEF vars, Received, SizeRead
    <3> QED BY <3>2, <3>3 DEF SizePart
  <2>6. UnpackPart => UnpackPart'
    <3> SUFFICES ASSUME UnpackPart PROVE UnpackPart'
      OBVIOUS
    <3>1. PICK full, k, r, ip, end :
            Whole(full, k, r, ip, end) /\ Received(full) /\ Unpacked(k, ip)
      BY DEF UnpackPart
    <3>2. Whole(full, k, r, ip, end)'
      BY <2>1, <3>1, WholePrimed DEF vars
    <3>3. Received(full)' /\ Unpacked(k, ip)'
      BY <2>1, <3>1 DEF vars, Received, Unpacked, Fits, NoWrap, Room
    <3> QED BY <3>2, <3>3 DEF UnpackPart
  <2> QED BY <2>1, <2>2, <2>3, <2>4, <2>5, <2>6 DEF vars, StreamInv, RoundTrip, Fits, Listed
<1> QED BY <1>1, <1>2, <1>3, <1>4, <1>5 DEF Next

\* Decompress never writes outside the size+7 bytes that it reserves, whatever
\* was lost from the end of a stream that Compress returned, as long as size+7
\* is an unsigned: for inputs of every length and contents.
THEOREM UnpackingInside == Spec => []UnpackStaysInside
<1>1. StreamInv => UnpackStaysInside
  <2> SUFFICES ASSUME StreamInv, phase = "unpack", size + Fast <= Word PROVE high <= Len(mem)
    BY DEF UnpackStaysInside
  <2>1. PICK k, ip : Unpacked(k, ip)
    BY DEF StreamInv, UnpackPart
  <2>2. size \in Nat /\ NoWrap /\ high <= size + Fast - 1 /\ Len(mem) = Room(size)
    BY <2>1 DEF Unpacked, NoWrap
  <2> QED BY <2>2, RoomIs
<1> QED BY <1>1, InitPackInv, NextPackInv, InitStream, NextStream, PTL DEF Spec

\* Decompress of all that Compress returned restores the input, and a stream
\* that lost its end is refused: for inputs of every length and contents that
\* the unsigned arithmetic of Decompress can carry.
THEOREM RoundTripCorrect == Spec => []RoundTrip
<1>1. StreamInv => RoundTrip
  BY DEF StreamInv
<1> QED BY <1>1, InitPackInv, NextPackInv, InitStream, NextStream, PTL DEF Spec

=============================================================================
