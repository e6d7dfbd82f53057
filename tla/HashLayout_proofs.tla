------------------------- MODULE HashLayout_proofs -------------------------
(* The constant division and the layout of the stored index, for every     *)
(* number of keys the code accepts and every word size.                    *)
EXTENDS HashLayout, TLAPS

-----------------------------------------------------------------------------
(* Divisor computes the quotient and the remainder.                        *)

\* A quotient is known by the two multiples around the dividend.
LEMMA DivUnique ==
  ASSUME NEW a \in Nat, NEW b \in Nat \ {0}, NEW q \in Nat,
         q * b <= a, a < q * b + b
  PROVE  a \div b = q
<1>1. a = b * (a \div b) + (a % b) /\ a % b \in 0 .. b-1 /\ a \div b \in Int
  OBVIOUS
<1> DEFINE d == a \div b
<1>2. d \in Int /\ b * d <= a /\ a < b * d + b
  BY <1>1
<1> HIDE DEF d
<1>3. CASE d < q
  <2>1. d + 1 <= q
    BY <1>2, <1>3
  <2>2. b * (d + 1) <= b * q
    BY <2>1, <1>2
  <2>3. QED BY <2>2, <1>2
<1>4. CASE d > q
  <2>1. q + 1 <= d
    BY <1>2, <1>4
  <2>2. b * (q + 1) <= b * d
    BY <2>1, <1>2
  <2>3. QED BY <2>2, <1>2
<1>5. QED BY <1>2, <1>3, <1>4 DEF d

\* A factor common to both sides of a comparison can be cancelled.
LEMMA CancelFactor ==
  ASSUME NEW n \in Nat \ {0}, NEW a \in Int, NEW b \in Int
  PROVE  /\ n * a <= n * b => a <= b
         /\ n * a < n * b => a < b
<1>1. CASE a > b
  <2>1. n * a >= n * (b + 1)
    BY <1>1
  <2>2. QED BY <2>1, <1>1
<1>2. CASE a = b
  BY <1>2
<1>3. QED BY <1>1, <1>2

\* Products of ordered numbers are ordered.
LEMMA ProductBound ==
  ASSUME NEW a \in Nat, NEW b \in Nat, NEW c \in Nat, NEW d \in Nat,
         a <= c, b <= d
  PROVE  a * b <= c * d
<1>1. a * b <= c * b
  OBVIOUS
<1>2. c * b <= c * d
  OBVIOUS
<1>3. a * b \in Int /\ c * b \in Int /\ c * d \in Int
  OBVIOUS
<1>4. QED BY <1>1, <1>2, <1>3

\* The power of two below n.
LEMMA TopFacts ==
  ASSUME NEW n \in 1 .. W-1
  PROVE  /\ Top(n) \in Nat \ {0} /\ Top(n) < W
         /\ Top(n) <= n /\ n < 2 * Top(n)
         /\ Top(n) # n => (Top(n) * W) % n # 0
<1>1. \E p \in Powers : p <= n /\ n < 2*p
  BY WordAssumption
<1>2. Top(n) \in Powers /\ Top(n) <= n /\ n < 2 * Top(n)
  <2>1. PICK p \in Powers : p <= n /\ n < 2*p
    BY <1>1
  <2>2. QED BY <2>1 DEF Top
<1>3. Top(n) \in Nat \ {0} /\ Top(n) < W
  <2>1. Powers \subseteq 1 .. W-1 /\ W \in Nat
    BY WordAssumption, Zenon
  <2>2. Top(n) \in 1 .. W-1
    BY <2>1, <1>2, Zenon
  <2>3. QED BY <2>1, <2>2
<1>4. Top(n) # n => n \in Top(n) + 1 .. 2 * Top(n) - 1
  BY <1>2, <1>3
<1>5. Top(n) # n => (Top(n) * W) % n # 0
  BY <1>2, <1>4, WordAssumption, Zenon
<1>6. QED BY <1>2, <1>3, <1>5

\* The rounded ratio and what it leaves.
LEMMA RatioFacts ==
  ASSUME NEW n \in 1 .. W-1, Top(n) # n
  PROVE  \E e \in 1 .. n-1 :
           /\ Ratio(n) \in Nat
           /\ n * Ratio(n) = Top(n) * W - e
           /\ RoundsUp(n) <=> n - e <= Top(n)
           /\ Ratio(n) + 1 < W
<1> DEFINE P == Top(n)
           F == Ratio(n)
           K == P * W
           e == K % n
<1>1. P \in Nat \ {0} /\ P < W /\ P < n /\ n < 2 * P /\ e # 0 /\ W \in Nat \ {0}
  BY TopFacts, WordAssumption
<1>2. K \in Nat
  BY <1>1
<1>3. /\ F \in Int /\ K = n * F + e /\ e \in 1 .. n-1
  <2> HIDE DEF K
  <2>1. K = n * (K \div n) + (K % n) /\ K % n \in 0 .. n-1 /\ K \div n \in Int
    BY <1>2
  <2>2. F = K \div n
    BY DEF K, Ratio
  <2>3. QED BY <2>1, <2>2, <1>1
<1> HIDE DEF e, F, K, P
<1>4. F \in Nat
  <2>1. CASE F < 0
    <3>1. n * F <= n * (0 - 1)
      BY <2>1, <1>3
    <3>2. QED BY <3>1, <1>3, <1>2
  <2>2. QED BY <2>1, <1>3
<1>5. F + 1 < W
  <2>1. CASE F + 1 >= W
    <3>1. n * (W - 1) <= n * F
      BY <2>1, <1>1, <1>4
    <3>2. (P + 1) * (W - 1) <= n * (W - 1)
      BY <1>1
    <3>3. (P + 1) * (W - 1) = P * W + W - P - 1
      BY <1>1
    <3>4. P * W + W - P - 1 <= P * W - 1
      BY <3>1, <3>2, <3>3, <1>3, <1>1, <1>4 DEF K
    <3>5. P * W \in Int
      BY <1>1
    <3>6. QED BY <3>4, <3>5, <1>1
  <2>2. QED BY <2>1, <1>1, <1>4
<1>6. (F * n + n) % W = n - e
  <2>1. F * n + n = W * P + (n - e)
    BY <1>3, <1>1, <1>4 DEF K
  <2>2. n - e \in 0 .. W-1
    BY <1>3, <1>1
  <2>3. (W * P + (n - e)) \div W = P
    <3>1. W * P \in Nat /\ n - e \in Nat
      BY <1>1, <2>2
    <3>2. P * W <= W * P + (n - e) /\ W * P + (n - e) < P * W + W
      BY <3>1, <2>2, <1>1
    <3>3. W * P + (n - e) \in Nat
      BY <3>1
    <3>4. QED BY <3>2, <3>3, <1>1, DivUnique
  <2> DEFINE A == W * P + (n - e)
  <2>4. A \in Nat
    BY <1>1, <2>2
  <2>5. A = W * (A \div W) + (A % W)
    BY <2>4, <1>1, SMTT(20)
  <2>6. A % W = n - e
    <3>1. A % W \in Int /\ W * P \in Int
      BY <2>4, <1>1
    <3>2. A \div W = P
      BY <2>3
    <3>3. A = W * P + (A % W)
      BY <2>5, <3>2
    <3>4. QED BY <3>1, <3>3, <2>2
  <2>7. QED BY <2>1, <2>6
<1>7. RoundsUp(n) <=> n - e <= P
  BY <1>6 DEF RoundsUp, P, F
<1>8. n * F = Top(n) * W - e
  BY <1>3, <1>2, <1>1, <1>4 DEF K, P
<1>9. QED BY <1>3, <1>4, <1>5, <1>7, <1>8 DEF F, P
\* Divisor::div is division, for every divisor and every word.
THEOREM DivisorExact ==
  ASSUME NEW n \in 1 .. W-1, NEW m \in 0 .. W-1
  PROVE  Div(n, m) = m \div n /\ Mod(n, m) = m % n
<1> DEFINE P == Top(n)
           K == W * P
           q == m \div n
           t == m % n
<1>1. /\ P \in Nat \ {0} /\ P < W /\ P <= n /\ n < 2 * P
      /\ W \in Nat \ {0} /\ n \in Nat \ {0} /\ m \in Nat /\ m < W /\ n < W
  BY TopFacts, WordAssumption
<1>2. m = q * n + t /\ t \in 0 .. n-1 /\ q \in Nat
  <2>1. m = n * (m \div n) + (m % n) /\ m % n \in 0 .. n-1 /\ m \div n \in Int
    BY <1>1
  <2>2. CASE q < 0
    <3>1. n * q <= n * (0 - 1)
      BY <2>1, <2>2, <1>1
    <3>2. QED BY <3>1, <2>1, <1>1
  <2>3. QED BY <2>1, <2>2, <1>1
<1>3. K \in Nat \ {0}
  BY <1>1
<1> HIDE DEF P, q, t
<1>4. n * (q * K) = K * (m - t)
  <2>1. n * (q * K) = K * (q * n)
    BY <1>1, <1>2, <1>3
  <2>2. q * n = m - t
    BY <1>1, <1>2
  <2>3. QED BY <2>1, <2>2
<1>5. ASSUME NEW X \in Nat, NEW d \in Int,
             n * X = K * m - K * t + d, 0 <= d, d < n * K
      PROVE  X \div K = q
  <2>1. n * (q * K) = K * m - K * t
    BY <1>4, <1>1, <1>2, <1>3
  <2>2. n * (q * K + K) = K * m - K * t + n * K
    BY <2>1, <1>1, <1>2, <1>3
  <2>3. q * K \in Int /\ q * K + K \in Int /\ n * X \in Int
        /\ K * m - K * t \in Int /\ n * K \in Int
    BY <1>1, <1>2, <1>3
  <2>4. n * (q * K) <= n * X /\ n * X < n * (q * K + K)
    BY <2>1, <2>2, <2>3, <1>5
  <2>5. q * K <= X /\ X < q * K + K
    BY <2>4, <2>3, <1>1, CancelFactor
  <2>6. QED BY <2>5, <1>2, <1>3, DivUnique
<1>6. K * t \in Int /\ K * m \in Int /\ n * K \in Int /\ K * t <= n * K - K
  <2>1. K * t <= K * (n - 1)
    BY <1>1, <1>2, <1>3
  <2>2. K * (n - 1) = n * K - K
    BY <1>1, <1>3
  <2>3. QED BY <2>1, <2>2, <1>1, <1>2, <1>3
<1>7. ASSUME Top(n) = n
      PROVE  Div(n, m) = q
  <2> DEFINE X == (W - 1) * m + (W - 1)
  <2>1. X \in Nat
    BY <1>1
  <2>2. n * X = K * m - K * t + (K * t + (K - n * (m + 1)))
    <3>1. n * X = n * ((W * m + W) - (m + 1))
      BY <1>1
    <3>2. n * ((W * m + W) - (m + 1)) = n * (W * m) + n * W - n * (m + 1)
      BY <1>1
    <3>3. n * (W * m) = K * m /\ n * W = K
      BY <1>1, <1>7 DEF P
    <3>4. n * (m + 1) \in Int
      BY <1>1
    <3>5. QED BY <3>1, <3>2, <3>3, <3>4, <1>6, <1>3
  <2>3. 0 <= K - n * (m + 1) /\ n * (m + 1) \in Int /\ n * (m + 1) >= 1
    <3>1. n * (m + 1) <= n * W
      BY <1>1
    <3>2. n * W = K
      BY <1>1, <1>7 DEF P
    <3>3. n * 1 <= n * (m + 1)
      BY <1>1
    <3>4. QED BY <3>1, <3>2, <3>3, <1>1
  <2>4. K * t >= 0
    BY <1>2, <1>3
  <2>5. X \div K = q
    <3> DEFINE dd == K * t + (K - n * (m + 1))
    <3>1. dd \in Int /\ 0 <= dd /\ dd < n * K
      BY <2>3, <2>4, <1>6, <1>3
    <3> HIDE DEF X, dd, K
    <3>2. n * X = K * m - K * t + dd
      BY <2>2 DEF dd
    <3>3. QED BY <3>1, <3>2, <2>1, <1>5
  <2>6. QED BY <2>5, <1>7 DEF Div, Fac, Tip, P
<1>8. ASSUME Top(n) # n
      PROVE  Div(n, m) = q
  <2>1. PICK e \in 1 .. n-1 : /\ Ratio(n) \in Nat
                              /\ n * Ratio(n) = P * W - e
                              /\ RoundsUp(n) <=> n - e <= P
                              /\ Ratio(n) + 1 < W
    BY <1>8, RatioFacts DEF P
  <2> DEFINE F == Ratio(n)
  <2>2. F \in Nat /\ n * F = K - e
    BY <2>1, <1>1
  <2>3. (F + 1) % W = F + 1
    BY <2>1, <1>1
  <2> HIDE DEF F
  <2>4. CASE RoundsUp(n)
    <3> DEFINE X == (F + 1) * m
    <3>1. X \in Nat
      BY <2>2, <1>1
    <3>2. n * X = K * m - K * t + (K * t + (n - e) * m)
      <4>1. n * X = (n * F + n) * m
        BY <2>2, <1>1
      <4>2. n * F + n = K + (n - e)
        BY <2>2, <1>3, <1>1
      <4>3. (K + (n - e)) * m = K * m + (n - e) * m
        BY <1>3, <1>1
      <4>4. (n - e) * m \in Int
        BY <1>1
      <4>5. QED BY <4>1, <4>2, <4>3, <4>4, <1>6
    <3>3. (n - e) * m \in Int /\ 0 <= (n - e) * m /\ (n - e) * m < K
      <4>1. n - e <= P /\ n - e \in Nat /\ m <= W - 1 /\ W - 1 \in Nat
        BY <2>1, <2>4, <1>1
      <4>2. (n - e) * m <= P * (W - 1)
        BY <4>1, <1>1, ProductBound
      <4>3. P * (W - 1) = K - P
        BY <1>1
      <4>4. (n - e) * m \in Nat
        BY <4>1, <1>1
      <4>5. QED BY <4>2, <4>3, <4>4, <1>1, <1>3
    <3>4. X \div K = q
      <4> DEFINE dd == K * t + (n - e) * m
      <4>1. K * t >= 0
        BY <1>2, <1>3
      <4>2. dd \in Int /\ 0 <= dd /\ dd < n * K
        BY <3>3, <4>1, <1>6, <1>3
      <4> HIDE DEF X, dd, K
      <4>3. n * X = K * m - K * t + dd
        BY <3>2 DEF dd
      <4>4. QED BY <4>2, <4>3, <3>1, <1>5
    <3>5. Fac(n) = F + 1 /\ Tip(n) = 0
      BY <2>3, <2>4, <1>8 DEF Fac, Tip, F
    <3>6. X + 0 = X
      BY <3>1
    <3>7. QED BY <3>4, <3>5, <3>6 DEF Div, P
  <2>5. CASE ~RoundsUp(n)
    <3> DEFINE X == F * m + F
    <3>1. X \in Nat
      BY <2>2, <1>1
    <3>2. n * X = K * m - K * t + (K * t + (K - e * (m + 1)))
      <4>1. n * X = (n * F) * (m + 1)
        BY <2>2, <1>1
      <4>2. (K - e) * (m + 1) = K * m + K - e * (m + 1)
        BY <1>3, <1>1
      <4>3. e * (m + 1) \in Int
        BY <1>1
      <4>4. QED BY <4>1, <4>2, <4>3, <2>2, <1>6, <1>3
    <3>3. e * (m + 1) \in Int /\ 1 <= e * (m + 1) /\ e * (m + 1) <= K
      <4>1. e <= P /\ m + 1 <= W /\ e \in Nat /\ m + 1 \in Nat /\ 1 <= e
            /\ 1 <= m + 1
        BY <2>1, <2>5, <1>1
      <4>2. e * (m + 1) <= P * W
        BY <4>1, <1>1, ProductBound
      <4>3. 1 * 1 <= e * (m + 1)
        BY <4>1, ProductBound
      <4>4. P * W = K
        BY <1>1
      <4>5. e * (m + 1) \in Nat
        BY <4>1
      <4>6. QED BY <4>2, <4>3, <4>4, <4>5
    <3>4. X \div K = q
      <4> DEFINE dd == K * t + (K - e * (m + 1))
      <4>1. K * t >= 0
        BY <1>2, <1>3
      <4>2. dd \in Int /\ 0 <= dd /\ dd < n * K
        BY <3>3, <4>1, <1>6, <1>3
      <4> HIDE DEF X, dd, K
      <4>3. n * X = K * m - K * t + dd
        BY <3>2 DEF dd
      <4>4. QED BY <4>2, <4>3, <3>1, <1>5
    <3>5. Fac(n) = F /\ Tip(n) = F
      BY <2>5, <1>8 DEF Fac, Tip, F
    <3>6. QED BY <3>4, <3>5 DEF Div, P
  <2>6. QED BY <2>4, <2>5
<1>9. Div(n, m) = q
  BY <1>7, <1>8
<1>10. Mod(n, m) = t
  <2>1. Mod(n, m) = m - n * q
    BY <1>9 DEF Mod
  <2>2. QED BY <2>1, <1>1, <1>2
<1>11. QED BY <1>9, <1>10 DEF q, t

-----------------------------------------------------------------------------
(* The index as it is stored.                                              *)

\* The two size computations of the code agree: the table is there exactly
\* from 25 keys on, and has a Word of the right size per block.
LEMMA SizesAgree ==
  ASSUME NEW n \in Nat, n > 1, n < 268435456
  PROVE  BuildBytes(n) = ReaderBytes(n)
<1> DEFINE q == (n * 105 + 255) \div 256
           s == Section(n)
           b == (s * 3 + 31) \div 32
<1>1. q \in Nat /\ 256 * q <= n * 105 + 255 /\ n * 105 + 255 < 256 * q + 256
  OBVIOUS
<1>2. s \in Nat /\ s >= 10 /\ (n <= 24 => s = 10) /\ (n > 24 => s > 10)
  BY <1>1 DEF Section
<1>3. b \in Nat /\ 32 * b <= s * 3 + 31 /\ s * 3 + 31 < 32 * b + 32
  BY <1>2
<1>4. b >= 1 /\ (n <= 24 => b = 1) /\ (n > 24 => b > 1)
  BY <1>2, <1>3
<1>5. BitmapSize(s) = 8 * b
  BY DEF BitmapSize
<1>6. BuildBytes(n) = 8 + 8 * b + (IF 8 * b > 8 THEN ((8 * b) \div 8) * WordSize(n) ELSE 0)
  BY <1>5 DEF BuildBytes
<1>7. ReaderBytes(n) = 8 + 8 * b + (IF n > 65535 THEN (8 * b) \div 2
                  ELSE IF n > 255 THEN (8 * b) \div 4
                  ELSE IF n > 24 THEN (8 * b) \div 8 ELSE 0)
  BY <1>5 DEF ReaderBytes
<1> HIDE DEF b
<1>8. (8 * b) \div 8 = b /\ (8 * b) \div 4 = 2 * b /\ (8 * b) \div 2 = 4 * b
  BY <1>3
<1>9. QED BY <1>3, <1>4, <1>6, <1>7, <1>8 DEF WordSize

\* The numbers of keys the model considers, as natural numbers.
LEMMA TotalFacts ==
  ASSUME NEW n \in Totals, n < Limit
  PROVE  /\ n \in Nat /\ n < 268435456
         /\ Section(n) \in 1 .. W-1 /\ Section(n) >= 10
<1>1. n \in Nat /\ Limit \in Nat /\ Limit <= 268435456
  BY LayoutAssumption
<1>2. (n * 105 + 255) \div 256 < W /\ 10 < W /\ W \in Nat
  BY LayoutAssumption, WordAssumption
<1>3. (n * 105 + 255) \div 256 \in Int
  BY <1>1
<1>4. QED BY <1>1, <1>2, <1>3 DEF Section

\* Enough blocks for the slots.
LEMMA BitmapFacts ==
  ASSUME NEW s \in Nat \ {0}
  PROVE  \E b \in Nat \ {0} : BitmapSize(s) = 8 * b /\ 3 * s <= 32 * b
<1> DEFINE b == (s * 3 + 31) \div 32
<1>1. b \in Nat /\ 32 * b <= s * 3 + 31 /\ s * 3 + 31 < 32 * b + 32
  OBVIOUS
<1>2. b # 0 /\ 3 * s <= 32 * b
  BY <1>1
<1>3. QED BY <1>1, <1>2 DEF BitmapSize

\* A slot of any code lies in one of the three sections.
LEMMA SlotBound ==
  ASSUME NEW c \in [0 .. 2 -> 0 .. W-1], NEW s \in Nat \ {0}, NEW x \in 0 .. 2
  PROVE  (c[x] % s) + x * s \in 0 .. 3 * s - 1
<1>1. c[x] \in Nat
  BY WordAssumption
<1>2. c[x] % s \in 0 .. s-1
  BY <1>1
<1>3. x * s \in {0, s, 2 * s}
  OBVIOUS
<1>4. QED BY <1>2, <1>3

\* The bytes Locate reads for a slot are bytes of the index.
LEMMA SlotBytesInside ==
  ASSUME NEW n \in Totals, n < Limit, n > 1, total = n, section_ = Section(n),
         NEW sl \in 0 .. 3 * Section(n) - 1
  PROVE  /\ CellByte(sl) \in 0 .. BuildBytes(n) - 1
         /\ BlockBytes(sl) \subseteq 0 .. BuildBytes(n) - 1
         /\ TableBytes(sl) \subseteq 0 .. BuildBytes(n) - 1
         /\ 0 .. 7 \subseteq 0 .. BuildBytes(n) - 1
<1>1. n \in Nat /\ n < 268435456 /\ Section(n) \in Nat \ {0}
  BY TotalFacts, WordAssumption
<1> DEFINE s == Section(n)
           a == sl \div 32
<1>2. PICK b \in Nat \ {0} : BitmapSize(s) = 8 * b /\ 3 * s <= 32 * b
  BY <1>1, BitmapFacts
<1> HIDE DEF s
<1>3. sl \in Nat /\ sl < 3 * s /\ s \in Nat
  BY <1>1 DEF s
<1>4. a \in Nat /\ a < b /\ sl \div 4 \in Nat /\ sl \div 4 < 8 * b
  BY <1>2, <1>3
<1>5. (8 * b) \div 8 = b
  BY <1>2
<1>6. BuildBytes(n) = 8 + 8 * b + (IF 8 * b > 8 THEN b * WordSize(n) ELSE 0)
  BY <1>2, <1>5 DEF BuildBytes, s
<1>7. n > 24 => 8 * b > 8
  <2>1. n > 24 => s > 10
    BY <1>1 DEF Section, s
  <2>2. QED BY <2>1, <1>2, <1>3
<1>8. WordSize(n) \in {1, 2, 4}
  BY DEF WordSize
<1>9. BuildBytes(n) \in Nat /\ BuildBytes(n) >= 8 + 8 * b
  BY <1>2, <1>6, <1>8
<1> DEFINE w == WordSize(n)
           top == BuildBytes(n)
<1>10. CellByte(sl) \in 0 .. top - 1
  BY <1>4, <1>9 DEF CellByte
<1>11. BlockBytes(sl) \subseteq 0 .. top - 1
  BY <1>2, <1>4, <1>9 DEF BlockBytes
<1>12. TableBytes(sl) \subseteq 0 .. top - 1
  <2>1. TableBytes(sl) = IF n > 24 THEN 8 + 8 * b + w * a .. 8 + 8 * b + w * a + w - 1
                                   ELSE {}
    BY <1>2 DEF TableBytes, s
  <2>2. CASE n > 24
    <3>1. top = 8 + 8 * b + b * w
      BY <2>2, <1>6, <1>7
    <3>2. w * a \in Nat /\ w * a + w <= b * w
      BY <1>2, <1>4, <1>8
    <3> HIDE DEF w, top, a
    <3>3. w \in {1, 2, 4} /\ b * w \in Nat
      BY <1>2, <1>8 DEF w
    <3>4. QED BY <2>1, <2>2, <3>1, <3>2, <3>3, <1>2
  <2>3. CASE ~(n > 24)
    BY <2>1, <2>3
  <2>4. QED BY <2>2, <2>3
<1>13. 0 .. 7 \subseteq 0 .. top - 1
  BY <1>2, <1>9
<1>14. QED BY <1>10, <1>11, <1>12, <1>13

-----------------------------------------------------------------------------
(* The inductive invariant.                                                *)

\* What Build has left in the index.
BuiltAs ==
  phase \in {"built", "stored", "open", "located", "found"} =>
    /\ total < Limit
    /\ bytes = (IF total > 1 THEN BuildBytes(total) ELSE 4)
    /\ section = (IF total > 1 THEN Section(total) ELSE 0)

\* What the constructor has made of it.
OpenedAs ==
  IF phase \in {"open", "located", "found"}
    THEN /\ stored \in 3 .. bytes
         /\ data <=> stored = bytes
         /\ data => data_size = bytes /\ section_ = section
    ELSE data = FALSE /\ (phase = "stored" => stored \in 3 .. bytes)

\* What Locate has done.
LocatedAs ==
  /\ code \in [0 .. 2 -> 0 .. W-1]
  /\ phase = "located" => data /\ total > 1
  /\ phase \in {"start", "built", "refused", "stored", "open"} => touched = {}
  /\ data => touched \subseteq 0 .. bytes - 1

\* The inductive invariant of the layout.
HInv == /\ total \in Totals
        /\ phase \in {"start", "built", "refused", "stored", "open", "located",
                      "found"}
        /\ BuiltAs /\ OpenedAs /\ LocatedAs

\* It holds at the start.
LEMMA InitHInv == Init => HInv
<1> SUFFICES ASSUME Init PROVE HInv
  OBVIOUS
<1>1. W \in Nat \ {0}
  BY WordAssumption
<1>2. code \in [0 .. 2 -> 0 .. W-1]
  BY <1>1 DEF Init
<1>3. QED BY <1>2 DEF Init, HInv, BuiltAs, OpenedAs, LocatedAs

\* A built index has at least four bytes.
LEMMA BytesFacts ==
  ASSUME HInv, phase \in {"built", "stored", "open", "located", "found"}
  PROVE  /\ total \in Nat /\ bytes \in Nat /\ bytes >= 4
         /\ total > 1 => bytes >= 8 /\ bytes = ReaderBytes(total)
<1>1. total \in Totals /\ total < Limit
      /\ bytes = (IF total > 1 THEN BuildBytes(total) ELSE 4)
  BY DEF HInv, BuiltAs
<1>2. total \in Nat /\ total < 268435456
  BY <1>1, TotalFacts
<1>3. CASE total > 1
  <2>1. Section(total) \in Nat \ {0}
    BY <1>1, TotalFacts, WordAssumption
  <2>2. PICK b \in Nat \ {0} : BitmapSize(Section(total)) = 8 * b
    BY <2>1, BitmapFacts
  <2>3. WordSize(total) \in {1, 2, 4} /\ (8 * b) \div 8 \in Nat
    BY <2>2 DEF WordSize
  <2>4. BuildBytes(total) \in Nat /\ BuildBytes(total) >= 8
    BY <2>2, <2>3 DEF BuildBytes
  <2>5. QED BY <2>4, <1>1, <1>2, <1>3, SizesAgree
<1>4. CASE ~(total > 1)
  BY <1>1, <1>2, <1>4
<1>5. QED BY <1>3, <1>4

\* Every step keeps it.
LEMMA NextHInv == HInv /\ [Next]_vars => HInv'
<1> SUFFICES ASSUME HInv, [Next]_vars PROVE HInv'
  OBVIOUS
<1>1. CASE Build
  <2>1. /\ UNCHANGED <<total, stored, data, data_size, section_, code, touched>>
        /\ phase = "start" /\ phase' \in {"refused", "built"}
    BY <1>1 DEF Build
  <2>2. BuiltAs'
    <3>1. total \in Nat /\ Limit \in Nat
      BY LayoutAssumption DEF HInv
    <3>2. QED BY <1>1, <3>1 DEF Build, BuiltAs
  <2>3. OpenedAs'
    BY <2>1 DEF HInv, OpenedAs
  <2>4. LocatedAs'
    BY <2>1 DEF HInv, LocatedAs
  <2>5. QED BY <2>1, <2>2, <2>3, <2>4 DEF HInv
<1>2. CASE Store
  <2>1. /\ total \in Nat /\ bytes \in Nat /\ bytes >= 4
        /\ total > 1 => bytes >= 8
    BY <1>2, BytesFacts DEF Store
  <2>2. WordSize(total) \in {1, 2, 4} /\ (total <= 1 => WordSize(total) = 1)
    BY <2>1 DEF WordSize
  <2>3. stored' \in 3 .. bytes
    <3>1. \/ stored' = bytes \/ stored' = bytes - 1
          \/ stored' = bytes - WordSize(total) \/ stored' = 4 \/ stored' = 3
      BY <1>2 DEF Store
    <3>2. stored' <= bytes
      BY <1>2 DEF Store
    <3>3. QED BY <3>1, <3>2, <2>1, <2>2
  <2>4. QED BY <1>2, <2>3 DEF Store, HInv, BuiltAs, OpenedAs, LocatedAs
<1>3. CASE Open
  <2>1. /\ total \in Nat /\ bytes \in Nat /\ bytes >= 4
        /\ total > 1 => bytes = ReaderBytes(total)
    BY <1>3, BytesFacts DEF Open
  <2>2. stored \in 3 .. bytes /\ data = FALSE /\ touched = {}
    BY <1>3 DEF Open, HInv, OpenedAs, LocatedAs
  <2>3. PICK size \in {stored} \union (IF stored = bytes THEN {0} ELSE {}) :
       IF \/ size # 0 /\ size < 4
          \/ total > 1 /\ size # 0 /\ size < ReaderBytes(total)
         THEN UNCHANGED <<data, data_size, section_>>
         ELSE /\ data' = TRUE
              /\ data_size' = IF total > 1 THEN ReaderBytes(total) ELSE 4
              /\ section_' = IF total > 1 THEN Section(total) ELSE 0
    BY <1>3 DEF Open
  <2>4. size = stored \/ (size = 0 /\ stored = bytes)
    BY <2>3
  <2>5. /\ bytes = (IF total > 1 THEN BuildBytes(total) ELSE 4)
        /\ section = (IF total > 1 THEN Section(total) ELSE 0)
    BY <1>3 DEF Open, HInv, BuiltAs
  <2>6. data' <=> stored = bytes
    <3> DEFINE Short == \/ size # 0 /\ size < 4
                        \/ total > 1 /\ size # 0 /\ size < ReaderBytes(total)
    <3>1. Short <=> stored # bytes
      BY <2>1, <2>2, <2>4, <2>5
    <3>2. data' = IF Short THEN data ELSE TRUE
      BY <2>3, Zenon
    <3>3. QED BY <3>1, <3>2, <2>2, Zenon
  <2>7. data' => data_size' = bytes /\ section_' = section
    <3>1. data' => /\ data_size' = IF total > 1 THEN ReaderBytes(total) ELSE 4
                   /\ section_' = IF total > 1 THEN Section(total) ELSE 0
      BY <2>2, <2>3, Zenon
    <3>2. QED BY <3>1, <2>1, <2>5
  <2>8. QED BY <1>3, <2>2, <2>6, <2>7
        DEF Open, HInv, BuiltAs, OpenedAs, LocatedAs
<1>4. CASE Locate
  <2>1. /\ data = TRUE /\ total > 1 /\ total \in Totals /\ total < Limit
        /\ section_ = Section(total) /\ bytes = BuildBytes(total)
    BY <1>4 DEF Locate, HInv, BuiltAs, OpenedAs
  <2>2. code' \in [0 .. 2 -> 0 .. W-1]
    BY <1>4, LayoutAssumption DEF Locate
  <2>3. PICK c : c = code'
    OBVIOUS
  <2> DEFINE Slots == {(c[s] % section_) + s * section_ : s \in 0 .. 2}
  <2>4. PICK slot \in Slots :
           touched' = 0 .. 7 \union {CellByte(sl) : sl \in Slots}
                        \union BlockBytes(slot) \union TableBytes(slot)
    BY <1>4, <2>3 DEF Locate
  <2>5. Slots \subseteq 0 .. 3 * Section(total) - 1
    <3>1. Section(total) \in Nat \ {0}
      BY <2>1, TotalFacts, WordAssumption
    <3>2. PICK k \in Nat \ {0} : k = Section(total)
      BY <3>1
    <3>3. \A s \in 0 .. 2 : (c[s] % k) + s * k \in 0 .. 3 * k - 1
      BY <2>2, <2>3, <3>2, SlotBound
    <3>4. QED BY <2>1, <3>2, <3>3
  <2>6. \A sl \in Slots :
            /\ CellByte(sl) \in 0 .. bytes - 1
            /\ BlockBytes(sl) \subseteq 0 .. bytes - 1
            /\ TableBytes(sl) \subseteq 0 .. bytes - 1
            /\ 0 .. 7 \subseteq 0 .. bytes - 1
    <3> HIDE DEF Slots
    <3>1. SUFFICES ASSUME NEW sl \in 0 .. 3 * Section(total) - 1
                   PROVE  /\ CellByte(sl) \in 0 .. bytes - 1
                          /\ BlockBytes(sl) \subseteq 0 .. bytes - 1
                          /\ TableBytes(sl) \subseteq 0 .. bytes - 1
                          /\ 0 .. 7 \subseteq 0 .. bytes - 1
      BY <2>5, Zenon
    <3>2. PICK n \in Totals : n = total
      BY <2>1
    <3>3. n < Limit /\ n > 1 /\ total = n /\ section_ = Section(n)
          /\ sl \in 0 .. 3 * Section(n) - 1 /\ bytes = BuildBytes(n)
      BY <3>2, <2>1
    <3>4. QED BY <3>2, <3>3, SlotBytesInside, Zenon
  <2>7. touched' \subseteq 0 .. bytes - 1
    BY <2>4, <2>6, Zenon
  <2>8. QED BY <1>4, <2>1, <2>2, <2>7
        DEF Locate, HInv, BuiltAs, OpenedAs, LocatedAs
<1>5. CASE LocateAtOnce
  <2>1. bytes \in Nat /\ bytes >= 4
    BY <1>5, BytesFacts DEF LocateAtOnce
  <2>2. data' => touched' \subseteq 0 .. bytes' - 1
    BY <1>5, <2>1 DEF LocateAtOnce
  <2>3. QED BY <1>5, <2>2 DEF LocateAtOnce, HInv, BuiltAs, OpenedAs, LocatedAs
<1>6. CASE Final \/ UNCHANGED vars
  BY <1>6 DEF Final, vars, HInv, BuiltAs, OpenedAs, LocatedAs
<1>7. QED BY <1>1, <1>2, <1>3, <1>4, <1>5, <1>6 DEF Next

\* The stored index reads back as it was built, for every number of keys.
THEOREM LayoutCorrect == Spec => []ReaderAgreesWithBuilder
<1>1. HInv => ReaderAgreesWithBuilder
  BY DEF HInv, OpenedAs, ReaderAgreesWithBuilder
<1>2. QED BY <1>1, InitHInv, NextHInv, PTL DEF Spec

\* Locate reads no byte outside the stored index, whatever key it is asked
\* for and for every number of keys.
THEOREM LocateInside == Spec => []LocateStaysInside
<1>1. HInv => LocateStaysInside
  BY DEF HInv, LocatedAs, LocateStaysInside
<1>2. QED BY <1>1, InitHInv, NextHInv, PTL DEF Spec

\* Builder and reader of an index reduce every code to the same slots.
THEOREM ReductionsAgree == Spec => []SlotsAgree
<1>1. HInv => SlotsAgree
  <2> SUFFICES ASSUME HInv, phase = "located", NEW s \in 0 .. 2
               PROVE  BuilderSlot(s) = ReaderSlot(s)
    BY DEF SlotsAgree
  <2>1. /\ total \in Totals /\ total < Limit /\ section_ = section
        /\ section = Section(total) /\ code \in [0 .. 2 -> 0 .. W-1]
    BY DEF HInv, BuiltAs, OpenedAs, LocatedAs
  <2>2. section \in 1 .. W-1 /\ code[s] \in 0 .. W-1
    BY <2>1, TotalFacts
  <2>3. Mod(section, code[s]) = code[s] % section
    BY <2>2, DivisorExact
  <2>4. QED BY <2>1, <2>3 DEF BuilderSlot, ReaderSlot
<1>2. QED BY <1>1, InitHInv, NextHInv, PTL DEF Spec

\* The scratch memory of the builder is large enough, and its words are wide
\* enough, for every number of keys.
THEOREM ScratchCorrect == Spec => []ScratchSuffices
<1>1. HInv => ScratchSuffices
  <2> SUFFICES ASSUME HInv, phase = "built", total > 1
               PROVE  ScratchSuffices
    BY DEF ScratchSuffices
  <2>1. /\ total \in Totals /\ total < Limit /\ section = Section(total)
    BY DEF HInv, BuiltAs
  <2>2. total \in Nat /\ Section(total) \in Nat
    BY <2>1, TotalFacts, WordAssumption
  <2> DEFINE n == total
             q == (n * 105 + 255) \div 256
  <2>3. q \in Nat /\ 256 * q <= n * 105 + 255 /\ n * 105 + 255 < 256 * q + 256
    BY <2>2
  <2>4. Section(n) = (IF q < 10 THEN 10 ELSE q)
    BY DEF Section
  <2> HIDE DEF q
  <2>5. 3 * Section(n) >= n
    BY <2>2, <2>3, <2>4
  <2>6. (n + 7) \div 8 <= BookBytes(n)
    BY <2>2, <2>5 DEF BookBytes
  <2>7. CheckReusesScratch(n) => 32 * n <= ScratchBytes(n)
    <3>1. ScratchBytes(n) \in Int
      BY <2>2 DEF ScratchBytes, BookBytes, WordSize
    <3>2. QED BY <2>2, <3>1 DEF CheckReusesScratch
  <2>8. /\ WordSize(n) = 1 => n <= 255 /\ Section(n) <= 255
        /\ WordSize(n) = 2 => n <= 65535 /\ Section(n) <= 65535
    BY <2>2, <2>3, <2>4 DEF WordSize
  <2>9. QED BY <2>1, <2>6, <2>7, <2>8 DEF ScratchSuffices
<1>2. QED BY <1>1, InitHInv, NextHInv, PTL DEF Spec
=============================================================================
