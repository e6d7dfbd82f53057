--------------------------- MODULE Buffer_proofs ---------------------------
(* Buffer implements WordStack, for every growth policy and every size.    *)
EXTENDS Buffer, TLAPS

\* The new array is large enough for what is in use and what is asked for.
LEMMA NewSizeBound ==
  ASSUME ArrayOK, NEW delta \in Nat
  PROVE  NewSize(delta) \in Nat /\ NewSize(delta) >= size_ + delta
<1>1. size_ \in Nat /\ Large \in Nat
  BY BufferAssumption DEF ArrayOK
<1>2. (size_ * 3) \div 2 \in Nat /\ size_ * 2 \in Nat
  BY <1>1
<1>3. QED BY <1>1, <1>2 DEF NewSize, Max2

\* What Moved gives: an array with every word in use at its old place.
LEMMA MovedFacts ==
  ASSUME ArrayOK, NEW size \in Nat, size >= Size, NEW d \in [0 .. size - 1 -> Val]
  PROVE  /\ Moved(d, size, size - Size) \in [0 .. size - 1 -> Val]
         /\ \A p \in 1 .. Size :
              Moved(d, size, size - Size)[size - p] = data[size_ - p]
<1> DEFINE off == size - Size
           m == Moved(d, size, off)
<1>1. /\ size_ \in Nat /\ off_ \in 0 .. size_ /\ Size \in Nat /\ off \in Nat
      /\ data \in [0 .. size_ - 1 -> Val] /\ off = size - size_ + off_
  BY DEF ArrayOK, Size
<1>2. m = [i \in 0 .. size - 1 |-> IF i >= off THEN data[off_ + i - off] ELSE d[i]]
  BY DEF Moved
<1>3. ASSUME NEW i \in 0 .. size - 1
      PROVE  (IF i >= off THEN data[off_ + i - off] ELSE d[i]) \in Val
  <2>1. CASE i >= off
    <3>1. off_ + i - off \in 0 .. size_ - 1
      BY <1>1, <2>1
    <3>2. QED BY <1>1, <2>1, <3>1
  <2>2. CASE ~(i >= off)
    BY <2>2
  <2>3. QED BY <2>1, <2>2
<1> HIDE DEF off, m
<1>4. m \in [0 .. size - 1 -> Val]
  BY <1>2, <1>3
<1>5. ASSUME NEW p \in 1 .. Size
      PROVE  m[size - p] = data[size_ - p]
  <2>1. size - p \in 0 .. size - 1 /\ size - p >= off
    BY <1>1 DEF off, Size
  <2>2. off_ + (size - p) - off = size_ - p
    BY <1>1
  <2>3. QED BY <1>2, <2>1, <2>2
<1>6. QED BY <1>4, <1>5 DEF m, off

\* A new array a with the words in use at their places and room for delta more
\* keeps the types and is a Grow of the stack.
LEMMA GrowStep ==
  ASSUME ArrayOK, NEW delta \in Nat, NEW s \in Nat, NEW o \in Nat,
         NEW a \in [0 .. s - 1 -> Val], o = s - Size - delta,
         size_' = s, off_' = o, data' = a,
         \A p \in 1 .. Size : a[s - p] = data[size_ - p]
  PROVE  ArrayOK' /\ Stack!Grow(delta)
<1>1. size_ \in Nat /\ off_ \in 0 .. size_ /\ Size = size_ - off_ /\ Size \in Nat
  BY DEF ArrayOK, Size
<1>2. o \in 0 .. s /\ s - o = Size + delta
  BY <1>1
<1>3. ArrayOK'
  BY <1>2 DEF ArrayOK
<1>4. Size' = Size + delta
  BY <1>2 DEF Size
<1>5. Contents = [p \in 1 .. Size |-> data[size_ - p]]
  BY DEF Contents
<1>6. Contents' = [p \in 1 .. Size + delta |-> a[s - p]]
  BY <1>4 DEF Contents
<1>7. \A p \in 1 .. Size + delta : a[s - p] \in Val
  <2> SUFFICES ASSUME NEW p \in 1 .. Size + delta PROVE a[s - p] \in Val
    OBVIOUS
  <2>1. s - p \in 0 .. s - 1
    BY <1>1, <1>2
  <2>2. QED BY <2>1
<1>8. Contents' \in [1 .. Size + delta -> Val]
  BY <1>6, <1>7
<1>9. \A p \in 1 .. Size : Contents'[p] = Contents[p]
  <2> SUFFICES ASSUME NEW p \in 1 .. Size PROVE Contents'[p] = Contents[p]
    OBVIOUS
  <2>1. p \in 1 .. Size + delta
    BY <1>1
  <2>2. Contents'[p] = a[s - p]
    BY <2>1, <1>6
  <2>3. Contents[p] = data[size_ - p]
    BY <1>5
  <2>4. QED BY <2>2, <2>3
<1>10. QED BY <1>3, <1>4, <1>8, <1>9 DEF Stack!Grow

\* A front moved back is a Cut of the stack.
LEMMA CutStep ==
  ASSUME ArrayOK, NEW delta \in 0 .. Size, off_' = off_ + delta,
         UNCHANGED <<data, size_>>
  PROVE  ArrayOK' /\ Stack!Cut(delta)
<1>1. size_ \in Nat /\ off_ \in 0 .. size_ /\ Size = size_ - off_ /\ Size \in Nat
  BY DEF ArrayOK, Size
<1>2. off_' \in 0 .. size_' /\ Size' = Size - delta
  BY <1>1 DEF Size
<1>3. ArrayOK'
  BY <1>2 DEF ArrayOK
<1>4. Contents' = [p \in 1 .. Size - delta |-> data[size_ - p]]
  BY <1>2 DEF Contents
<1>5. \A p \in 1 .. Size - delta : Contents[p] = data[size_ - p]
  BY <1>1 DEF Contents
<1>6. Contents' = [p \in 1 .. Size' |-> Contents[p]]
  BY <1>2, <1>4, <1>5
<1>7. QED BY <1>2, <1>3, <1>6 DEF Stack!Cut

\* The initial buffer has its types and is the empty stack.
LEMMA InitStep == Init => TypeOK /\ Stack!Init
<1> SUFFICES ASSUME Init PROVE TypeOK /\ Stack!Init
  OBVIOUS
<1>1. Size = 0
  BY DEF Init, Size
<1>2. TypeOK
  BY DEF Init, TypeOK, ArrayOK, NullOK
<1>3. Contents = [p \in 1 .. 0 |-> 0]
  BY <1>1 DEF Contents
<1>4. QED BY <1>1, <1>2, <1>3 DEF Stack!Init

\* Every step keeps the types and is a step of the stack or changes nothing
\* of it.
LEMMA NextStep ==
  ASSUME TypeOK, [Next]_vars
  PROVE  TypeOK' /\ [Stack!Next]_(Stack!vars)
<1>0. /\ ArrayOK /\ NullOK /\ size_ \in Nat /\ off_ \in 0 .. size_
      /\ Size = size_ - off_ /\ Size \in Nat /\ MaxDelta \in Nat
  BY BufferAssumption DEF TypeOK, ArrayOK, Size
<1>1. ASSUME NEW delta \in 0 .. MaxDelta, Size + delta <= MaxSize, Expand(delta)
      PROVE  TypeOK' /\ Stack!Next
  <2>0. delta \in Nat
    BY <1>0
  <2>1. CASE ExpandInPlace(delta)
    <3>1. /\ off_ >= delta /\ off_' = off_ - delta
          /\ UNCHANGED <<null, data, size_>>
      BY <2>1 DEF ExpandInPlace
    <3>2. PICK o \in Nat : o = off_ - delta
      BY <3>1, <1>0, <2>0
    <3>3. o = size_ - Size - delta
      BY <3>2, <1>0, <2>0
    <3>4. ArrayOK' /\ Stack!Grow(delta)
      BY <3>1, <3>2, <3>3, <1>0, <2>0, GrowStep DEF ArrayOK
    <3>5. NullOK'
      BY <3>1, <1>0 DEF NullOK
    <3>6. QED BY <3>4, <3>5, <1>1 DEF Stack!Next, TypeOK
  <2>2. CASE ExpandFirst(delta)
    <3>1. /\ null /\ size_' = Max2(delta, Initial) /\ off_' = size_' - delta
          /\ data' \in [0 .. size_' - 1 -> Val] /\ null' = FALSE
      BY <2>2 DEF ExpandFirst
    <3>2. size_ = 0 /\ off_ = 0 /\ Size = 0
      BY <3>1, <1>0 DEF NullOK
    <3>3. PICK s \in Nat : s = Max2(delta, Initial) /\ s >= delta
      BY <2>0, BufferAssumption DEF Max2
    <3>4. PICK o \in Nat : o = s - delta
      BY <3>3, <2>0
    <3>5. o = s - Size - delta /\ size_' = s /\ off_' = o
      BY <3>1, <3>2, <3>3, <3>4, <2>0
    <3>6. PICK a \in [0 .. s - 1 -> Val] : data' = a
      BY <3>1, <3>5
    <3>7. \A p \in 1 .. Size : a[s - p] = data[size_ - p]
      BY <3>2
    <3>8. ArrayOK' /\ Stack!Grow(delta)
      BY <3>5, <3>6, <3>7, <1>0, <2>0, GrowStep
    <3>9. NullOK'
      BY <3>1 DEF NullOK
    <3>10. QED BY <3>8, <3>9, <1>1 DEF Stack!Next, TypeOK
  <2>3. CASE ExpandLarger(delta)
    <3>1. PICK s : s = NewSize(delta)
      OBVIOUS
    <3>2. s \in Nat /\ s >= size_ + delta
      BY <3>1, <1>0, <2>0, NewSizeBound
    <3>3. PICK d \in [0 .. s - 1 -> Val] : data' = Moved(d, s, s - Size)
      BY <2>3, <3>1 DEF ExpandLarger
    <3>4. size_' = s /\ off_' = s - Size - delta /\ null' = null /\ ~null
      BY <2>3, <3>1 DEF ExpandLarger
    <3>5. s >= Size
      BY <3>2, <1>0, <2>0
    <3>6. PICK a \in [0 .. s - 1 -> Val] :
            a = Moved(d, s, s - Size)
            /\ \A p \in 1 .. Size : a[s - p] = data[size_ - p]
      BY <3>2, <3>3, <3>5, <1>0, MovedFacts
    <3>7. PICK o \in Nat : o = s - Size - delta
      BY <3>2, <1>0, <2>0
    <3>8. size_' = s /\ off_' = o /\ data' = a
      BY <3>3, <3>4, <3>6, <3>7
    <3>9. ArrayOK' /\ Stack!Grow(delta)
      BY <3>2, <3>6, <3>7, <3>8, <1>0, <2>0, GrowStep
    <3>10. NullOK'
      BY <3>4, <1>0 DEF NullOK
    <3>11. QED BY <3>9, <3>10, <1>1 DEF Stack!Next, TypeOK
  <2>4. QED BY <1>1, <2>1, <2>2, <2>3 DEF Expand
<1>2. ASSUME NEW delta \in 0 .. Size, Shrink(delta)
      PROVE  TypeOK' /\ Stack!Next
  <2>1. off_' = off_ + delta /\ UNCHANGED <<null, data, size_>>
    BY <1>2 DEF Shrink
  <2>2. ArrayOK' /\ Stack!Cut(delta)
    BY <2>1, <1>0, CutStep
  <2>3. NullOK'
    BY <2>1, <1>0 DEF NullOK
  <2>4. QED BY <2>2, <2>3 DEF Stack!Next, TypeOK
<1>3. ASSUME Clear
      PROVE  TypeOK' /\ Stack!Next
  <2>1. off_' = size_ /\ UNCHANGED <<null, data, size_>>
    BY <1>3 DEF Clear
  <2>2. PICK delta \in 0 .. Size : delta = Size
    BY <1>0
  <2>3. off_' = off_ + delta
    BY <2>1, <2>2, <1>0
  <2>4. ArrayOK' /\ Stack!Cut(delta)
    BY <2>1, <2>3, <1>0, CutStep
  <2>5. NullOK'
    BY <2>1, <1>0 DEF NullOK
  <2>6. QED BY <2>4, <2>5 DEF Stack!Next, TypeOK
<1>4. ASSUME NEW s \in 0 .. MaxSize, Reserve(s)
      PROVE  TypeOK' /\ UNCHANGED Stack!vars
  <2>0. s \in Nat /\ s > size_ /\ s >= Size
    BY <1>0, <1>4, BufferAssumption DEF Reserve
  <2>1. PICK d \in [0 .. s - 1 -> Val] : data' = Moved(d, s, s - Size)
    BY <1>4 DEF Reserve
  <2>2. size_' = s /\ off_' = s - Size /\ null' = FALSE
    BY <1>4 DEF Reserve
  <2>3. PICK a \in [0 .. s - 1 -> Val] :
          a = Moved(d, s, s - Size)
          /\ \A p \in 1 .. Size : a[s - p] = data[size_ - p]
    BY <2>0, <2>1, <1>0, MovedFacts
  <2>4. PICK o \in Nat : o = s - Size /\ o <= s
    BY <2>0, <1>0
  <2>5. Size' = Size
    <3>1. Size' = s - o
      BY <2>2, <2>4 DEF Size
    <3>2. QED BY <3>1, <2>0, <2>4, <1>0
  <2>6. Contents' = Contents
    BY <2>1, <2>2, <2>3, <2>5 DEF Contents
  <2>7. ArrayOK'
    BY <2>0, <2>1, <2>2, <2>3, <2>4 DEF ArrayOK
  <2>8. NullOK'
    BY <2>2 DEF NullOK
  <2>9. QED BY <2>5, <2>6, <2>7, <2>8 DEF Stack!vars, TypeOK
<1>5. ASSUME NEW p \in 1 .. Size, NEW v \in Val, WriteAt(p, v)
      PROVE  TypeOK' /\ Stack!Next
  <2>1. data' = [data EXCEPT ![size_ - p] = v] /\ UNCHANGED <<null, size_, off_>>
    BY <1>5 DEF WriteAt
  <2>2. ArrayOK'
    BY <2>1, <1>0 DEF ArrayOK
  <2>3. NullOK'
    BY <2>1, <1>0 DEF NullOK
  <2>4. Size' = Size
    BY <2>1 DEF Size
  <2>5. Contents' = [q \in 1 .. Size |-> [data EXCEPT ![size_ - p] = v][size_ - q]]
    BY <2>1, <2>4 DEF Contents
  <2>6. \A q \in 1 .. Size : [data EXCEPT ![size_ - p] = v][size_ - q]
                              = IF q = p THEN v ELSE data[size_ - q]
    <3> SUFFICES ASSUME NEW q \in 1 .. Size
                 PROVE  [data EXCEPT ![size_ - p] = v][size_ - q]
                              = IF q = p THEN v ELSE data[size_ - q]
      OBVIOUS
    <3>1. size_ - q \in 0 .. size_ - 1 /\ size_ - p \in 0 .. size_ - 1
          /\ (size_ - q = size_ - p <=> q = p)
      BY <1>0
    <3>2. data \in [0 .. size_ - 1 -> Val]
      BY <1>0 DEF ArrayOK
    <3>3. QED BY <3>1, <3>2
  <2>7. Contents' = [Contents EXCEPT ![p] = v]
    BY <2>5, <2>6 DEF Contents
  <2>8. Stack!Write(p, v)
    BY <2>4, <2>7 DEF Stack!Write
  <2>9. QED BY <2>2, <2>3, <2>8 DEF Stack!Next, TypeOK
<1>6. ASSUME UNCHANGED vars
      PROVE  TypeOK' /\ UNCHANGED Stack!vars
  BY <1>6, <1>0 DEF vars, TypeOK, ArrayOK, NullOK, Stack!vars, Size, Contents
<1>7. QED BY <1>1, <1>2, <1>3, <1>4, <1>5, <1>6 DEF Next

\* The front of the buffer always lies in the array.
THEOREM BufferTypes == Spec => []TypeOK
<1>1. Init => TypeOK
  BY InitStep
<1>2. TypeOK /\ [Next]_vars => TypeOK'
  BY NextStep
<1>3. QED BY <1>1, <1>2, PTL DEF Spec

\* Buffer is the stack of words its users take it for.
THEOREM BufferImplementsStack == Spec => ImplementsStack
<1>1. Init => Stack!Init
  BY InitStep
<1>2. TypeOK /\ [Next]_vars => [Stack!Next]_(Stack!vars)
  BY NextStep
<1>3. QED BY <1>1, <1>2, BufferTypes, PTL DEF Spec, ImplementsStack, Stack!Spec
=============================================================================
