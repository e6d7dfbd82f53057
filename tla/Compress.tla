------------------------------ MODULE Compress ------------------------------
(***************************************************************************)
(* Compress and Decompress (src/utils.cc): the run compression of          *)
(* serialized data.  A mark byte holds two nibbles; a nibble is a run of   *)
(* zero bytes or of 0xff bytes, or the number of literal bytes that follow *)
(* the mark.                                                               *)
(*                                                                         *)
(* Both directions copy a whole word when the source has so much left, and *)
(* so write beyond the bytes they mean to write; the output buffers are    *)
(* sized for that.  mem is the buffer being filled and high the end of the *)
(* furthest write into it.                                                 *)
(*                                                                         *)
(* A literal byte is represented by its position in the input: the code    *)
(* never compares literals with each other.                                *)
(***************************************************************************)
EXTENDS Integers, Sequences

CONSTANTS
  LitCap,    \* 7: the longest literal of a nibble
  RunCap,    \* 4: the longest run of a nibble
  Base,      \* 128: the base of the length prefix
  Word,      \* 2^32: the values of an unsigned
  MaxLen     \* bound on the bytes of the input

ASSUME CompressAssumption ==
  /\ LitCap \in Nat \ {0} /\ RunCap \in 1 .. LitCap + 1
  /\ Base \in Nat \ {0, 1} /\ Word \in Nat \ {0}
  /\ MaxLen \in Nat

VARIABLES
  phase,     \* "prefix", "pack", "packed", "size", "unpack", "done"
  input,     \* the bytes Compress is given
  src,       \* bytes consumed of this phase's source
  mem,       \* the buffer being filled (Compress: behind the prefix)
  dest,      \* bytes of it that are final
  high,      \* the end of the furthest write into it
  stream,    \* what Compress has returned, the bytes Decompress is given
  lost,      \* it is not all that Compress returned
  size,      \* what Compress has still to write of the length (n), and what
             \* Decompress has read of it
  scale,     \* 1 << sft
  answer     \* what Decompress returned

vars == <<phase, input, src, mem, dest, high, stream, lost, size, scale,
          answer>>

Zero == [byte |-> 0]
Ones == [byte |-> -1]
Filler == {Zero, Ones}
Literal(i) == [byte |-> i]
Inputs(n) == {[i \in 1 .. n |-> IF f[i] = 1 THEN Literal(i) ELSE [byte |-> f[i]]] :
                f \in [1 .. n -> {-1, 0, 1}]}

\* The word of the fast copies, in bytes: 8.
Fast == LitCap + 1

Higher(a, b) == IF a >= b THEN a ELSE b

\* Memory m with the bytes s written behind the first at.
Put(m, at, s) == [i \in 1 .. Len(m) |->
                    IF i > at /\ i <= at + Len(s) THEN s[i - at] ELSE m[i]]

-----------------------------------------------------------------------------
(* Compress.                                                               *)

\* The high nibble of a mark whose round made only one pick: 0.
NoNibble == [run |-> FALSE, fill |-> Zero, len |-> 0]

\* pick() at position i consumes k bytes.
IsPick(i, k) ==
  LET run == input[i+1] \in Filler
      limit == IF run THEN RunCap ELSE LitCap
      Goes(j) == IF run THEN input[j] = input[i+1] ELSE input[j] \notin Filler
  IN /\ k <= limit /\ i + k <= Len(input)
     /\ \A j \in i + 1 .. i + k : Goes(j)
     /\ i + k < Len(input) /\ k < limit => ~Goes(i + k + 1)

\* The nibble that pick() returns: the flag 8, the bit 4 of the filler, and
\* the number of bytes.
Picked(i, k) ==
  IF input[i+1] \in Filler THEN [run |-> TRUE, fill |-> input[i+1], len |-> k]
  ELSE [run |-> FALSE, fill |-> Zero, len |-> k]

\* The literal bytes that follow the mark for a pick.
LitLen(i, k) == IF input[i+1] \in Filler THEN 0 ELSE k

\* How many bytes the copy of l literals from position i of s writes.
CopyLen(i, l, s) == IF l = 0 THEN 0 ELSE IF i + Fast <= Len(s) THEN Fast ELSE l

\* Mutant: the spare bytes are rounded down.
OutSizeDown(len) == len + len \div (2 * LitCap)

\* The bytes Compress reserves behind the prefix: len + (len+13)/14.
OutSize(len) == len + (len + 2 * LitCap - 1) \div (2 * LitCap)

Init ==
  /\ phase = "prefix"
  /\ \E n \in 0 .. MaxLen : input \in Inputs(n)
  /\ src = 0 /\ dest = 0 /\ high = 0 /\ mem = <<>>
  /\ stream = <<>> /\ lost = FALSE
  /\ size = Len(input) /\ scale = 1 /\ answer = "none"

\* The early return.
PackNothing ==
  /\ phase = "prefix" /\ input = <<>>
  /\ phase' = "packed"
  /\ UNCHANGED <<input, src, mem, dest, high, stream, lost, size, scale, answer>>

\* The length, least digit first.  The mask of the loop, ~0x7fU, is an unsigned:
\* what is left of the length counts up to Word only.
PrefixDigit ==
  /\ phase = "prefix" /\ size % Word >= Base
  /\ stream' = Append(stream, [more |-> TRUE, digit |-> size % Base])
  /\ size' = size \div Base
  /\ UNCHANGED <<phase, input, src, mem, dest, high, lost, scale, answer>>

\* Its last digit, and the resize.
PrefixLast ==
  /\ phase = "prefix" /\ input # <<>> /\ size % Word < Base
  /\ stream' = Append(stream, [more |-> FALSE, digit |-> size % Word])
  /\ mem' = [i \in 1 .. OutSize(Len(input)) |-> Zero]
  /\ phase' = "pack"
  /\ UNCHANGED <<input, src, dest, high, lost, size, scale, answer>>

\* One round of the loop that finds a second pick.
PackPair ==
  /\ phase = "pack" /\ src < Len(input)
  /\ \E k \in 1 .. Higher(LitCap, RunCap), l \in 1 .. Higher(LitCap, RunCap) :
       LET y == src + k
           a == LitLen(src, k)
           b == LitLen(y, l)
           mark == [lo |-> Picked(src, k), hi |-> Picked(y, l)]
           ca == CopyLen(src, a, input)
           cb == CopyLen(y, b, input)
           at == dest + 1
           one == Put(Put(mem, dest, <<mark>>), at, SubSeq(input, src + 1, src + ca))
       IN /\ IsPick(src, k) /\ y < Len(input) /\ IsPick(y, l)
          /\ mem' = Put(one, at + a, SubSeq(input, y + 1, y + cb))
          /\ src' = y + l
          /\ dest' = at + a + b
          /\ high' = Higher(high, Higher(at + ca, at + a + cb))
  /\ UNCHANGED <<phase, input, stream, lost, size, scale, answer>>

\* The round whose first pick reaches the end.
PackLast ==
  /\ phase = "pack" /\ src < Len(input)
  /\ \E k \in 1 .. Higher(LitCap, RunCap) :
       LET a == LitLen(src, k)
           ca == CopyLen(src, a, input)
           mark == [lo |-> Picked(src, k), hi |-> NoNibble]
       IN /\ IsPick(src, k) /\ src + k = Len(input)
          /\ mem' = Put(Put(mem, dest, <<mark>>), dest + 1,
                        SubSeq(input, src + 1, src + ca))
          /\ src' = src + k
          /\ dest' = dest + 1 + a
          /\ high' = Higher(high, dest + 1 + ca)
  /\ UNCHANGED <<phase, input, stream, lost, size, scale, answer>>

\* The final resize.
PackDone ==
  /\ phase = "pack" /\ src = Len(input)
  /\ phase' = "packed"
  /\ stream' = stream \o SubSeq(mem, 1, dest)
  /\ UNCHANGED <<input, src, mem, dest, high, lost, size, scale, answer>>

-----------------------------------------------------------------------------
(* Decompress, of the whole stream or of what is left of it.               *)

Return(ok) == /\ phase' = "done" /\ answer' = ok

Deliver ==
  /\ phase = "packed"
  /\ \E n \in 0 .. Len(stream) :
       stream' = SubSeq(stream, 1, n) /\ lost' = (n < Len(stream))
  /\ src' = 0 /\ dest' = 0 /\ high' = 0 /\ mem' = <<>>
  /\ size' = 0 /\ scale' = 1
  /\ IF stream' = <<>> THEN Return("true")
     ELSE phase' = "size" /\ UNCHANGED answer
  /\ UNCHANGED input

\* Mutant: no room for the word that a copy writes.
RoomNone(n) == n % Word

\* The bytes Decompress reserves for n: n+7, in unsigned arithmetic.
Room(n) == (n + Fast - 1) % Word

\* parse_size: one more digit.  sft < 32 says that 1 << sft is an unsigned.
ParseDigit ==
  /\ phase = "size" /\ scale < Word /\ src < Len(stream)
  /\ size' = (size + stream[src+1].digit * scale) % Word
  /\ scale' = scale * Base
  /\ src' = src + 1
  /\ IF stream[src+1].more THEN UNCHANGED <<phase, mem>>
     ELSE phase' = "unpack" /\ mem' = [i \in 1 .. Room(size') |-> Zero]
  /\ UNCHANGED <<input, dest, high, stream, lost, answer>>

ParseFails ==
  /\ phase = "size" /\ (scale >= Word \/ src >= Len(stream))
  /\ Return("false")
  /\ UNCHANGED <<input, src, mem, dest, high, stream, lost, size, scale>>

\* unpack(mark), from the state st of the lambda's captures.
Unpack(st, nib) ==
  LET l == nib.len
      run == nib.run
      cl == CopyLen(st.src, l, stream)
      data == IF run THEN [i \in 1 .. RunCap |-> nib.fill]
              ELSE SubSeq(stream, st.src + 1, st.src + cl)
  IN IF \/ ~st.ok
        \/ st.dest + l > size
        \/ ~run /\ st.src + l > Len(stream)
     THEN [st EXCEPT !.ok = FALSE]
     ELSE IF l = 0 THEN st
     ELSE [ok |-> TRUE,
           src |-> IF run THEN st.src ELSE st.src + l,
           dest |-> st.dest + l,
           mem |-> Put(st.mem, st.dest, data),
           high |-> Higher(st.high, st.dest + Len(data))]

UnpackMark ==
  /\ phase = "unpack" /\ src < Len(stream)
  /\ LET mark == stream[src+1]
         st == [ok |-> TRUE, src |-> src + 1, dest |-> dest,
                mem |-> mem, high |-> high]
         r == Unpack(Unpack(st, mark.lo), mark.hi)
     IN /\ src' = r.src /\ dest' = r.dest /\ mem' = r.mem /\ high' = r.high
        /\ IF r.ok THEN UNCHANGED <<phase, answer>> ELSE Return("false")
  /\ UNCHANGED <<input, stream, lost, size, scale>>

\* out->resize(n), which pads with zero bytes.
Resized(m, n) == [i \in 1 .. n |-> IF i <= Len(m) THEN m[i] ELSE Zero]

\* Mutant: what was unpacked is not compared with the announced length.
UnpackDoneBlind ==
  /\ phase = "unpack" /\ src = Len(stream)
  /\ mem' = Resized(mem, size)
  /\ Return("true")
  /\ UNCHANGED <<input, src, dest, high, stream, lost, size, scale>>

UnpackDone ==
  /\ phase = "unpack" /\ src = Len(stream)
  /\ mem' = Resized(mem, size)
  /\ Return(IF dest = size THEN "true" ELSE "false")
  /\ UNCHANGED <<input, src, dest, high, stream, lost, size, scale>>

Finished == phase = "done" /\ UNCHANGED vars

Next == \/ PackNothing \/ PrefixDigit \/ PrefixLast
        \/ PackPair \/ PackLast \/ PackDone
        \/ Deliver \/ ParseDigit \/ ParseFails \/ UnpackMark \/ UnpackDone
        \/ Finished

Spec == Init /\ [][Next]_vars

-----------------------------------------------------------------------------
(* Properties.                                                             *)

\* Compress never writes outside the len + (len+13)/14 bytes that it reserves
\* behind the prefix: neither the marks and literals nor the words that its
\* copies write too much.
PackStaysInside == phase = "pack" => high <= Len(mem)

\* Decompress never writes outside its size+7 bytes, whatever was lost from
\* the end of the stream, as long as size+7 is an unsigned.
UnpackStaysInside ==
  phase = "unpack" /\ size + Fast <= Word => high <= Len(mem)

\* An input whose length the unsigned arithmetic of Decompress can carry.
Fits == Len(input) + Fast <= Word

\* Decompress of all that Compress returned succeeds and restores the input:
\* no byte that a word copy writes too much survives.  What is left of a
\* stream that lost its end is never accepted, unless nothing is left.
RoundTrip ==
  phase = "done" /\ Fits =>
    IF lost THEN answer = "false" \/ stream = <<>>
    ELSE answer = "true" /\ mem = input

\* The comment on the resize in Decompress, "extra space for fast fill", for
\* inputs of every length: size+7 leaves Fast - 1 bytes behind the size bytes.
ExtraSpaceForFastFill == phase = "unpack" => size + Fast - 1 <= Len(mem)

=============================================================================
