------------------------------ MODULE TsTypes ------------------------------
(***************************************************************************)
(* What the writer and the reader of the TypeScript runtime share: types   *)
(* (schema.ts, kind.ts), scalars, strings and bytes, at a small scale.     *)
(*                                                                         *)
(* A byte has 2 bits (one of them is the continuation bit of a length) and *)
(* a word 4 bytes, so every bit field of the format keeps its share of the *)
(* word: 2 bits for a width, 6 for an offset or the count of an array, 4   *)
(* for the count of a map.                                                 *)
(*                                                                         *)
(* A value is a sequence: a number or bool <<n>>; a string its characters  *)
(* (0 and 1 are ASCII, 2 is not, 3 is half of a surrogate pair); bytes,    *)
(* arrays and messages their elements; a map a function from keys.         *)
(* undefined is <<>>.                                                      *)
(***************************************************************************)
EXTENDS Integers, Sequences, SequencesExt, FiniteSetsExt

CONSTANTS
  Types,     \* the types, by handle: a message has fields, an array a value
             \* kind, a map a key and a value kind
  MaxDepth   \* MAX_DEPTH, kMaximumDepth: 256

\* repeated: the array or map is declared by the field itself.
Field(id, kind, child, repeated) ==
  [id |-> id, kind |-> kind, child |-> child, repeated |-> repeated]
Message(fields) == [kind |-> "message", fields |-> fields]
Array(value, child) == [kind |-> "array", value |-> value, child |-> child]
Map(key, value, child) ==
  [kind |-> "map", key |-> key, value |-> value, child |-> child]

KindCode == [none |-> 0, message |-> 1, array |-> 20, map |-> 21]
IsComplex(kind) == kind \in {"message", "array", "map"}
IsBlob(kind) == kind \in {"string", "bytes"}
IsScalar(kind) == kind \in {"bool", "u32", "i32", "u64", "i64"}

-----------------------------------------------------------------------------
(* Scalars.                                                                *)

WordSize == 256
WidthWords(kind) == IF kind \in {"u64", "i64"} THEN 2 ELSE 1

\* requireInteger, requireBigInt.
RangeOf(kind) ==
  CASE kind = "bool" -> 0 .. 1
    [] kind = "u32" -> 0 .. WordSize - 1
    [] kind = "i32" -> -(WordSize \div 2) .. WordSize \div 2 - 1
    [] kind = "u64" -> 0 .. WordSize^2 - 1
    [] kind = "i64" -> -(WordSize^2 \div 2) .. WordSize^2 \div 2 - 1

\* setUint32, setInt32, setBigUint64, setBigInt64: little-endian.
ScalarWords(kind, n) ==
  IF WidthWords(kind) = 2 THEN <<n % WordSize, (n \div WordSize) % WordSize>>
                          ELSE <<n % WordSize>>

\* getUint32 and the others; a bool is any word but 0.
ScalarOf(kind, words) ==
  LET n == IF WidthWords(kind) = 2 THEN words[1] + WordSize * words[2] ELSE words[1]
      range == RangeOf(kind)
  IN  IF kind = "bool" THEN (IF n # 0 THEN 1 ELSE 0)
      ELSE IF n \in range THEN n ELSE n - WordSize^WidthWords(kind)

-----------------------------------------------------------------------------
(* Bytes and strings.                                                      *)

ByteSize == 4

\* 1<<30 bytes: with two bits more the length fits in five bytes.
MaxBytes == 8

Words(bytes) == (bytes + 3) \div 4

\* Bytes in words, the last one padded with zeros.
PackBytes(bytes) ==
  LET byte(i) == IF i <= Len(bytes) THEN bytes[i] ELSE 0
  IN  [w \in 1 .. Words(Len(bytes)) |->
         byte(4*w - 3) + ByteSize * byte(4*w - 2) + ByteSize^2 * byte(4*w - 1)
           + ByteSize^3 * byte(4*w)]

\* The byte at offset b, and the bytes of [b, b + n), of words.
ByteAt(words, b) == (words[b \div 4 + 1] \div ByteSize^(b % 4)) % ByteSize
BytesAt(words, b, n) == [i \in 1 .. n |-> ByteAt(words, b + i - 1)]

\* UTF-8: an ASCII character is one byte below 2; any other is the lead byte
\* 3 and a byte 2.
Utf8(chars) == FlattenSeq([i \in DOMAIN chars |->
                             IF chars[i] = 2 THEN <<3, 2>> ELSE <<chars[i]>>])

\* TextDecoder with fatal: an error unless the bytes are well-formed.
WellFormed(bytes) ==
  \A i \in DOMAIN bytes :
    /\ bytes[i] = 3 => i < Len(bytes) /\ bytes[i + 1] = 2
    /\ bytes[i] = 2 => i > 1 /\ bytes[i - 1] = 3
Characters(bytes) ==
  LET starts == SelectSeq([i \in DOMAIN bytes |-> bytes[i]], LAMBDA b : b # 2)
  IN  [i \in DOMAIN starts |-> IF starts[i] = 3 THEN 2 ELSE starts[i]]

\* One of s, one of t, and so on.
Alternate(s, t) == FlattenSeq(Zip(s, t))

-----------------------------------------------------------------------------
(* A result that may be an error: false in C++, an exception in            *)
(* TypeScript.                                                             *)

Good(v) == [ok |-> TRUE, v |-> v]
Bad == [ok |-> FALSE, v |-> <<>>]
AllGood(results) == \A i \in DOMAIN results : results[i].ok
Joined(results) == FlattenSeq([i \in DOMAIN results |-> results[i].v])
=============================================================================
