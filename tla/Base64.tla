------------------------------- MODULE Base64 -------------------------------
(***************************************************************************)
(* The base64 encoders of the C and the C++ example (examples/cbindings/   *)
(* base64.c, examples/cpp/base64.cpp). A byte is 0..255, a character of    *)
(* the encoding is its index 0..63 in b64chars, Pad is '=', and any other  *)
(* character is a larger number.                                           *)
(***************************************************************************)
EXTENDS Naturals, Sequences

Pad == 64

b64_encoded_size(inlen) ==
  LET ret == IF (inlen % 3) # 0 THEN inlen + (3 - (inlen % 3)) ELSE inlen
  IN (ret \div 3) * 4

\* Mutant: the second byte alone decides on both characters that may be '='.
MutantQuad(in, i, v) ==
  LET len == Len(in)
  IN << (v \div 2^18) % 64, (v \div 2^12) % 64,
        IF i + 1 < len THEN (v \div 2^6) % 64 ELSE Pad,
        IF i + 1 < len THEN v % 64 ELSE Pad >>

\* The four characters for the bytes i, i+1 and i+2 of `in` (i counts from 0,
\* as in the code); `v` holds the bytes that are there.
Quad(in, i, v) ==
  LET len == Len(in)
  IN << (v \div 2^18) % 64, (v \div 2^12) % 64,
        IF i + 1 < len THEN (v \div 2^6) % 64 ELSE Pad,
        IF i + 2 < len THEN v % 64 ELSE Pad >>

\* out[] of a loop over i = 0, 3, 6, ..., given the value v[i] of each round.
Encoded(in, v) ==
  [ k \in 1..b64_encoded_size(Len(in)) |->
      LET i == 3 * ((k - 1) \div 4) IN Quad(in, i, v[i])[1 + ((k - 1) % 4)] ]

\* b64_encode of base64.c: bytes are unsigned, a missing one is shifted in as 0.
b64_encode(in) ==
  LET Byte(i) == IF i < Len(in) THEN in[i + 1] ELSE 0
      v == [i \in 0..Len(in) |-> Byte(i) * 2^16 + Byte(i + 1) * 2^8 + Byte(i + 2)]
  IN Encoded(in, v)

\* b64_encode of base64.cpp reads plain `char`, which is signed on most builds:
\* v << 8 | in[i] with a negative in[i] sets every bit above the low eight, so
\* only those survive from the bytes before it (v is taken modulo 2^24, of which
\* alone bits are used).  It reserves a place for the zero byte that would end
\* the text but writes none: who reads the vector's data as a string goes on with
\* `after`, what the memory holds behind the encoding up to the next zero byte.
b64_encode_cpp(in, after) ==
  LET Byte(i) == IF i < Len(in) THEN in[i + 1] ELSE 0
      Or(v, b) == IF b < 128 THEN (v % 2^16) * 2^8 + b ELSE (2^16 - 1) * 2^8 + b
      v == [i \in 0..Len(in) |-> Or(Or(Byte(i), Byte(i + 1)), Byte(i + 2))]
  IN Encoded(in, v) \o after

\* What a decoder makes of an encoding (waku/common/base64.nim on the other
\* side): four characters give three bytes, less one for each Pad.
b64_decode(text) ==
  LET Six(k) == IF text[k] = Pad THEN 0 ELSE text[k]
      Word(q) == Six(4*q + 1) * 2^18 + Six(4*q + 2) * 2^12 + Six(4*q + 3) * 2^6 + Six(4*q + 4)
      Pads == { k \in 1..Len(text) : text[k] = Pad }
      Size == (Len(text) \div 4) * 3
                - (IF \E j, k \in Pads : j # k THEN 2 ELSE IF Pads # {} THEN 1 ELSE 0)
  IN [ n \in 1..Size |-> (Word((n - 1) \div 3) \div 2^(16 - 8 * ((n - 1) % 3))) % 256 ]
=============================================================================
