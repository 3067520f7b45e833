---------------------------- MODULE EncodingProofs ----------------------------
(***************************************************************************)
(* What is written is what is read, for data of any length. What the       *)
(* encoders of the two examples produce decodes to what they were given:   *)
(* every four characters stand for a word of three bytes (WordIsBack), and *)
(* the number of Pads tells how many bytes the last word has               *)
(* (PadsTellLength). What the library writes of an event is what the       *)
(* readers of json_utils.c find in it: the part that is sought stands in   *)
(* the text, and nothing before it looks like it.                          *)
(***************************************************************************)
EXTENDS Base64, LogosEvents, Integers, SequenceTheorems, FiniteSetTheorems, FunctionTheorems, TLAPS

Byte == 0..255

\* The i-th byte, counted from 0, or 0 if there is none; and the word of three bytes.
At0(in, i) == IF i < Len(in) THEN in[i + 1] ELSE 0
Word3(a, b, c) == a * 65536 + b * 256 + c
WordAt(in, i) == Word3(At0(in, i), At0(in, i + 1), At0(in, i + 2))

\* The digits of a word to the base 64, and the word they make.
Digit1(v) == (v \div 262144) % 64
Digit2(v) == (v \div 4096) % 64
Digit3(v) == (v \div 64) % 64
Digit4(v) == v % 64
Undigit(a, b, c, d) == a * 262144 + b * 4096 + c * 64 + d

\* The bytes of a word.
Byte0(v) == (v \div 65536) % 256
Byte1(v) == (v \div 256) % 256
Byte2(v) == v % 256

Fits(v) == v \div 262144 < 64

LEMMA Powers ==
  /\ 2^6 = 64 /\ 2^8 = 256 /\ 2^12 = 4096 /\ 2^16 = 65536 /\ 2^18 = 262144 /\ 2^0 = 1
  BY SMT

LEMMA DivMod ==
  ASSUME NEW q \in Nat
  PROVE  /\ \A r \in 0..2 : (3 * q + r) \div 3 = q /\ (3 * q + r) % 3 = r
         /\ \A r \in 0..3 : (4 * q + r) \div 4 = q /\ (4 * q + r) % 4 = r
  BY SMT

LEMMA DigitTypes ==
  ASSUME NEW v \in Nat
  PROVE  /\ Digit1(v) \in 0..63 /\ Digit2(v) \in 0..63
         /\ Digit3(v) \in 0..63 /\ Digit4(v) \in 0..63
  BY SMT DEF Digit1, Digit2, Digit3, Digit4

LEMMA WordType ==
  ASSUME NEW a \in Byte, NEW b \in Byte, NEW c \in Byte
  PROVE  Word3(a, b, c) \in Nat /\ Fits(Word3(a, b, c))
  BY SMT DEF Byte, Word3, Fits

\* A word is its four digits ...
LEMMA FourDigits ==
  ASSUME NEW v \in Nat, Fits(v)
  PROVE  v = Undigit(Digit1(v), Digit2(v), Digit3(v), Digit4(v))
<1> DEFINE x == v \div 64
           y == x \div 64
           z == y \div 64
<1>1. x \in Nat /\ v = 64 * x + (v % 64) /\ v % 64 \in 0..63 BY SMT
<1>2. y \in Nat /\ x = 64 * y + (x % 64) /\ x % 64 \in 0..63 BY <1>1, SMT
<1>3. z \in Nat /\ y = 64 * z + (y % 64) /\ y % 64 \in 0..63 BY <1>2, SMT
<1>4. y = v \div 4096 BY <1>1, <1>2, SMT
<1>5. z = v \div 262144 BY <1>1, <1>2, <1>3, SMT
<1>6. z < 64 BY <1>5, SMT DEF Fits
<1>7. z % 64 = z BY <1>3, <1>6, SMT
<1>8. Digit1(v) = z /\ Digit2(v) = y % 64 /\ Digit3(v) = x % 64 /\ Digit4(v) = v % 64
  BY <1>4, <1>5, <1>7, SMT DEF Digit1, Digit2, Digit3, Digit4
<1> HIDE DEF x, y, z
<1>9. v = Undigit(z, y % 64, x % 64, v % 64) BY <1>1, <1>2, <1>3, SMT DEF Undigit
<1>10. QED BY <1>8, <1>9

\* ... and its three bytes.
LEMMA ThreeBytes ==
  ASSUME NEW a \in Byte, NEW b \in Byte, NEW c \in Byte
  PROVE  Byte0(Word3(a, b, c)) = a /\ Byte1(Word3(a, b, c)) = b /\ Byte2(Word3(a, b, c)) = c
  BY SMT DEF Byte, Word3, Byte0, Byte1, Byte2

\* The digits of missing bytes are zeros.
LEMMA MissingBytes ==
  ASSUME NEW a \in Byte, NEW b \in Byte
  PROVE  Digit4(Word3(a, b, 0)) = 0 /\ Digit4(Word3(a, 0, 0)) = 0 /\ Digit3(Word3(a, 0, 0)) = 0
  BY SMT DEF Byte, Word3, Digit3, Digit4

LEMMA BytesAt ==
  ASSUME NEW in \in Seq(Byte), NEW i \in Nat
  PROVE  /\ At0(in, i) \in Byte /\ At0(in, i + 1) \in Byte /\ At0(in, i + 2) \in Byte
         /\ WordAt(in, i) \in Nat /\ Fits(WordAt(in, i))
<1>1. \A j \in Nat : At0(in, j) \in Byte
  <2>1. 0 \in Byte BY SMT DEF Byte
  <2>2. \A j \in Nat : j < Len(in) => j + 1 \in 1..Len(in) BY SMT
  <2>3. QED BY <2>1, <2>2, SMT DEF At0
<1>2. i + 1 \in Nat /\ i + 2 \in Nat BY SMT
<1>3. QED BY <1>1, <1>2, WordType DEF WordAt
----------------------------------------------------------------------------
\* The groups of four characters.
Groups(in) == (Len(in) + 2) \div 3

LEMMA SizeIsGroups ==
  ASSUME NEW in \in Seq(Byte)
  PROVE  /\ Len(in) \in Nat /\ Groups(in) \in Nat
         /\ b64_encoded_size(Len(in)) = 4 * Groups(in)
         /\ \A q \in 0..(Groups(in) - 1) : q \in Nat /\ 3 * q \in 0..Len(in) /\ 3 * q < Len(in)
<1> DEFINE n == Len(in)
<1>1. n \in Nat BY SMT
<1> HIDE DEF n
<1>2. /\ (n + 2) \div 3 \in Nat
      /\ ((IF (n % 3) # 0 THEN n + (3 - (n % 3)) ELSE n) \div 3) * 4 = 4 * ((n + 2) \div 3)
  <2>1. CASE n % 3 = 0 BY <1>1, <2>1, SMT
  <2>2. CASE n % 3 = 1 BY <1>1, <2>2, SMT
  <2>3. CASE n % 3 = 2 BY <1>1, <2>3, SMT
  <2>4. n % 3 \in 0..2 BY <1>1, SMT
  <2>5. QED BY <2>1, <2>2, <2>3, <2>4, SMT
<1>3. \A q \in 0..(((n + 2) \div 3) - 1) : q \in Nat /\ 3 * q \in 0..n /\ 3 * q < n
  BY <1>1, <1>2, SMT
<1>4. QED BY <1>1, <1>2, <1>3 DEF Groups, b64_encoded_size, n

\* The four characters of a group.
Char3(in, i, v) == IF i + 1 < Len(in) THEN Digit3(v) ELSE Pad
Char4(in, i, v) == IF i + 2 < Len(in) THEN Digit4(v) ELSE Pad

LEMMA QuadChars ==
  ASSUME NEW in, NEW i, NEW v \in Nat
  PROVE  /\ Quad(in, i, v) = <<Digit1(v), Digit2(v), Char3(in, i, v), Char4(in, i, v)>>
         /\ Digit1(v) \in 0..64 /\ Digit2(v) \in 0..64
         /\ Char3(in, i, v) \in 0..64 /\ Char4(in, i, v) \in 0..64
<1>1. /\ (v \div 2^18) % 64 = Digit1(v) /\ (v \div 2^12) % 64 = Digit2(v)
      /\ (v \div 2^6) % 64 = Digit3(v) /\ v % 64 = Digit4(v)
  BY Powers, SMT DEF Digit1, Digit2, Digit3, Digit4
<1>2. Quad(in, i, v) = <<Digit1(v), Digit2(v), Char3(in, i, v), Char4(in, i, v)>>
  BY <1>1 DEF Quad, Char3, Char4
<1>3. 0..63 \subseteq 0..64 /\ Pad \in 0..64 BY SMT DEF Pad
<1>4. QED BY <1>2, <1>3, DigitTypes DEF Char3, Char4

\* The characters of an encoding, group by group.
EncodedBy(in, text) ==
  /\ text \in Seq(0..64) /\ Len(text) = 4 * Groups(in)
  /\ \A q \in 0..(Groups(in) - 1) :
       /\ text[4 * q + 1] = Digit1(WordAt(in, 3 * q))
       /\ text[4 * q + 2] = Digit2(WordAt(in, 3 * q))
       /\ text[4 * q + 3] = Char3(in, 3 * q, WordAt(in, 3 * q))
       /\ text[4 * q + 4] = Char4(in, 3 * q, WordAt(in, 3 * q))

\* A loop that has in v[i] the word of the bytes from i on encodes it.
LEMMA LoopEncodes ==
  ASSUME NEW in \in Seq(Byte), NEW v, \A i \in 0..Len(in) : v[i] = WordAt(in, i)
  PROVE  EncodedBy(in, Encoded(in, v))
<1> DEFINE g == Groups(in)
           text == Encoded(in, v)
           at(k) == 3 * ((k - 1) \div 4)
           W(q) == WordAt(in, 3 * q)
<1>1. /\ Len(in) \in Nat /\ g \in Nat /\ b64_encoded_size(Len(in)) = 4 * g
      /\ \A q \in 0..(g - 1) : q \in Nat /\ 3 * q \in 0..Len(in)
  BY SizeIsGroups
<1>2. text = [k \in 1..(4 * g) |-> Quad(in, at(k), v[at(k)])[1 + ((k - 1) % 4)]]
  BY <1>1 DEF Encoded
<1> HIDE DEF g, text
<1>3. ASSUME NEW q \in 0..(g - 1), NEW r \in 0..3
      PROVE  /\ 4 * q + (r + 1) \in 1..(4 * g)
             /\ text[4 * q + (r + 1)] = Quad(in, 3 * q, W(q))[1 + r]
  <2> DEFINE k == 4 * q + (r + 1)
  <2>1. k \in 1..(4 * g) /\ k - 1 = 4 * q + r BY <1>1, SMT
  <2>2. (k - 1) \div 4 = q /\ (k - 1) % 4 = r BY <1>1, <2>1, DivMod
  <2> HIDE DEF k
  <2>3. at(k) = 3 * q /\ v[at(k)] = W(q) BY <1>1, <2>2
  <2>4. text[k] = Quad(in, at(k), v[at(k)])[1 + ((k - 1) % 4)] BY <1>2, <2>1
  <2>5. QED BY <2>1, <2>2, <2>3, <2>4 DEF k
<1>4. ASSUME NEW q \in 0..(g - 1)
      PROVE  /\ \A r \in 0..3 : text[4 * q + (r + 1)] \in 0..64
             /\ text[4 * q + 1] = Digit1(W(q)) /\ text[4 * q + 2] = Digit2(W(q))
             /\ text[4 * q + 3] = Char3(in, 3 * q, W(q)) /\ text[4 * q + 4] = Char4(in, 3 * q, W(q))
  <2> DEFINE i == 3 * q
             w == W(q)
             Q == Quad(in, i, w)
  <2>1. w \in Nat
    <3>1. i \in Nat BY <1>1, SMT
    <3>2. QED BY <3>1, BytesAt
  <2>2. \A r \in 0..3 : text[4 * q + (r + 1)] = Q[1 + r] BY <1>3
  <2> HIDE DEF i, w
  <2>3. /\ Q = <<Digit1(w), Digit2(w), Char3(in, i, w), Char4(in, i, w)>>
        /\ Digit1(w) \in 0..64 /\ Digit2(w) \in 0..64
        /\ Char3(in, i, w) \in 0..64 /\ Char4(in, i, w) \in 0..64
    BY <2>1, QuadChars
  <2> HIDE DEF Q
  <2>4. /\ text[4 * q + (0 + 1)] = Q[1 + 0] /\ text[4 * q + (1 + 1)] = Q[1 + 1]
        /\ text[4 * q + (2 + 1)] = Q[1 + 2] /\ text[4 * q + (3 + 1)] = Q[1 + 3]
    BY <2>2
  <2>5. /\ text[4 * q + 1] = Q[1] /\ text[4 * q + 2] = Q[2]
        /\ text[4 * q + 3] = Q[3] /\ text[4 * q + 4] = Q[4]
    BY <2>4, SMT
  <2>6. Q[1] = Digit1(w) /\ Q[2] = Digit2(w) /\ Q[3] = Char3(in, i, w) /\ Q[4] = Char4(in, i, w)
    BY <2>3
  <2>7. \A r \in 0..3 : r = 0 \/ r = 1 \/ r = 2 \/ r = 3 BY SMT
  <2>8. \A r \in 0..3 : text[4 * q + (r + 1)] \in 0..64
    <3>1. Q[1 + 0] = Q[1] /\ Q[1 + 1] = Q[2] /\ Q[1 + 2] = Q[3] /\ Q[1 + 3] = Q[4] BY SMT
    <3>2. /\ text[4 * q + (0 + 1)] \in 0..64 /\ text[4 * q + (1 + 1)] \in 0..64
          /\ text[4 * q + (2 + 1)] \in 0..64 /\ text[4 * q + (3 + 1)] \in 0..64
      BY <2>3, <2>4, <2>6, <3>1
    <3>3. QED BY <2>7, <3>2
  <2>9. QED BY <2>5, <2>6, <2>8 DEF i, w
<1>5. ASSUME NEW k \in 1..(4 * g) PROVE text[k] \in 0..64
  <2> DEFINE q == (k - 1) \div 4
             r == (k - 1) % 4
  <2>1. q \in 0..(g - 1) /\ r \in 0..3 /\ k = 4 * q + (r + 1) BY <1>1, SMT
  <2> HIDE DEF q, r
  <2>2. QED BY <1>4, <2>1
<1>6. text \in Seq(0..64) /\ Len(text) = 4 * g
  <2> DEFINE N == 4 * g
  <2>1. N \in Nat BY <1>1, SMT
  <2>2. text \in [1..N -> 0..64] BY <1>2, <1>5
  <2> HIDE DEF N
  <2>3. text \in Seq(0..64) /\ Len(text) = N BY <2>1, <2>2
  <2>4. QED BY <2>3 DEF N
<1>7. QED BY <1>4, <1>6 DEF EncodedBy, g, text

\* base64.c.
LEMMA EncodeC == ASSUME NEW in \in Seq(Byte) PROVE EncodedBy(in, b64_encode(in))
<1> DEFINE v == [i \in 0..Len(in) |-> At0(in, i) * 2^16 + At0(in, i + 1) * 2^8 + At0(in, i + 2)]
<1>1. \A i \in 0..Len(in) : v[i] = WordAt(in, i) BY Powers, SMT DEF WordAt, Word3
<1>2. b64_encode(in) = Encoded(in, v) BY DEF b64_encode, At0
<1> HIDE DEF v
<1>3. QED BY <1>1, <1>2, LoopEncodes

\* base64.cpp is right where no byte is negative as a plain char.
Shifted(v, b) == IF b < 128 THEN (v % 2^16) * 2^8 + b ELSE (2^16 - 1) * 2^8 + b

LEMMA ShiftingMakesWord ==
  ASSUME NEW a \in 0..127, NEW b \in 0..127, NEW c \in 0..127
  PROVE  Shifted(Shifted(a, b), c) = Word3(a, b, c)
<1>1. Shifted(a, b) = (a % 65536) * 256 + b BY Powers, SMT DEF Shifted
<1>2. Shifted(a, b) = a * 256 + b BY <1>1, SMT
<1>3. a * 256 + b \in Nat /\ (a * 256 + b) % 65536 = a * 256 + b BY SMT
<1>4. \A x \in Nat : x % 65536 = x => Shifted(x, c) = x * 256 + c BY Powers, SMT DEF Shifted
<1>5. Shifted(a * 256 + b, c) = (a * 256 + b) * 256 + c BY <1>3, <1>4, SMT
<1>6. QED BY <1>2, <1>5, SMT DEF Word3

\* What stands before the rest of a text is its first part.
LEMMA HeadOfConcat ==
  ASSUME NEW S, NEW s \in Seq(S), NEW rest \in Seq(S)
  PROVE  SubSeq(s \o rest, 1, Len(s)) = s
<1> DEFINE whole == s \o rest
           part == SubSeq(whole, 1, Len(s))
<1>1. /\ Len(s) \in Nat /\ Len(rest) \in Nat
      /\ whole \in Seq(S) /\ Len(whole) = Len(s) + Len(rest)
      /\ \A i \in 1..Len(s) : whole[i] = s[i]
  BY ConcatProperties, LenProperties
<1> HIDE DEF whole
<1>2. /\ part \in Seq(S) /\ Len(part) = Len(s)
      /\ \A i \in 1..Len(s) : part[i] = whole[i]
  BY <1>1, SMT
<1>3. QED BY <1>1, <1>2, SeqEqual

LEMMA EncodeCpp ==
  ASSUME NEW in \in Seq(Byte), \A i \in 1..Len(in) : in[i] < 128, NEW after \in Seq(Nat)
  PROVE  EncodedBy(in, SubSeq(b64_encode_cpp(in, after), 1, b64_encoded_size(Len(in))))
<1> DEFINE v == [i \in 0..Len(in) |-> Shifted(Shifted(At0(in, i), At0(in, i + 1)), At0(in, i + 2))]
<1>1. \A i \in Nat : At0(in, i) \in 0..127
  <2>0. \A x \in Byte : x < 128 => x \in 0..127 BY SMT DEF Byte
  <2>1. \A i \in 1..Len(in) : in[i] \in 0..127
    <3>1. \A i \in 1..Len(in) : in[i] \in Byte OBVIOUS
    <3>2. QED BY <2>0, <3>1
  <2>2. \A i \in Nat : i < Len(in) => i + 1 \in 1..Len(in) BY SMT
  <2>3. 0 \in 0..127 BY SMT
  <2>4. QED BY <2>1, <2>2, <2>3 DEF At0
<1>2. ASSUME NEW i \in 0..Len(in) PROVE v[i] = WordAt(in, i)
  <2>1. i \in Nat /\ i + 1 \in Nat /\ i + 2 \in Nat BY SMT
  <2>2. QED BY <1>1, <2>1, ShiftingMakesWord DEF WordAt
<1>3. b64_encode_cpp(in, after) = Encoded(in, v) \o after BY DEF b64_encode_cpp, At0, Shifted
<1> HIDE DEF v
<1>4. EncodedBy(in, Encoded(in, v)) BY <1>2, LoopEncodes
<1>5. Encoded(in, v) \in Seq(Nat) /\ Len(Encoded(in, v)) = b64_encoded_size(Len(in))
  <2>1. Encoded(in, v) \in Seq(0..64) /\ Len(Encoded(in, v)) = b64_encoded_size(Len(in))
    BY <1>4, SizeIsGroups DEF EncodedBy
  <2>2. 0..64 \subseteq Nat OBVIOUS
  <2>3. QED BY <2>1, <2>2, SeqMonotonic
<1>6. SubSeq(Encoded(in, v) \o after, 1, Len(Encoded(in, v))) = Encoded(in, v)
  BY <1>5, HeadOfConcat
<1>7. QED BY <1>3, <1>4, <1>5, <1>6

----------------------------------------------------------------------------
\* The characters as the decoder reads them: a Pad is as good as a 0.
SixOf(c) == IF c = Pad THEN 0 ELSE c

\* Every group is read as the word it was written for.
LEMMA WordIsBack ==
  ASSUME NEW in \in Seq(Byte), NEW text, EncodedBy(in, text), NEW q \in 0..(Groups(in) - 1)
  PROVE  Undigit(SixOf(text[4 * q + 1]), SixOf(text[4 * q + 2]), SixOf(text[4 * q + 3]), SixOf(text[4 * q + 4]))
           = WordAt(in, 3 * q)
<1> DEFINE i == 3 * q
           w == WordAt(in, i)
<1>1. /\ text[4 * q + 1] = Digit1(w) /\ text[4 * q + 2] = Digit2(w)
      /\ text[4 * q + 3] = Char3(in, i, w) /\ text[4 * q + 4] = Char4(in, i, w)
  BY DEF EncodedBy
<1>2. i \in Nat BY SizeIsGroups, SMT
<1> HIDE DEF i
<1>3. /\ w \in Nat /\ Fits(w) /\ At0(in, i) \in Byte /\ At0(in, i + 1) \in Byte
      /\ w = Word3(At0(in, i), At0(in, i + 1), At0(in, i + 2))
  BY <1>2, BytesAt DEF WordAt
<1> HIDE DEF w
<1>4. \A x \in 0..63 : SixOf(x) = x /\ x # Pad BY SMT DEF SixOf, Pad
<1>5. /\ Digit1(w) \in 0..63 /\ Digit2(w) \in 0..63 /\ Digit3(w) \in 0..63 /\ Digit4(w) \in 0..63
  BY <1>3, DigitTypes
<1>6. SixOf(Char4(in, i, w)) = Digit4(w)
  <2>1. CASE i + 2 < Len(in) BY <1>4, <1>5, <2>1 DEF Char4
  <2>2. CASE ~(i + 2 < Len(in))
    <3>1. At0(in, i + 2) = 0 BY <2>2 DEF At0
    <3>2. Digit4(w) = 0 BY <1>3, <3>1, MissingBytes
    <3>3. QED BY <2>2, <3>2 DEF Char4, SixOf
  <2>3. QED BY <2>1, <2>2
<1>7. SixOf(Char3(in, i, w)) = Digit3(w)
  <2>1. CASE i + 1 < Len(in) BY <1>4, <1>5, <2>1 DEF Char3
  <2>2. CASE ~(i + 1 < Len(in))
    <3>1. ~(i + 2 < Len(in)) BY <1>2, <2>2, SMT
    <3>2. At0(in, i + 1) = 0 /\ At0(in, i + 2) = 0 BY <2>2, <3>1 DEF At0
    <3>3. Digit3(w) = 0 BY <1>3, <3>2, MissingBytes
    <3>4. QED BY <2>2, <3>3 DEF Char3, SixOf
  <2>3. QED BY <2>1, <2>2
<1>8. w = Undigit(Digit1(w), Digit2(w), Digit3(w), Digit4(w)) BY <1>3, FourDigits
<1>9. QED BY <1>1, <1>4, <1>5, <1>6, <1>7, <1>8 DEF w, i

\* Only the last group has Pads: as many as its last word has too few bytes.
LEMMA PadsTellLength ==
  ASSUME NEW in \in Seq(Byte), NEW text, EncodedBy(in, text)
  PROVE  LET Pads == { k \in 1..Len(text) : text[k] = Pad }
             missing == 3 * Groups(in) - Len(in)
         IN /\ missing \in 0..2
            /\ missing = IF \E j, k \in Pads : j # k THEN 2 ELSE IF Pads # {} THEN 1 ELSE 0
<1> DEFINE n == Len(in)
           g == Groups(in)
           Pads == { k \in 1..Len(text) : text[k] = Pad }
<1>1. /\ n \in Nat /\ g \in Nat /\ g = (n + 2) \div 3 /\ Len(text) = 4 * g
  BY SizeIsGroups DEF Groups, EncodedBy
<1> HIDE DEF n, g
<1>2. 3 * g - n \in 0..2 BY <1>1, SMT
<1>3. ASSUME NEW q \in 0..(g - 1)
      PROVE  /\ text[4 * q + 1] # Pad /\ text[4 * q + 2] # Pad
             /\ text[4 * q + 3] = Pad <=> ~(3 * q + 1 < n)
             /\ text[4 * q + 4] = Pad <=> ~(3 * q + 2 < n)
  <2> DEFINE w == WordAt(in, 3 * q)
  <2>1. w \in Nat
    <3>1. 3 * q \in Nat BY <1>1, SMT
    <3>2. QED BY <3>1, BytesAt
  <2>2. \A x \in 0..63 : x # Pad BY SMT DEF Pad
  <2>3. /\ text[4 * q + 1] = Digit1(w) /\ text[4 * q + 2] = Digit2(w)
        /\ text[4 * q + 3] = Char3(in, 3 * q, w) /\ text[4 * q + 4] = Char4(in, 3 * q, w)
    BY DEF EncodedBy, g
  <2> HIDE DEF w
  <2>4. QED BY <2>1, <2>2, <2>3, DigitTypes DEF Char3, Char4, n
<1>4. Pads = (IF 3 * g - n >= 1 THEN {4 * g} ELSE {}) \cup (IF 3 * g - n = 2 THEN {4 * g - 1} ELSE {})
  <2>1. ASSUME NEW k \in 1..(4 * g)
        PROVE  text[k] = Pad <=> \/ 3 * g - n >= 1 /\ k = 4 * g
                                 \/ 3 * g - n = 2 /\ k = 4 * g - 1
    <3> DEFINE q == (k - 1) \div 4
               r == (k - 1) % 4
    <3>1. q \in 0..(g - 1) /\ r \in 0..3 /\ k = 4 * q + (r + 1) BY <1>1, SMT
    <3> HIDE DEF q, r
    <3>2. CASE r = 0 BY <1>1, <1>2, <1>3, <3>1, <3>2, SMT
    <3>3. CASE r = 1 BY <1>1, <1>2, <1>3, <3>1, <3>3, SMT
    <3>4. CASE r = 2 BY <1>1, <1>2, <1>3, <3>1, <3>4, SMT
    <3>5. CASE r = 3 BY <1>1, <1>2, <1>3, <3>1, <3>5, SMT
    <3>6. QED BY <3>1, <3>2, <3>3, <3>4, <3>5, SMT
  <2>2. 3 * g - n >= 1 => g >= 1 BY <1>1, SMT
  <2>3. QED BY <1>1, <2>1, <2>2, SMT
<1>5. CASE 3 * g - n = 0
  <2>1. Pads = {} BY <1>4, <1>5, SMT
  <2>2. QED BY <1>2, <1>5, <2>1 DEF n, g
<1>6. CASE 3 * g - n = 1
  <2>1. Pads = {4 * g} BY <1>4, <1>6, SMT
  <2> HIDE DEF Pads
  <2>2. Pads # {} /\ ~ \E j, k \in Pads : j # k BY <2>1
  <2>3. QED BY <1>2, <1>6, <2>2 DEF n, g, Pads
<1>7. CASE 3 * g - n = 2
  <2>1. Pads = {4 * g, 4 * g - 1} BY <1>4, <1>7, SMT
  <2>2. 4 * g # 4 * g - 1 BY <1>1, SMT
  <2> HIDE DEF Pads
  <2>3. \E j, k \in Pads : j # k BY <2>1, <2>2
  <2>4. QED BY <1>2, <1>7, <2>3 DEF n, g, Pads
<1>8. 3 * g - n = 0 \/ 3 * g - n = 1 \/ 3 * g - n = 2 BY <1>2, SMT
<1>9. QED BY <1>5, <1>6, <1>7, <1>8

\* b64_decode takes an encoding back to the message.
LEMMA DecodeEncoded ==
  ASSUME NEW in \in Seq(Byte), NEW text, EncodedBy(in, text)
  PROVE  b64_decode(text) = in
<1> DEFINE n == Len(in)
           g == Groups(in)
           Pads == { k \in 1..Len(text) : text[k] = Pad }
           cut == IF \E j, k \in Pads : j # k THEN 2 ELSE IF Pads # {} THEN 1 ELSE 0
           size == (Len(text) \div 4) * 3 - cut
           Word(q) == SixOf(text[4 * q + 1]) * 2^18 + SixOf(text[4 * q + 2]) * 2^12
                        + SixOf(text[4 * q + 3]) * 2^6 + SixOf(text[4 * q + 4])
           bytes == [m \in 1..size |-> (Word((m - 1) \div 3) \div 2^(16 - 8 * ((m - 1) % 3))) % 256]
<1>1. b64_decode(text) = bytes BY DEF b64_decode, SixOf
<1>2. n \in Nat /\ g \in Nat /\ Len(text) = 4 * g BY SizeIsGroups DEF EncodedBy
<1>3. 3 * g - n \in 0..2 /\ 3 * g - n = cut BY PadsTellLength
<1> HIDE DEF n, g, cut
<1>4. size = n BY <1>2, <1>3, SMT
<1>5. \A q \in 0..(g - 1) : Word(q) = WordAt(in, 3 * q)
  <2> DEFINE U(q) == Undigit(SixOf(text[4 * q + 1]), SixOf(text[4 * q + 2]), SixOf(text[4 * q + 3]), SixOf(text[4 * q + 4]))
  <2>1. \A q : Word(q) = U(q) BY Powers, SMT DEF Undigit
  <2>2. \A q \in 0..(g - 1) : U(q) = WordAt(in, 3 * q) BY WordIsBack DEF g
  <2> HIDE DEF Word, U
  <2>3. QED BY <2>1, <2>2
<1> HIDE DEF size, Word
<1>6. ASSUME NEW m \in 1..n PROVE bytes[m] = in[m]
  <2> DEFINE q == (m - 1) \div 3
             r == (m - 1) % 3
             i == 3 * q
             w == WordAt(in, i)
  <2>1. /\ q \in 0..(g - 1) /\ r \in 0..2 /\ i \in Nat /\ i + r + 1 = m /\ i + r < n /\ i + r \in Nat
    BY <1>2, <1>3, SMT
  <2>2. bytes[m] = (w \div 2^(16 - 8 * r)) % 256 BY <1>4, <1>5, <2>1
  <2> HIDE DEF q, r, i, w
  <2>3. in[m] = At0(in, i + r) BY <2>1 DEF At0, n
  <2>4. /\ Byte0(w) = At0(in, i) /\ Byte1(w) = At0(in, i + 1) /\ Byte2(w) = At0(in, i + 2) /\ w \in Nat
    <3>1. i \in Nat BY <2>1
    <3>2. /\ At0(in, i) \in Byte /\ At0(in, i + 1) \in Byte /\ At0(in, i + 2) \in Byte
          /\ WordAt(in, i) \in Nat
      BY <3>1, BytesAt
    <3>3. QED BY <3>2, ThreeBytes DEF WordAt, w
  <2>5. CASE r = 0
    <3>1. 16 - 8 * 0 = 16 /\ i + 0 = i BY <2>1, SMT
    <3>2. (w \div 2^16) % 256 = Byte0(w) BY Powers, SMT DEF Byte0
    <3>3. QED BY <2>2, <2>3, <2>4, <2>5, <3>1, <3>2
  <2>6. CASE r = 1
    <3>1. 16 - 8 * 1 = 8 BY SMT
    <3>2. (w \div 2^8) % 256 = Byte1(w) BY Powers, SMT DEF Byte1
    <3>3. QED BY <2>2, <2>3, <2>4, <2>6, <3>1, <3>2
  <2>7. CASE r = 2
    <3>1. 16 - 8 * 2 = 0 BY SMT
    <3>2. (w \div 2^0) % 256 = Byte2(w) BY <2>4, Powers, SMT DEF Byte2
    <3>3. QED BY <2>2, <2>3, <2>4, <2>7, <3>1, <3>2
  <2>8. r = 0 \/ r = 1 \/ r = 2 BY <2>1, SMT
  <2>9. QED BY <2>5, <2>6, <2>7, <2>8
<1>7. bytes = [m \in 1..n |-> bytes[m]] BY <1>4
<1>8. in = [m \in 1..n |-> in[m]] BY DEF n
<1> HIDE DEF bytes
<1>9. QED BY <1>1, <1>6, <1>7, <1>8

\* b64_encode of base64.c loses nothing, whatever the length of the message.
THEOREM EncodingIsDecoded == \A in \in Seq(0..255) : b64_decode(b64_encode(in)) = in
  BY EncodeC, DecodeEncoded DEF Byte

\* That of base64.cpp loses nothing if no byte is negative as a plain char: its
\* first b64_encoded_size characters decode to the bytes, whatever stands in
\* memory behind them, where it writes no end.
THEOREM CppEncodingIsDecoded ==
  \A in \in Seq(0..255), after \in Seq(Nat) :
    (\A i \in 1..Len(in) : in[i] < 128)
      => b64_decode(SubSeq(b64_encode_cpp(in, after), 1, b64_encoded_size(Len(in)))) = in
  BY EncodeCpp, DecodeEncoded DEF Byte

\* No bytes are encoded as no characters.
LEMMA NothingIsEncoded == b64_encode(<<>>) = <<>> /\ b64_encode_cpp(<<>>, <<>>) = <<>>
<1>1. b64_encoded_size(Len(<<>>)) = 0
  BY DEF b64_encoded_size
<1>2. \A v : Encoded(<<>>, v) = <<>>
  BY <1>1 DEF Encoded
<1>3. <<>> \o <<>> = <<>>
  OBVIOUS
<1>4. QED BY ONLY <1>2, <1>3 DEF b64_encode, b64_encode_cpp

----------------------------------------------------------------------------
(* The readers of json_utils.c. *)

\* s stands in the text json after the place a; no part of a text is the token t.
Stands(json, a, s) == a + Len(s) <= Len(json) /\ \A i \in 1..Len(s) : json[a + i] = s[i]
Lacks(s, t) == \A i \in 1..Len(s) : s[i] # t

LEMMA LeastIs ==
  ASSUME NEW S \in SUBSET Int, NEW m \in S, \A j \in S : m <= j
  PROVE  Least(S) = m
<1>1. \A i \in S : (\A j \in S : i <= j) => i = m
  OBVIOUS
<1>2. QED BY <1>1 DEF Least

LEMMA PairIsSeq ==
  ASSUME NEW S, NEW x \in S, NEW y \in S
  PROVE  <<x, y>> \in Seq(S) /\ Len(<<x, y>>) = 2 /\ <<x, y>>[1] = x /\ <<x, y>>[2] = y
  OBVIOUS

LEMMA StandsAlone ==
  ASSUME NEW S, NEW s \in Seq(S)
  PROVE  Stands(s, 0, s)
  BY LenProperties DEF Stands

\* What a text is made of stands in it.
LEMMA StandsSplit ==
  ASSUME NEW S, NEW json \in Seq(S), NEW s \in Seq(S), NEW t \in Seq(S), NEW a \in Nat,
         Stands(json, a, s \o t)
  PROVE  Stands(json, a, s) /\ Stands(json, a + Len(s), t)
<1> DEFINE l == Len(s)
           m == Len(t)
           c == s \o t
<1>1. l \in Nat /\ m \in Nat /\ Len(json) \in Nat
  BY LenProperties
<1>2. Len(c) = l + m /\ \A i \in 1..(l + m) : c[i] = IF i <= l THEN s[i] ELSE t[i - l]
  BY ConcatProperties
<1>3. a + (l + m) <= Len(json) /\ \A i \in 1..(l + m) : json[a + i] = c[i]
  BY <1>1, <1>2 DEF Stands
<1> HIDE DEF c, l, m
<1>4. \A i \in 1..l : json[a + i] = s[i]
  <2> TAKE i \in 1..l
  <2>1. i \in 1..(l + m) /\ i <= l
    BY <1>1
  <2>2. QED BY <2>1, <1>2, <1>3
<1>5. \A i \in 1..m : json[(a + l) + i] = t[i]
  <2> TAKE i \in 1..m
  <2>1. l + i \in 1..(l + m) /\ ~(l + i <= l) /\ (l + i) - l = i /\ a + (l + i) = (a + l) + i
    BY <1>1
  <2>2. QED BY <2>1, <1>2, <1>3
<1>6. a + l <= Len(json) /\ (a + l) + m <= Len(json)
  BY <1>1, <1>3
<1>7. QED BY <1>4, <1>5, <1>6 DEF Stands, l, m

LEMMA LacksConcat ==
  ASSUME NEW S, NEW s \in Seq(S), NEW t \in Seq(S), NEW x, Lacks(s, x), Lacks(t, x)
  PROVE  Lacks(s \o t, x)
<1>1. /\ Len(s \o t) = Len(s) + Len(t)
      /\ \A i \in 1..(Len(s) + Len(t)) : (s \o t)[i] = IF i <= Len(s) THEN s[i] ELSE t[i - Len(s)]
  BY ConcatProperties
<1>2. Len(s) \in Nat /\ Len(t) \in Nat
  BY LenProperties
<1>3. QED BY <1>1, <1>2 DEF Lacks

\* The first place of a key in a text.
LEMMA FoundFirst ==
  ASSUME NEW S, NEW json \in Seq(S), NEW A \in Seq(S), NEW k, NEW o,
         Stands(json, 0, A), Lacks(A, Key(k)), Stands(json, Len(A), <<Key(k), o>>)
  PROVE  Found(json, k, o) # {} /\ Least(Found(json, k, o)) = Len(A) + 1
<1> DEFINE a == Len(A)
           F == Found(json, k, o)
<1>1. a \in Nat /\ Len(json) \in Nat
  BY LenProperties
<1>2. Len(<<Key(k), o>>) = 2 /\ <<Key(k), o>>[1] = Key(k) /\ <<Key(k), o>>[2] = o
  OBVIOUS
<1>3. a + 2 <= Len(json) /\ json[a + 1] = Key(k) /\ json[a + 2] = o
  BY <1>1, <1>2 DEF Stands
<1>4. a + 1 \in F
  BY <1>1, <1>3 DEF Found
<1>5. F \in SUBSET Int
  BY <1>1 DEF Found
<1>6. \A j \in F : a + 1 <= j
  <2> SUFFICES ASSUME NEW j \in F, j <= a PROVE FALSE
    BY <1>1, <1>5
  <2>1. j \in 1..a /\ json[j] = Key(k)
    BY <1>1 DEF Found
  <2>2. json[0 + j] = A[j] /\ A[j] # Key(k)
    BY <2>1 DEF Stands, Lacks
  <2>3. QED BY <1>1, <2>1, <2>2
<1>7. QED BY <1>4, <1>5, <1>6, LeastIs

\* A part that stands in a text is what SubSeq returns.
LEMMA SubSeqStands ==
  ASSUME NEW S, NEW json \in Seq(S), NEW s \in Seq(S), NEW a \in Nat, Stands(json, a, s)
  PROVE  SubSeq(json, a + 1, a + Len(s)) = s
<1>1. Len(s) \in Nat /\ Len(json) \in Nat
  BY LenProperties
<1>2. \A i \in (a + 1)..(a + Len(s)) : json[i] \in S
  BY <1>1, ElementOfSeq DEF Stands
<1> DEFINE u == SubSeq(json, a + 1, a + Len(s))
<1>3. /\ u \in Seq(S) /\ Len(u) = (IF a + 1 <= a + Len(s) THEN (a + Len(s)) - (a + 1) + 1 ELSE 0)
      /\ \A i \in 1..((a + Len(s)) - (a + 1) + 1) : u[i] = json[(a + 1) + i - 1]
  BY <1>1, <1>2, SubSeqProperties
<1> HIDE DEF u
<1>4. Len(u) = Len(s)
  BY <1>1, <1>3
<1>5. \A i \in 1..Len(s) : u[i] = s[i]
  <2> TAKE i \in 1..Len(s)
  <2>1. i \in 1..((a + Len(s)) - (a + 1) + 1) /\ (a + 1) + i - 1 = a + i
    BY <1>1
  <2>2. QED BY <1>3, <2>1 DEF Stands
<1>6. u = s
  BY <1>3, <1>4, <1>5, SeqEqual
<1>7. QED BY <1>6 DEF u

\* A string field is read, and cut to the buffer.
LEMMA FieldIsRead ==
  ASSUME NEW S, NEW json \in Seq(S), NEW A \in Seq(S), NEW v \in Seq(S), NEW k, NEW n \in Nat,
         Key(k) \in S, Quote \in S, Comma \in S,
         Stands(json, 0, A), Lacks(A, Key(k)), Stands(json, Len(A), StringField(k, v)), Lacks(v, Quote)
  PROVE  extract_json_field(json, k, n) = UpTo(v, n - 1)
<1> DEFINE a == Len(A)
           m == Len(v)
           open == <<Key(k), Quote>>
           close == <<Quote, Comma>>
           start == Least(Found(json, k, Quote)) + 2
           ends == { j \in start..Len(json) : json[j] = Quote }
<1>1. open \in Seq(S) /\ close \in Seq(S) /\ Len(open) = 2 /\ Len(close) = 2 /\ close[1] = Quote
  BY PairIsSeq
<1>2. a \in Nat /\ m \in Nat /\ Len(json) \in Nat
  BY LenProperties
<1>e. extract_json_field(json, k, n) =
         IF Found(json, k, Quote) = {} THEN Nothing
         ELSE IF ends = {} THEN Nothing ELSE UpTo(SubSeq(json, start, Least(ends) - 1), n - 1)
  BY Zenon DEF extract_json_field
<1>s. start = Least(Found(json, k, Quote)) + 2
  OBVIOUS
<1>n. ends = { j \in start..Len(json) : json[j] = Quote }
  OBVIOUS
<1>o. open = <<Key(k), Quote>> /\ close = <<Quote, Comma>>
  OBVIOUS
<1>a. a = Len(A)
  OBVIOUS
<1>m. m = Len(v)
  OBVIOUS
<1> HIDE DEF start, ends, a, m, open, close
<1>3. open \o v \in Seq(S) /\ Len(open \o v) = 2 + m
  <2>1. open \o v \in Seq(S) /\ Len(open \o v) = Len(open) + Len(v)
    BY <1>1, ConcatProperties
  <2>2. QED BY <1>1, <1>m, <2>1
<1>4. Stands(json, a, (open \o v) \o close)
  BY <1>a, <1>o DEF StringField
<1>5. Stands(json, a, open \o v) /\ Stands(json, a + (2 + m), close)
  BY <1>1, <1>2, <1>3, <1>4, StandsSplit
<1>6. Stands(json, a, open) /\ Stands(json, a + 2, v)
  BY <1>1, <1>2, <1>3, <1>5, StandsSplit
<1>7. Found(json, k, Quote) # {} /\ start = a + 3
  <2>1. Found(json, k, Quote) # {} /\ Least(Found(json, k, Quote)) = a + 1
    BY <1>6, <1>a, <1>o, FoundFirst
  <2>2. QED BY <1>2, <1>s, <2>1
<1>8. a + m + 4 <= Len(json) /\ json[a + m + 3] = Quote
  <2>1. a + (2 + m) + 2 <= Len(json) /\ json[a + (2 + m) + 1] = Quote
    BY <1>1, <1>5 DEF Stands
  <2>2. QED BY <1>2, <2>1
<1>9. a + m + 3 \in ends
  BY <1>2, <1>7, <1>8, <1>n
<1>10. \A j \in ends : a + m + 3 <= j
  <2> SUFFICES ASSUME NEW j \in ends, j < a + m + 3 PROVE FALSE
    BY <1>2, <1>7, <1>n
  <2>1. j \in (a + 3)..Len(json) /\ json[j] = Quote
    BY <1>7, <1>n
  <2>2. j - (a + 2) \in 1..m /\ (a + 2) + (j - (a + 2)) = j
    BY <1>2, <2>1
  <2>3. v[j - (a + 2)] = json[j]
    BY <1>6, <1>m, <2>2 DEF Stands
  <2>4. QED BY <1>m, <2>1, <2>2, <2>3 DEF Lacks
<1>11. ends # {} /\ Least(ends) = a + m + 3
  <2>1. ends \in SUBSET Int
    BY <1>2, <1>7, <1>n
  <2>2. QED BY <1>9, <1>10, <2>1, LeastIs
<1>12. SubSeq(json, start, Least(ends) - 1) = v
  <2>1. SubSeq(json, (a + 2) + 1, (a + 2) + m) = v
    <3>1. a + 2 \in Nat
      BY <1>2
    <3>2. QED BY <3>1, <1>6, <1>m, SubSeqStands
  <2>2. (a + 2) + 1 = a + 3 /\ (a + 2) + m = (a + m + 3) - 1
    BY <1>2
  <2>3. QED BY <1>7, <1>11, <2>1, <2>2
<1>13. QED BY <1>7, <1>11, <1>12, <1>e
\* An object is read up to the brace that closes it.
LEMMA ObjectIsRead ==
  ASSUME NEW S, NEW json \in Seq(S), NEW A \in Seq(S), NEW O \in Seq(S), NEW k,
         Len(O) >= 2, O[1] = OpenBrace, O[Len(O)] = CloseBrace,
         \A i \in 2..(Len(O) - 1) : O[i] # OpenBrace /\ O[i] # CloseBrace,
         Key(k) \in S, Stands(json, 0, A), Lacks(A, Key(k)), Stands(json, Len(A), <<Key(k)>> \o O)
  PROVE  extract_json_object(json, k) = O
<1> DEFINE a == Len(A)
           l == Len(O)
           found == Found(json, k, OpenBrace)
           start == Least(found) + 1
           Count(m, p) == Cardinality({ j \in start..p : json[j] = m })
           closed == { p \in start..Len(json) : Count(OpenBrace, p) = Count(CloseBrace, p) }
<1>1. a \in Nat /\ l \in Nat /\ Len(json) \in Nat
  BY LenProperties
<1>e. extract_json_object(json, k) =
        IF found = {} THEN Nothing ELSE IF closed = {} THEN Nothing ELSE SubSeq(json, start, Least(closed))
  BY Zenon DEF extract_json_object
<1>2. Stands(json, a, <<Key(k)>>) /\ Stands(json, a + 1, O)
  <2>1. <<Key(k)>> \in Seq(S) /\ Len(<<Key(k)>>) = 1
    OBVIOUS
  <2>2. QED BY <1>1, <2>1, StandsSplit
<1>3. found # {} /\ start = a + 2
  <2>1. json[a + 1] = Key(k)
    BY <1>1, <1>2 DEF Stands
  <2>2. (a + 1) + l <= Len(json) /\ json[(a + 1) + 1] = OpenBrace
    <3>1. Len(O) \in Nat /\ 1 \in 1..Len(O)
      BY LenProperties
    <3>2. QED BY <1>1, <1>2, <3>1 DEF Stands
  <2>3. Stands(json, Len(A), <<Key(k), OpenBrace>>)
    BY <1>1, <2>1, <2>2 DEF Stands
  <2>4. found # {} /\ Least(found) = a + 1
    BY <2>3, FoundFirst
  <2>5. QED BY <1>1, <2>4
<1>c. closed = { p \in start..Len(json) : Count(OpenBrace, p) = Count(CloseBrace, p) }
  OBVIOUS
<1> HIDE DEF closed, start, found
<1>4. OpenBrace # CloseBrace
  BY DEF OpenBrace, CloseBrace, Mark
<1>l. l >= 2
  OBVIOUS
<1>5. /\ (a + 1) + l <= Len(json) /\ json[a + 2] = OpenBrace /\ json[(a + 1) + l] = CloseBrace
      /\ \A j \in (a + 3)..(a + l) : json[j] # OpenBrace /\ json[j] # CloseBrace
  <2>1. (a + 1) + l <= Len(json) /\ \A i \in 1..l : json[(a + 1) + i] = O[i]
    BY <1>2 DEF Stands
  <2>2. ASSUME NEW j \in (a + 3)..(a + l) PROVE json[j] # OpenBrace /\ json[j] # CloseBrace
    <3>1. j - (a + 1) \in 2..(l - 1) /\ j - (a + 1) \in 1..l /\ (a + 1) + (j - (a + 1)) = j
      BY <1>1
    <3>2. QED BY <2>1, <3>1
  <2>3. json[(a + 1) + 1] = O[1] /\ json[(a + 1) + l] = O[l] /\ (a + 1) + 1 = a + 2
    <3>1. 1 \in 1..l /\ l \in 1..l /\ (a + 1) + 1 = a + 2
      BY <1>1, <1>l
    <3>2. QED BY <2>1, <3>1
  <2>4. QED BY <2>1, <2>2, <2>3
<1>6. ASSUME NEW p \in (a + 2)..(a + l) PROVE p \notin closed
  <2>1. { j \in start..p : json[j] = OpenBrace } = {a + 2}
    <3>1. a + 2 \in (a + 2)..p /\ \A j \in (a + 2)..p : j = a + 2 \/ j \in (a + 3)..(a + l)
      BY <1>1
    <3>2. \A j \in (a + 2)..p : json[j] = OpenBrace <=> j = a + 2
      BY <1>5, <3>1
    <3>3. QED BY <1>3, <3>1, <3>2
  <2>2. { j \in start..p : json[j] = CloseBrace } = {}
    <3>1. \A j \in (a + 2)..p : j = a + 2 \/ j \in (a + 3)..(a + l)
      BY <1>1
    <3>2. \A j \in (a + 2)..p : json[j] # CloseBrace
      BY <3>1, <1>4, <1>5
    <3>3. QED BY <3>2, <1>3
  <2>3. Count(OpenBrace, p) = 1 /\ Count(CloseBrace, p) = 0
    BY <2>1, <2>2, FS_EmptySet, FS_Singleton
  <2>4. QED BY <2>3, <1>c
<1>7. ASSUME NEW p \in Nat, p = (a + 1) + l PROVE p \in closed
  <2>1. p \in (a + 2)..Len(json) /\ p # a + 2 /\ (a + 3)..(a + l) = (a + 3)..(p - 1)
    BY <1>1, <1>l, <1>5, <1>7
  <2>2. json[a + 2] = OpenBrace /\ json[p] = CloseBrace
        /\ \A j \in (a + 3)..(p - 1) : json[j] # OpenBrace /\ json[j] # CloseBrace
    BY <1>5, <1>7, <2>1
  <2>3. \A j \in (a + 2)..p : j = a + 2 \/ j = p \/ j \in (a + 3)..(p - 1)
    BY <1>1, <2>1
  <2>4. { j \in (a + 2)..p : json[j] = OpenBrace } = {a + 2}
    BY <1>1, <1>4, <2>1, <2>2, <2>3
  <2>5. { j \in (a + 2)..p : json[j] = CloseBrace } = {p}
    BY <1>1, <1>4, <2>1, <2>2, <2>3
  <2>6. Count(OpenBrace, p) = 1 /\ Count(CloseBrace, p) = 1
    BY <1>3, <2>4, <2>5, FS_Singleton
  <2>7. QED BY <1>3, <2>1, <2>6, <1>c
<1>8. closed # {} /\ Least(closed) = (a + 1) + l
  <2>1. closed \in SUBSET Int /\ \A j \in closed : j \in (a + 2)..Len(json)
    BY <1>1, <1>3, <1>c
  <2>2. \A j \in closed : (a + 1) + l <= j
    <3> SUFFICES ASSUME NEW j \in closed, j < (a + 1) + l PROVE FALSE
      BY <1>1, <2>1
    <3>1. j \in (a + 2)..(a + l)
      BY <1>1, <2>1
    <3>2. QED BY <3>1, <1>6
  <2>3. (a + 1) + l \in closed
    BY <1>1, <1>7
  <2>4. QED BY <2>1, <2>2, <2>3, LeastIs
<1>9. SubSeq(json, start, Least(closed)) = O
  <2>1. a + 1 \in Nat /\ (a + 1) + 1 = a + 2
    BY <1>1
  <2>2. SubSeq(json, (a + 1) + 1, (a + 1) + l) = O
    BY <1>2, <2>1, SubSeqStands
  <2>3. QED BY <1>3, <1>8, <2>1, <2>2
<1>10. QED BY <1>3, <1>8, <1>9, <1>e

\* The odd places up to 2 * m - 1.
Odds(m) == { j \in 1..(2 * m - 1) : j % 2 = 1 }

LEMMA OddsCount ==
  ASSUME NEW m \in Nat
  PROVE  Cardinality(Odds(m)) = m
<1> DEFINE f == [i \in 1..m |-> 2 * i - 1]
<1>1. \A i \in 1..m : 2 * i - 1 \in Odds(m)
  BY DEF Odds
<1>2. \A j \in Odds(m) : (j + 1) \div 2 \in 1..m /\ 2 * ((j + 1) \div 2) - 1 = j
  BY DEF Odds
<1>3. f \in [1..m -> Odds(m)]
  BY <1>1
<1>4. \A x, y \in 1..m : f[x] = f[y] => x = y
  OBVIOUS
<1>5. \A t \in Odds(m) : \E x \in 1..m : f[x] = t
  BY <1>2
<1>6. f \in Bijection(1..m, Odds(m))
  BY <1>3, <1>4, <1>5, Fun_IsBij
<1>7. QED BY <1>6, FS_CountingElements DEF ExistsBijection

LEMMA OddsNth ==
  ASSUME NEW m \in Nat, NEW k \in 1..m
  PROVE  Nth(Odds(m), k) = 2 * k - 1
<1>1. ASSUME NEW i \in 1..m
      PROVE  2 * i - 1 \in Odds(m) /\ Cardinality({ j \in Odds(m) : j <= 2 * i - 1 }) = i
  <2>1. { j \in Odds(m) : j <= 2 * i - 1 } = Odds(i)
    BY DEF Odds
  <2>2. QED BY <2>1, OddsCount DEF Odds
<1>2. \A t \in Odds(m) : (t + 1) \div 2 \in 1..m /\ 2 * ((t + 1) \div 2) - 1 = t
  BY DEF Odds
<1>3. \A t \in Odds(m) : Cardinality({ j \in Odds(m) : j <= t }) = (t + 1) \div 2
  BY <1>1, <1>2
<1>4. \A t \in Odds(m) : Cardinality({ j \in Odds(m) : j <= t }) = k => t = 2 * k - 1
  BY <1>2, <1>3
<1>5. 2 * k - 1 \in Odds(m) /\ Cardinality({ j \in Odds(m) : j <= 2 * k - 1 }) = k
  BY <1>1
<1>6. QED BY <1>4, <1>5 DEF Nth

ArrayOf(bytes) == [ i \in 1..(2 * Len(bytes) - 1) |->
                     IF i % 2 = 1 THEN Number(bytes[(i + 1) \div 2]) ELSE Comma ]
Numbers(bytes) == [ i \in 1..Len(bytes) |-> Number(bytes[i]) ]

LEMMA FunctionIsSeq ==
  ASSUME NEW S, NEW n \in Nat, NEW f \in [1..n -> S]
  PROVE  f \in Seq(S) /\ Len(f) = n
<1>1. f \in UNION { [1..i -> S] : i \in Nat }
  OBVIOUS
<1>2. f \in Seq(S)
  BY <1>1, SeqDef, Zenon
<1>3. DOMAIN f = 1..n /\ DOMAIN f = 1..Len(f) /\ Len(f) \in Nat
  BY <1>2, LenProperties
<1>4. QED BY <1>2, <1>3

\* The length of an array of m bytes.
LEMMA ArrayLength ==
  ASSUME NEW m \in Nat, NEW b, b = IF m = 0 THEN 0 ELSE 2 * m - 1
  PROVE  b \in Nat /\ 1..(2 * m - 1) = 1..b /\ \A i \in 1..b : (i + 1) \div 2 \in 1..m
  OBVIOUS

LEMMA ByteMod == \A x \in 0..255 : x % 256 = x
  OBVIOUS

LEMMA PairStands ==
  ASSUME NEW json, NEW a \in Nat, NEW x, NEW y, Stands(json, a, <<x, y>>)
  PROVE  a + 2 <= Len(json) /\ json[a + 1] = x /\ json[a + 2] = y
<1>1. Len(<<x, y>>) = 2 /\ <<x, y>>[1] = x /\ <<x, y>>[2] = y
  OBVIOUS
<1>2. QED BY <1>1 DEF Stands

LEMMA Between ==
  ASSUME NEW a \in Nat, NEW b \in Nat
  PROVE  a + 2 + b \in Nat /\ (a + 2 + b) + 2 = a + 2 + b + 2 /\ (a + 2 + b) + 1 = a + 2 + b + 1
  OBVIOUS

LEMMA Within ==
  ASSUME NEW a \in Nat, NEW b \in Nat, NEW l \in Nat, a + 2 + b + 2 <= l
  PROVE  /\ a + 2 \in Nat /\ a + 2 < l /\ (a + 1) + 2 = (a + 2) + 1
         /\ b + 1 \in 1..(l - (a + 2)) /\ (a + 2) + (b + 1) = a + 2 + b + 1
         /\ 0 + b <= l - (a + 2) /\ b + 1 <= l - (a + 2)
         /\ \A i \in 1..b : i \in 1..(l - (a + 2)) /\ 0 + i = i
  OBVIOUS

LEMMA ArrayFacts ==
  ASSUME NEW bytes \in Seq(0..255), NEW S, Comma \in S, \A x \in 0..255 : Number(x) \in S
  PROVE  /\ ArrayOf(bytes) \in Seq(S)
         /\ Len(ArrayOf(bytes)) = IF Len(bytes) = 0 THEN 0 ELSE 2 * Len(bytes) - 1
         /\ Numbers(bytes) \in Seq(S) /\ Len(Numbers(bytes)) = Len(bytes)
<1> DEFINE m == Len(bytes)
           b == IF m = 0 THEN 0 ELSE 2 * m - 1
<1>1. m \in Nat
  BY LenProperties
<1>b. b = IF m = 0 THEN 0 ELSE 2 * m - 1
  OBVIOUS
<1>m. m = Len(bytes)
  OBVIOUS
<1>2. \A i \in 1..m : bytes[i] \in 0..255
  BY ElementOfSeq
<1>a. ArrayOf(bytes) = [ i \in 1..(2 * m - 1) |-> IF i % 2 = 1 THEN Number(bytes[(i + 1) \div 2]) ELSE Comma ]
  BY DEF ArrayOf
<1>n. Numbers(bytes) = [ i \in 1..m |-> Number(bytes[i]) ]
  BY DEF Numbers
<1> HIDE DEF m, b
<1>3. b \in Nat /\ 1..(2 * m - 1) = 1..b /\ \A i \in 1..b : (i + 1) \div 2 \in 1..m
  BY <1>1, <1>b, ArrayLength
<1>4. ArrayOf(bytes) \in [1..b -> S]
  <2>1. ASSUME NEW i \in 1..b
        PROVE  (IF i % 2 = 1 THEN Number(bytes[(i + 1) \div 2]) ELSE Comma) \in S
    BY <1>2, <1>3, Zenon
  <2>2. ArrayOf(bytes) = [ i \in 1..b |-> IF i % 2 = 1 THEN Number(bytes[(i + 1) \div 2]) ELSE Comma ]
    BY <1>a, <1>3, Zenon
  <2>3. QED BY <2>1, <2>2, Zenon
<1>5. Numbers(bytes) \in [1..m -> S]
  BY <1>n, <1>2
<1>6. ArrayOf(bytes) \in Seq(S) /\ Len(ArrayOf(bytes)) = b
  BY <1>3, <1>4, FunctionIsSeq
<1>7. Numbers(bytes) \in Seq(S) /\ Len(Numbers(bytes)) = m
  BY <1>1, <1>5, FunctionIsSeq
<1>8. QED BY <1>6, <1>7, <1>b, <1>m

\* What is left of a text after the place c.
LEMMA RestOf ==
  ASSUME NEW S, NEW json \in Seq(S), NEW c \in Nat, c < Len(json)
  PROVE  /\ SubSeq(json, c + 1, Len(json)) \in Seq(S)
         /\ Len(SubSeq(json, c + 1, Len(json))) = Len(json) - c
         /\ \A i \in 1..(Len(json) - c) : SubSeq(json, c + 1, Len(json))[i] = json[c + i]
<1>1. Len(json) \in Nat
  BY LenProperties
<1>2. \A i \in (c + 1)..Len(json) : json[i] \in S
  BY <1>1, ElementOfSeq
<1> DEFINE u == SubSeq(json, c + 1, Len(json))
<1>3. /\ u \in Seq(S) /\ Len(u) = (IF c + 1 <= Len(json) THEN Len(json) - (c + 1) + 1 ELSE 0)
      /\ \A i \in 1..(Len(json) - (c + 1) + 1) : u[i] = json[(c + 1) + i - 1]
  BY <1>1, <1>2, SubSeqProperties
<1> HIDE DEF u
<1>4. Len(u) = Len(json) - c
  BY <1>1, <1>3
<1>5. \A i \in 1..(Len(json) - c) : u[i] = json[c + i]
  <2> TAKE i \in 1..(Len(json) - c)
  <2>1. i \in 1..(Len(json) - (c + 1) + 1) /\ (c + 1) + i - 1 = c + i
    BY <1>1
  <2>2. QED BY <1>3, <2>1
<1>6. QED BY <1>3, <1>4, <1>5 DEF u

\* The numbers in an array of bytes, and where they are.
LEMMA ArrayNumbers ==
  ASSUME NEW bytes \in Seq(0..255), NEW b \in Nat, b = IF Len(bytes) = 0 THEN 0 ELSE 2 * Len(bytes) - 1
  PROVE  /\ { j \in 1..b : ArrayOf(bytes)[j][1] = "number" } = Odds(Len(bytes))
         /\ \A j \in 1..b : ArrayOf(bytes)[j][1] = "number" \/ ArrayOf(bytes)[j] = Comma
         /\ \A k \in 1..Len(bytes) : ArrayOf(bytes)[Nth(Odds(Len(bytes)), k)][2] % 256 = bytes[k]
<1> DEFINE m == Len(bytes)
           B == ArrayOf(bytes)
<1>1. m \in Nat
  BY LenProperties
<1>b. b = IF m = 0 THEN 0 ELSE 2 * m - 1
  OBVIOUS
<1>2. \A k \in 1..m : bytes[k] \in 0..255
  BY ElementOfSeq
<1>a. B = [ i \in 1..(2 * m - 1) |-> IF i % 2 = 1 THEN Number(bytes[(i + 1) \div 2]) ELSE Comma ]
  BY DEF ArrayOf
<1> HIDE DEF m, B
<1>3. 1..b = 1..(2 * m - 1)
  BY <1>1, <1>b
<1>4. \A i \in 1..b : B[i] = IF i % 2 = 1 THEN Number(bytes[(i + 1) \div 2]) ELSE Comma
  BY <1>a, <1>3
<1>5. Comma[1] # "number" /\ \A x : Number(x)[1] = "number" /\ Number(x)[2] = x
  BY DEF Comma, Mark, Number
<1>6. \A j \in 1..b : (B[j][1] = "number" <=> j % 2 = 1) /\ (B[j][1] = "number" \/ B[j] = Comma)
  BY <1>4, <1>5
<1>7. { j \in 1..b : B[j][1] = "number" } = Odds(m)
  BY <1>3, <1>6 DEF Odds
<1>8. ASSUME NEW k \in 1..m PROVE B[Nth(Odds(m), k)][2] % 256 = bytes[k]
  <2>1. Nth(Odds(m), k) = 2 * k - 1
    BY <1>1, OddsNth
  <2>2. 2 * k - 1 \in 1..b /\ (2 * k - 1) % 2 = 1 /\ ((2 * k - 1) + 1) \div 2 = k
    BY <1>1, <1>b
  <2>3. B[2 * k - 1] = Number(bytes[k])
    BY <1>4, <2>2
  <2>4. B[2 * k - 1][2] = bytes[k]
    BY <1>5, <2>3
  <2>5. bytes[k] % 256 = bytes[k]
    BY <1>2, ByteMod
  <2>6. QED BY <2>1, <2>4, <2>5
<1>9. QED BY <1>6, <1>7, <1>8 DEF m, B

\* The reader stops at the bracket that closes the array.
Stops(rest) == { j \in 1..Len(rest) : ~ rest[j][1] = "number" /\ rest[j] # Comma }

LEMMA StopsAtBracket ==
  ASSUME NEW S, NEW rest \in Seq(S), NEW B \in Seq(S), Stands(rest, 0, B),
         \A j \in 1..Len(B) : B[j][1] = "number" \/ B[j] = Comma,
         Len(B) + 1 <= Len(rest), rest[Len(B) + 1] = CloseBracket
  PROVE  Stops(rest) # {} /\ Least(Stops(rest)) = Len(B) + 1
<1> DEFINE stops == { j \in 1..Len(rest) : ~ rest[j][1] = "number" /\ rest[j] # Comma }
           b == Len(B)
<1>1. b \in Nat /\ Len(rest) \in Nat
  BY LenProperties
<1>2. CloseBracket[1] # "number" /\ CloseBracket # Comma
  BY DEF CloseBracket, Comma, Mark
<1>3. \A j \in 1..b : rest[j] = B[j]
  <2> TAKE j \in 1..b
  <2>1. rest[0 + j] = B[j] /\ 0 + j = j
    BY <1>1 DEF Stands
  <2>2. QED BY <2>1
<1>4. b + 1 \in 1..Len(rest)
  BY <1>1
<1>5. b + 1 \in stops
  BY <1>2, <1>4
<1>6. \A j \in stops : b + 1 <= j
  <2> SUFFICES ASSUME NEW j \in stops, ~ b + 1 <= j PROVE FALSE
    OBVIOUS
  <2>1. j \in 1..Len(rest) /\ ~ rest[j][1] = "number" /\ rest[j] # Comma
    OBVIOUS
  <2>2. j \in 1..b
    BY <1>1, <2>1
  <2>3. QED BY <1>3, <2>1, <2>2
<1>7. stops \in SUBSET Int
  BY <1>1
<1> HIDE DEF stops
<1>8. stops # {} /\ Least(stops) = b + 1
  BY <1>5, <1>6, <1>7, LeastIs
<1>9. QED BY <1>8 DEF stops, Stops

\* What decode_json_byte_array takes from the text after the bracket.
Decoded(rest, n) ==
  LET IsNumber(t) == t[1] = "number"
      stops == { j \in 1..Len(rest) : ~ IsNumber(rest[j]) /\ rest[j] # Comma }
      read == IF stops = {} THEN rest ELSE SubSeq(rest, 1, Least(stops) - 1)
      numbers == { j \in 1..Len(read) : IsNumber(read[j]) }
      bytes == [ k \in 1..Cardinality(numbers) |-> Number(read[Nth(numbers, k)][2] % 256) ]
      zeros == [ j \in 1..n |-> Number(0) ]
      after == IF stops # {} THEN IF rest[Least(stops)] = CloseBracket THEN <<>> ELSE zeros
               ELSE IF rest # <<>> /\ rest[Len(rest)] = Comma THEN <<Number(0)>> ELSE <<>>
  IN bytes \o after

HasArrayLength(B, bytes) == Len(B) = IF Len(bytes) = 0 THEN 0 ELSE 2 * Len(bytes) - 1

LEMMA DecodedNumbers ==
  ASSUME NEW S, NEW rest \in Seq(S), NEW B \in Seq(S), NEW bytes \in Seq(0..255), NEW n \in Nat,
         Numbers(bytes) \in Seq(S), B = ArrayOf(bytes),
         HasArrayLength(B, bytes),
         Stands(rest, 0, B), Len(B) + 1 <= Len(rest), rest[Len(B) + 1] = CloseBracket
  PROVE  Decoded(rest, n) = Numbers(bytes)
<1> DEFINE m == Len(bytes)
           IsNumber(t) == t[1] = "number"
           stops == Stops(rest)
           read == IF stops = {} THEN rest ELSE SubSeq(rest, 1, Least(stops) - 1)
           numbers == { j \in 1..Len(read) : IsNumber(read[j]) }
           there == [ k \in 1..Cardinality(numbers) |-> Number(read[Nth(numbers, k)][2] % 256) ]
           zeros == [ j \in 1..n |-> Number(0) ]
           after == IF stops # {} THEN IF rest[Least(stops)] = CloseBracket THEN <<>> ELSE zeros
                    ELSE IF rest # <<>> /\ rest[Len(rest)] = Comma THEN <<Number(0)>> ELSE <<>>
<1>d. Decoded(rest, n) = there \o after
  BY Zenon DEF Decoded, Stops
<1>1. Len(B) \in Nat /\ m \in Nat /\ Len(rest) \in Nat
  BY LenProperties
<1>2. /\ { j \in 1..Len(B) : B[j][1] = "number" } = Odds(m)
      /\ \A j \in 1..Len(B) : B[j][1] = "number" \/ B[j] = Comma
      /\ \A k \in 1..m : B[Nth(Odds(m), k)][2] % 256 = bytes[k]
  BY <1>1, ArrayNumbers DEF HasArrayLength
<1>3. stops # {} /\ Least(stops) = Len(B) + 1
  BY <1>2, StopsAtBracket
<1>r. read = IF stops = {} THEN rest ELSE SubSeq(rest, 1, Least(stops) - 1)
  OBVIOUS
<1>n. numbers = { j \in 1..Len(read) : IsNumber(read[j]) }
  OBVIOUS
<1>t. there = [ k \in 1..Cardinality(numbers) |-> Number(read[Nth(numbers, k)][2] % 256) ]
  OBVIOUS
<1>a. after = IF stops # {} THEN IF rest[Least(stops)] = CloseBracket THEN <<>> ELSE zeros
              ELSE IF rest # <<>> /\ rest[Len(rest)] = Comma THEN <<Number(0)>> ELSE <<>>
  OBVIOUS
<1>m. m = Len(bytes)
  OBVIOUS
<1> HIDE DEF stops, read, numbers, there, after, zeros, m
<1>4. read = B
  <2>1. SubSeq(rest, 0 + 1, 0 + Len(B)) = B
    BY SubSeqStands
  <2>2. 0 + 1 = 1 /\ 0 + Len(B) = Least(stops) - 1
    BY <1>1, <1>3
  <2>3. QED BY <1>3, <1>r, <2>1, <2>2
<1>5. numbers = Odds(m)
  BY <1>2, <1>4, <1>n
<1>6. there = Numbers(bytes)
  <2>1. Cardinality(numbers) = m
    BY <1>1, <1>5, OddsCount
  <2>2. \A k \in 1..m : Number(read[Nth(numbers, k)][2] % 256) = Number(bytes[k])
    BY <1>2, <1>4, <1>5
  <2>3. there = [ k \in 1..m |-> Number(bytes[k]) ]
    BY <1>t, <2>1, <2>2
  <2>4. QED BY <2>3, <1>m DEF Numbers
<1>7. after = <<>>
  BY <1>3, <1>a
<1>8. Numbers(bytes) \o <<>> = Numbers(bytes)
  BY ConcatEmptySeq
<1>9. QED BY <1>d, <1>6, <1>7, <1>8

\* An array of bytes is read as it was written.
ArrayStands(json, A, k, B) ==
  /\ Stands(json, 0, A) /\ Lacks(A, Key(k)) /\ Stands(json, Len(A), <<Key(k), OpenBracket>>)
  /\ Stands(json, Len(A) + 2, B) /\ Stands(json, Len(A) + 2 + Len(B), <<CloseBracket, Comma>>)

LEMMA ArrayIsRead ==
  ASSUME NEW S, NEW json \in Seq(S), NEW A \in Seq(S), NEW bytes \in Seq(0..255), NEW k, NEW n \in Nat,
         NEW B \in Seq(S), B = ArrayOf(bytes), Numbers(bytes) \in Seq(S), HasArrayLength(B, bytes),
         ArrayStands(json, A, k, B)
  PROVE  decode_json_byte_array(json, k, n) = UpTo(Numbers(bytes), n - 1)
<1> DEFINE a == Len(A)
           b == Len(B)
           found == Found(json, k, OpenBracket)
           rest == SubSeq(json, Least(found) + 2, Len(json))
<1>0. /\ Stands(json, 0, A) /\ Lacks(A, Key(k)) /\ Stands(json, a, <<Key(k), OpenBracket>>)
      /\ Stands(json, a + 2, B) /\ Stands(json, a + 2 + b, <<CloseBracket, Comma>>)
  BY DEF ArrayStands
<1>d. decode_json_byte_array(json, k, n) = IF found = {} THEN Nothing ELSE UpTo(Decoded(rest, n), n - 1)
  BY Zenon DEF decode_json_byte_array, Decoded
<1>1. a \in Nat /\ b \in Nat /\ Len(json) \in Nat
  BY LenProperties
<1>2. found # {} /\ Least(found) = a + 1
  BY <1>0, FoundFirst
<1>3. a + 2 + b + 2 <= Len(json) /\ json[a + 2 + b + 1] = CloseBracket
  <2>1. a + 2 + b \in Nat /\ (a + 2 + b) + 2 = a + 2 + b + 2
    BY <1>1, Between
  <2>2. QED BY <1>0, <2>1, PairStands
<1>4. \A i \in 1..b : json[(a + 2) + i] = B[i]
  BY <1>0 DEF Stands
<1>r. rest = SubSeq(json, Least(found) + 2, Len(json))
  OBVIOUS
<1>w. /\ b + 1 \in 1..(Len(json) - (a + 2)) /\ (a + 2) + (b + 1) = a + 2 + b + 1
      /\ 0 + b <= Len(json) - (a + 2) /\ b + 1 <= Len(json) - (a + 2)
      /\ \A i \in 1..b : i \in 1..(Len(json) - (a + 2)) /\ 0 + i = i
  <2> DEFINE l == Len(json)
  <2>1. a \in Nat /\ b \in Nat /\ l \in Nat /\ a + 2 + b + 2 <= l
    BY <1>1, <1>3
  <2> HIDE DEF a, b, l
  <2>2. QED BY <2>1, Within DEF l
<1> HIDE DEF found, rest
<1>5. /\ rest \in Seq(S) /\ Len(rest) = Len(json) - (a + 2)
      /\ \A i \in 1..(Len(json) - (a + 2)) : rest[i] = json[(a + 2) + i]
  <2>1. a + 2 \in Nat /\ a + 2 < Len(json) /\ Least(found) + 2 = (a + 2) + 1
    BY <1>1, <1>2, <1>3, Within
  <2>2. rest = SubSeq(json, (a + 2) + 1, Len(json))
    BY <1>r, <2>1
  <2> DEFINE c == a + 2
  <2>3. c \in Nat /\ c < Len(json)
    BY <2>1
  <2> HIDE DEF c
  <2>4. /\ SubSeq(json, c + 1, Len(json)) \in Seq(S)
        /\ Len(SubSeq(json, c + 1, Len(json))) = Len(json) - c
        /\ \A i \in 1..(Len(json) - c) : SubSeq(json, c + 1, Len(json))[i] = json[c + i]
    BY <2>3, RestOf
  <2>5. QED BY <2>2, <2>4 DEF c
<1>6. Stands(rest, 0, B)
  <2>1. 0 + b <= Len(rest)
    BY <1>5, <1>w
  <2>2. \A i \in 1..b : rest[0 + i] = B[i]
    <3> TAKE i \in 1..b
    <3>1. i \in 1..(Len(json) - (a + 2)) /\ 0 + i = i
      BY <1>w
    <3>2. rest[i] = json[(a + 2) + i] /\ json[(a + 2) + i] = B[i]
      BY <1>4, <1>5, <3>1
    <3>3. QED BY <3>1, <3>2
  <2>3. QED BY <2>1, <2>2 DEF Stands
<1>7. b + 1 <= Len(rest) /\ rest[b + 1] = CloseBracket
  <2>1. rest[b + 1] = json[(a + 2) + (b + 1)]
    BY <1>5, <1>w
  <2>2. rest[b + 1] = CloseBracket
    BY <1>3, <1>w, <2>1
  <2>3. QED BY <1>5, <1>w, <2>2
<1>8. Decoded(rest, n) = Numbers(bytes)
  BY <1>5, <1>6, <1>7, DecodedNumbers
<1>9. QED BY <1>d, <1>2, <1>8

----------------------------------------------------------------------------
(* An event, written and read. *)

Names == {"eventType", "requestId", "messageHash", "error", "connectionStatus", "message", "payload", "contentTopic"}
Marked == {Quote, Comma, OpenBrace, CloseBrace, OpenBracket, CloseBracket}
Token == ({"key"} \X Names) \cup ({"char", "mark"} \X STRING) \cup ({"number"} \X (0..255)) \cup Marked

LEMMA TokenFacts ==
  /\ \A k \in Names : Key(k) \in Token
  /\ \A t \in STRING : Char(t) \in Token
  /\ \A x \in 0..255 : Number(x) \in Token
  /\ Quote \in Token /\ Comma \in Token /\ OpenBrace \in Token /\ CloseBrace \in Token
  /\ OpenBracket \in Token /\ CloseBracket \in Token
<1>1. \A k \in Names : Key(k) \in Token
  BY DEF Token, Key
<1>2. \A t \in STRING : Char(t) \in Token
  BY DEF Token, Char
<1>3. \A x \in 0..255 : Number(x) \in Token
  BY DEF Token, Number
<1>4. /\ Quote \in Token /\ Comma \in Token /\ OpenBrace \in Token /\ CloseBrace \in Token
      /\ OpenBracket \in Token /\ CloseBracket \in Token
  BY DEF Token, Marked
<1>5. QED BY <1>1, <1>2, <1>3, <1>4

\* Keys and marks are told apart.
LEMMA Marks ==
  /\ \A k : /\ Quote # Key(k) /\ Comma # Key(k) /\ OpenBrace # Key(k) /\ CloseBrace # Key(k)
            /\ OpenBracket # Key(k) /\ CloseBracket # Key(k)
            /\ OpenBrace # Key(k) /\ CloseBrace # Key(k)
  /\ \A k, x : Number(x) # Key(k) /\ Char(x) # Key(k)
  /\ \A k, l : Key(k) = Key(l) => k = l
  /\ \A x \in {OpenBrace, CloseBrace} : /\ x # Quote /\ x # Comma /\ x # OpenBracket /\ x # CloseBracket
                                       /\ \A y : Number(y) # x
  /\ OpenBrace # CloseBrace
  BY DEF Key, Char, Number, Quote, Comma, OpenBrace, CloseBrace, OpenBracket, CloseBracket, Mark

LEMMA TextFacts ==
  ASSUME NEW v \in Text
  PROVE  /\ v \in Seq(Token) /\ \A k : Lacks(v, Key(k))
         /\ (\A i \in 1..Len(v) : v[i][1] # "mark") =>
               Lacks(v, Quote) /\ Lacks(v, OpenBrace) /\ Lacks(v, CloseBrace)
<1>1. v \in Seq({"char", "mark"} \X STRING)
  BY DEF Text
<1>2. Len(v) \in Nat /\ \A i \in 1..Len(v) : v[i] \in {"char", "mark"} \X STRING
  BY <1>1, LenProperties, ElementOfSeq
<1>3. \A i \in 1..Len(v) : v[i] \in Token
  BY <1>2 DEF Token
<1>4. v \in [1..Len(v) -> Token]
  BY <1>1, <1>3, LenProperties
<1>5. v \in Seq(Token)
  BY <1>2, <1>4, FunctionIsSeq
<1>6. \A k : \A i \in 1..Len(v) : v[i] # Key(k)
  BY <1>2 DEF Key
<1>7. Quote[1] = "mark" /\ OpenBrace[1] = "mark" /\ CloseBrace[1] = "mark"
  BY DEF Quote, OpenBrace, CloseBrace, Mark
<1>8. QED BY <1>5, <1>6, <1>7 DEF Lacks

LEMMA SingleFacts ==
  ASSUME NEW x \in Token
  PROVE  /\ <<x>> \in Seq(Token) /\ Len(<<x>>) = 1 /\ <<x>>[1] = x
         /\ \A y : x # y => Lacks(<<x>>, y)
  BY DEF Lacks

LEMMA PairFacts ==
  ASSUME NEW x \in Token, NEW y \in Token
  PROVE  /\ <<x, y>> \in Seq(Token) /\ Len(<<x, y>>) = 2 /\ <<x, y>>[1] = x /\ <<x, y>>[2] = y
         /\ \A z : x # z /\ y # z => Lacks(<<x, y>>, z)
  BY DEF Lacks

\* A written field lacks every other key, and every brace that its string lacks.
LEMMA StringFieldFacts ==
  ASSUME NEW k \in Names, NEW v \in Seq(Token)
  PROVE  /\ StringField(k, v) \in Seq(Token)
         /\ \A l \in Names : l # k /\ Lacks(v, Key(l)) => Lacks(StringField(k, v), Key(l))
         /\ \A x \in {OpenBrace, CloseBrace} : Lacks(v, x) => Lacks(StringField(k, v), x)
<1> DEFINE open == <<Key(k), Quote>>
           close == <<Quote, Comma>>
<1>1. /\ open \in Seq(Token) /\ close \in Seq(Token)
      /\ \A z : Key(k) # z /\ Quote # z => Lacks(open, z)
      /\ \A z : Quote # z /\ Comma # z => Lacks(close, z)
  BY TokenFacts, PairFacts
<1>2. StringField(k, v) = (open \o v) \o close
  BY DEF StringField
<1> HIDE DEF open, close
<1>3. open \o v \in Seq(Token) /\ (open \o v) \o close \in Seq(Token)
  BY <1>1, ConcatProperties
<1>4. ASSUME NEW x, Key(k) # x, Quote # x, Comma # x, Lacks(v, x) PROVE Lacks((open \o v) \o close, x)
  <2>1. Lacks(open, x) /\ Lacks(close, x)
    BY <1>1, <1>4
  <2>2. Lacks(open \o v, x)
    BY <1>1, <1>4, <2>1, LacksConcat
  <2>3. QED BY <1>1, <1>3, <2>1, <2>2, LacksConcat
<1>5. ASSUME NEW l \in Names, l # k, Lacks(v, Key(l)) PROVE Lacks(StringField(k, v), Key(l))
  <2>1. Key(k) # Key(l) /\ Quote # Key(l) /\ Comma # Key(l)
    BY <1>5, Marks
  <2>2. QED BY <1>2, <1>4, <1>5, <2>1
<1>6. ASSUME NEW x \in {OpenBrace, CloseBrace}, Lacks(v, x) PROVE Lacks(StringField(k, v), x)
  <2>1. Key(k) # x /\ Quote # x /\ Comma # x
    BY Marks
  <2>2. QED BY <1>2, <1>4, <1>6, <2>1
<1>7. QED BY <1>2, <1>3, <1>5, <1>6

\* The fields of a type: at most three, all different, and none is called like another part of the text.
Different(s) ==
  /\ s \in Seq(Names) /\ Len(s) \in 0..3
  /\ \A i \in 1..Len(s) : s[i] \in Names /\ s[i] # "eventType" /\ s[i] # "message"
  /\ \A i, j \in 1..Len(s) : s[i] = s[j] => i = j

LEMMA FieldsFacts ==
  ASSUME NEW t
  PROVE  Different(Fields(t))
<1>1. \/ Fields(t) = <<"requestId", "messageHash">>
      \/ Fields(t) = <<"requestId", "messageHash", "error">>
      \/ Fields(t) = <<"connectionStatus">>
      \/ Fields(t) = <<"messageHash">>
      \/ Fields(t) = <<>>
  BY DEF Fields
<1>2. Different(<<"requestId", "messageHash">>)
  BY DEF Different, Names
<1>3. Different(<<"requestId", "messageHash", "error">>)
  BY DEF Different, Names
<1>4. Different(<<"connectionStatus">>) /\ Different(<<"messageHash">>)
  BY DEF Different, Names
<1>5. Different(<<>>)
  BY DEF Different
<1>6. QED BY <1>1, <1>2, <1>3, <1>4, <1>5

LEMMA PrefixStands ==
  ASSUME NEW S, NEW json \in Seq(S), NEW s \in Seq(S), NEW t \in Seq(S), Stands(json, 0, s \o t)
  PROVE  Stands(json, 0, s) /\ Stands(json, Len(s), t)
<1>1. Stands(json, 0, s) /\ Stands(json, 0 + Len(s), t)
  BY StandsSplit
<1>2. Len(s) \in Nat /\ 0 + Len(s) = Len(s)
  BY LenProperties
<1>3. QED BY <1>1, <1>2

\* The parts of an event's text.
Opening(e) == <<OpenBrace>> \o StringField("eventType", <<Char(e.type)>>)
Piece(e, i) == IF i <= Len(Fields(e.type)) THEN StringField(Fields(e.type)[i], e.fields[Fields(e.type)[i]]) ELSE <<>>
Object(e) ==
  <<OpenBrace, Key("payload"), OpenBracket>> \o ArrayOf(e.payload) \o <<CloseBracket, Comma>>
    \o StringField("contentTopic", e.contentTopic) \o <<CloseBrace>>
Message(e) == IF e.type = "message_received" THEN <<Key("message")>> \o Object(e) ELSE <<>>


\* What comes before the second and the third field, and before the message.
Two(e) == Opening(e) \o Piece(e, 1)
Three(e) == Two(e) \o Piece(e, 2)
Four(e) == Three(e) \o Piece(e, 3)

LEMMA TextParts ==
  ASSUME NEW e
  PROVE  toFlatJson(e) = (Four(e) \o Message(e)) \o <<CloseBrace>>
  BY Zenon DEF toFlatJson, Opening, Piece, Object, Message, ArrayOf, Two, Three, Four

LEMMA OpeningFacts ==
  ASSUME NEW e, IsEvent(e)
  PROVE  /\ <<Char(e.type)>> \in Seq(Token) /\ Lacks(<<Char(e.type)>>, Quote)
         /\ StringField("eventType", <<Char(e.type)>>) \in Seq(Token)
         /\ Opening(e) \in Seq(Token)
         /\ \A k \in Names : k # "eventType" => Lacks(Opening(e), Key(k))
<1> DEFINE t == <<Char(e.type)>>
<1>1. /\ t \in Seq(Token) /\ \A y : Char(e.type) # y => Lacks(t, y)
      /\ <<OpenBrace>> \in Seq(Token) /\ \A y : OpenBrace # y => Lacks(<<OpenBrace>>, y)
  <2>1. Char(e.type) \in Token /\ OpenBrace \in Token
    BY TokenFacts DEF IsEvent
  <2>2. QED BY <2>1, SingleFacts
<1>2. Char(e.type) # Quote /\ \A k : Char(e.type) # Key(k) /\ OpenBrace # Key(k)
  BY Marks DEF Char, Quote, Mark
<1>3. Lacks(t, Quote) /\ \A k : Lacks(t, Key(k)) /\ Lacks(<<OpenBrace>>, Key(k))
  BY <1>1, <1>2
<1>4. "eventType" \in Names
  BY DEF Names
<1>o. Opening(e) = <<OpenBrace>> \o StringField("eventType", t)
  BY DEF Opening
<1> HIDE DEF t
<1>5. /\ StringField("eventType", t) \in Seq(Token)
      /\ \A k \in Names : k # "eventType" => Lacks(StringField("eventType", t), Key(k))
  BY <1>1, <1>3, <1>4, StringFieldFacts
<1>6. Opening(e) \in Seq(Token)
  BY <1>1, <1>5, <1>o, ConcatProperties
<1>7. \A k \in Names : k # "eventType" => Lacks(Opening(e), Key(k))
  BY <1>1, <1>3, <1>5, <1>o, LacksConcat
<1>8. QED BY <1>1, <1>3, <1>5, <1>6, <1>7 DEF t

LEMMA PieceFacts ==
  ASSUME NEW e, IsEvent(e), NEW i \in 1..3
  PROVE  /\ Piece(e, i) \in Seq(Token) /\ Lacks(Piece(e, i), Key("message"))
         /\ \A j \in 1..Len(Fields(e.type)) : j # i => Lacks(Piece(e, i), Key(Fields(e.type)[j]))
<1> DEFINE names == Fields(e.type)
<1>1. Different(names)
  BY FieldsFacts
<1>2. "message" \in Names
  BY DEF Names
<1>3. CASE i <= Len(names)
  <2>1. i \in 1..Len(names)
    BY <1>1, <1>3 DEF Different
  <2>2. names[i] \in Names /\ names[i] # "message" /\ \A j \in 1..Len(names) : names[j] \in Names /\ (j # i => names[j] # names[i])
    BY <1>1, <2>1 DEF Different
  <2> DEFINE v == e.fields[names[i]]
  <2>3. v \in Text
    BY <2>1 DEF IsEvent
  <2>4. v \in Seq(Token) /\ \A k : Lacks(v, Key(k))
    BY <2>3, TextFacts
  <2>5. Piece(e, i) = StringField(names[i], v)
    BY <1>3 DEF Piece
  <2> HIDE DEF v, names
  <2>6. /\ StringField(names[i], v) \in Seq(Token)
        /\ \A l \in Names : l # names[i] => Lacks(StringField(names[i], v), Key(l))
    BY <2>2, <2>4, StringFieldFacts
  <2>7. QED BY <1>2, <2>2, <2>5, <2>6 DEF names
<1>4. CASE ~ i <= Len(names)
  <2>1. Piece(e, i) = <<>>
    BY <1>4 DEF Piece
  <2>2. <<>> \in Seq(Token) /\ Len(<<>>) = 0
    OBVIOUS
  <2>3. \A k : Lacks(<<>>, Key(k))
    BY <2>2 DEF Lacks
  <2>4. QED BY <2>1, <2>2, <2>3
<1>5. QED BY <1>3, <1>4

LEMMA ObjectFacts ==
  ASSUME NEW e, IsEvent(e)
  PROVE  /\ ArrayOf(e.payload) \in Seq(Token) /\ Numbers(e.payload) \in Seq(Token)
         /\ HasArrayLength(ArrayOf(e.payload), e.payload)
         /\ e.payload \in Seq(0..255) /\ e.contentTopic \in Text /\ e.contentTopic \in Seq(Token)
         /\ StringField("contentTopic", e.contentTopic) \in Seq(Token)
         /\ <<OpenBrace, Key("payload"), OpenBracket>> \in Seq(Token)
         /\ <<CloseBracket, Comma>> \in Seq(Token) /\ <<CloseBrace>> \in Seq(Token)
         /\ Object(e) \in Seq(Token) /\ Message(e) \in Seq(Token)
         /\ \A k : Lacks(ArrayOf(e.payload), Key(k))
         /\ \A x \in {OpenBrace, CloseBrace} : Lacks(ArrayOf(e.payload), x)
<1>1. e.payload \in Seq(0..255) /\ e.contentTopic \in Text
  BY DEF IsEvent
<1>2. e.contentTopic \in Seq(Token)
  BY <1>1, TextFacts
<1>3. Comma \in Token /\ \A x \in 0..255 : Number(x) \in Token
  BY TokenFacts
<1>4. /\ ArrayOf(e.payload) \in Seq(Token) /\ Numbers(e.payload) \in Seq(Token)
      /\ HasArrayLength(ArrayOf(e.payload), e.payload)
  BY <1>1, <1>3, ArrayFacts DEF HasArrayLength
<1>5. "contentTopic" \in Names /\ "payload" \in Names /\ "message" \in Names
  BY DEF Names
<1>6. StringField("contentTopic", e.contentTopic) \in Seq(Token)
  BY <1>2, <1>5, StringFieldFacts
<1>7. /\ <<OpenBrace, Key("payload"), OpenBracket>> \in Seq(Token) /\ <<CloseBracket, Comma>> \in Seq(Token)
      /\ <<CloseBrace>> \in Seq(Token) /\ <<Key("message")>> \in Seq(Token)
  BY <1>5, TokenFacts
<1>8. Object(e) \in Seq(Token)
  BY <1>4, <1>6, <1>7, ConcatProperties DEF Object
<1>9. Message(e) \in Seq(Token)
  BY <1>7, <1>8, ConcatProperties DEF Message
<1>10. \A i \in 1..Len(ArrayOf(e.payload)) : ArrayOf(e.payload)[i] = Comma \/ \E x : ArrayOf(e.payload)[i] = Number(x)
  <2> DEFINE m == Len(e.payload)
             b == Len(ArrayOf(e.payload))
  <2>1. m \in Nat /\ b = IF m = 0 THEN 0 ELSE 2 * m - 1
    BY <1>1, <1>4, LenProperties DEF HasArrayLength
  <2>2. 1..b = 1..(2 * m - 1)
    BY <2>1, ArrayLength
  <2>3. QED BY <2>2 DEF ArrayOf
<1>11. \A x : (Comma # x /\ \A y : Number(y) # x) => Lacks(ArrayOf(e.payload), x)
  BY <1>10 DEF Lacks
<1>12. QED BY <1>1, <1>2, <1>4, <1>6, <1>7, <1>8, <1>9, <1>11, Marks

\* Where the parts of an event's text stand, and what its keys are preceded by.
LEMMA PartsStand ==
  ASSUME NEW e, IsEvent(e)
  PROVE  /\ toFlatJson(e) \in Seq(Token) /\ Opening(e) \in Seq(Token)
         /\ Two(e) \in Seq(Token) /\ Three(e) \in Seq(Token) /\ Four(e) \in Seq(Token)
         /\ Stands(toFlatJson(e), 0, Opening(e)) /\ Stands(toFlatJson(e), 0, Two(e))
         /\ Stands(toFlatJson(e), 0, Three(e)) /\ Stands(toFlatJson(e), 0, Four(e))
         /\ Stands(toFlatJson(e), Len(Opening(e)), Piece(e, 1)) /\ Stands(toFlatJson(e), Len(Two(e)), Piece(e, 2))
         /\ Stands(toFlatJson(e), Len(Three(e)), Piece(e, 3)) /\ Stands(toFlatJson(e), Len(Four(e)), Message(e))
<1> DEFINE json == toFlatJson(e)
           p1 == Opening(e)
           p2 == Two(e)
           p3 == Three(e)
           p4 == Four(e)
           p5 == Four(e) \o Message(e)
           end == <<CloseBrace>>
<1>1. /\ p1 \in Seq(Token) /\ Piece(e, 1) \in Seq(Token) /\ Piece(e, 2) \in Seq(Token) /\ Piece(e, 3) \in Seq(Token)
      /\ Message(e) \in Seq(Token) /\ end \in Seq(Token)
  <2>1. 1 \in 1..3 /\ 2 \in 1..3 /\ 3 \in 1..3
    OBVIOUS
  <2>2. Piece(e, 1) \in Seq(Token) /\ Piece(e, 2) \in Seq(Token) /\ Piece(e, 3) \in Seq(Token)
    BY <2>1, PieceFacts
  <2>3. p1 \in Seq(Token)
    BY OpeningFacts
  <2>4. Message(e) \in Seq(Token) /\ end \in Seq(Token)
    BY ObjectFacts
  <2>5. QED BY <2>2, <2>3, <2>4
<1>2. p2 \in Seq(Token)
  BY <1>1, ConcatProperties DEF Two
<1>3. p3 \in Seq(Token)
  BY <1>1, <1>2, ConcatProperties DEF Three
<1>4. p4 \in Seq(Token)
  BY <1>1, <1>3, ConcatProperties DEF Four
<1>5. p5 \in Seq(Token)
  BY <1>1, <1>4, ConcatProperties
<1>6. json = p5 \o end
  BY TextParts
<1>7. json \in Seq(Token)
  BY <1>1, <1>5, <1>6, ConcatProperties
<1>8. Stands(json, 0, p5 \o end)
  BY <1>6, <1>7, StandsAlone
<1>9. Stands(json, 0, p5)
  BY <1>1, <1>5, <1>7, <1>8, PrefixStands
<1>10. Stands(json, 0, p4) /\ Stands(json, Len(p4), Message(e))
  BY <1>1, <1>4, <1>7, <1>9, PrefixStands
<1>11. Stands(json, 0, p3) /\ Stands(json, Len(p3), Piece(e, 3))
  BY <1>1, <1>3, <1>7, <1>10, PrefixStands DEF Four
<1>12. Stands(json, 0, p2) /\ Stands(json, Len(p2), Piece(e, 2))
  BY <1>1, <1>2, <1>7, <1>11, PrefixStands DEF Three
<1>13. Stands(json, 0, p1) /\ Stands(json, Len(p1), Piece(e, 1))
  BY <1>1, <1>7, <1>12, PrefixStands DEF Two
<1>14. QED BY <1>1, <1>2, <1>3, <1>4, <1>7, <1>10, <1>11, <1>12, <1>13

LEMMA TypeIsRead ==
  ASSUME NEW e, IsEvent(e)
  PROVE  extract_json_field(toFlatJson(e), "eventType", StringBuffer) = <<Char(e.type)>>
<1> DEFINE json == toFlatJson(e)
           t == <<Char(e.type)>>
           f == StringField("eventType", t)
           o == <<OpenBrace>>
<1>1. json \in Seq(Token) /\ Stands(json, 0, Opening(e)) /\ Opening(e) = o \o f
  BY PartsStand DEF Opening
<1>2. /\ o \in Seq(Token) /\ Lacks(o, Key("eventType"))
      /\ Key("eventType") \in Token /\ Quote \in Token /\ Comma \in Token
  <2>1. OpenBrace \in Token /\ OpenBrace # Key("eventType")
    BY TokenFacts, Marks
  <2>2. Key("eventType") \in Token /\ Quote \in Token /\ Comma \in Token
    BY TokenFacts DEF Names
  <2>3. QED BY <2>1, <2>2, SingleFacts
<1>3. f \in Seq(Token) /\ t \in Seq(Token) /\ Lacks(t, Quote)
  BY OpeningFacts
<1>4. Stands(json, 0, o) /\ Stands(json, Len(o), f)
  BY <1>1, <1>2, <1>3, PrefixStands
<1>f. f = StringField("eventType", t)
  OBVIOUS
<1>t. t = <<Char(e.type)>>
  OBVIOUS
<1>j. json = toFlatJson(e)
  OBVIOUS
<1> HIDE DEF json, t, o, f
<1>5. StringBuffer \in Nat /\ StringBuffer > 1
  BY BuffersAreGiven
<1>6. extract_json_field(json, "eventType", StringBuffer) = UpTo(t, StringBuffer - 1)
  BY <1>1, <1>2, <1>3, <1>4, <1>5, <1>f, FieldIsRead
<1>7. Len(t) = 1 /\ ~ Len(t) > StringBuffer - 1
  BY <1>5, <1>t
<1>8. UpTo(t, StringBuffer - 1) = t
  BY <1>7 DEF UpTo
<1>9. QED BY <1>6, <1>8, <1>t, <1>j

LEMMA NameIsRead ==
  ASSUME NEW e, IsEvent(e), NEW i \in 1..Len(Fields(e.type)), NEW k, k = Fields(e.type)[i], Lacks(e.fields[k], Quote)
  PROVE  extract_json_field(toFlatJson(e), k, StringBuffer) = UpTo(e.fields[k], StringBuffer - 1)
<1> DEFINE json == toFlatJson(e)
           v == e.fields[k]
           n == Len(Fields(e.type))
           p1 == Opening(e)
           p2 == Two(e)
           p3 == Three(e)
<1>1. /\ json \in Seq(Token) /\ p1 \in Seq(Token) /\ p2 \in Seq(Token) /\ p3 \in Seq(Token)
      /\ Stands(json, 0, p1) /\ Stands(json, 0, p2) /\ Stands(json, 0, p3)
      /\ Stands(json, Len(p1), Piece(e, 1)) /\ Stands(json, Len(p2), Piece(e, 2))
      /\ Stands(json, Len(p3), Piece(e, 3))
  BY PartsStand
<1>2. n \in 0..3 /\ k \in Names /\ k # "eventType"
  BY FieldsFacts DEF Different
<1>3. i \in 1..3
  BY <1>2
<1>4. v \in Seq(Token)
  <2>1. v \in Text
    BY DEF IsEvent
  <2>2. QED BY <2>1, TextFacts
<1>5. Key(k) \in Token /\ Quote \in Token /\ Comma \in Token /\ StringBuffer \in Nat
  BY <1>2, TokenFacts, BuffersAreGiven
<1>6. Piece(e, i) = StringField(k, v)
  <2>1. i <= Len(Fields(e.type))
    BY <1>2
  <2>2. QED BY <2>1 DEF Piece
<1>7. /\ Piece(e, 1) \in Seq(Token) /\ Piece(e, 2) \in Seq(Token)
      /\ i # 1 => Lacks(Piece(e, 1), Key(k))
      /\ i # 2 => Lacks(Piece(e, 2), Key(k))
  <2>1. 1 \in 1..3 /\ 2 \in 1..3
    OBVIOUS
  <2>2. QED BY <2>1, PieceFacts
<1>8. Lacks(p1, Key(k))
  BY <1>2, OpeningFacts
<1>9. i # 1 => Lacks(p2, Key(k))
  BY <1>1, <1>7, <1>8, LacksConcat DEF Two
<1>10. i = 3 => Lacks(p3, Key(k))
  BY <1>1, <1>7, <1>9, LacksConcat DEF Three
<1>11. ASSUME NEW p \in Seq(Token), Stands(json, 0, p), Lacks(p, Key(k)), Stands(json, Len(p), Piece(e, i))
       PROVE  extract_json_field(json, k, StringBuffer) = UpTo(v, StringBuffer - 1)
  BY <1>1, <1>4, <1>5, <1>6, <1>11, FieldIsRead
<1> HIDE DEF json, v
<1>g. SUFFICES extract_json_field(json, k, StringBuffer) = UpTo(v, StringBuffer - 1)
  BY DEF json, v
<1>12. CASE i = 1
  BY <1>1, <1>8, <1>11, <1>12
<1>13. CASE i = 2
  BY <1>1, <1>9, <1>11, <1>13
<1>14. CASE i = 3
  BY <1>1, <1>10, <1>11, <1>14
<1>15. QED BY <1>3, <1>12, <1>13, <1>14

\* Nothing of s but its first token is the token t.
TailLacks(s, t) == Len(s) >= 1 /\ \A i \in 2..Len(s) : s[i] # t

LEMMA TailLacksConcat ==
  ASSUME NEW S, NEW s \in Seq(S), NEW t \in Seq(S), NEW x, TailLacks(s, x), Lacks(t, x)
  PROVE  TailLacks(s \o t, x) /\ (s \o t)[1] = s[1]
<1>1. /\ Len(s \o t) = Len(s) + Len(t)
      /\ \A i \in 1..(Len(s) + Len(t)) : (s \o t)[i] = IF i <= Len(s) THEN s[i] ELSE t[i - Len(s)]
  BY ConcatProperties
<1>2. Len(s) \in Nat /\ Len(t) \in Nat
  BY LenProperties
<1>3. ASSUME NEW i \in 2..(Len(s) + Len(t)) PROVE (s \o t)[i] # x
  <2>1. CASE i <= Len(s)
    BY <1>1, <1>2, <2>1 DEF TailLacks
  <2>2. CASE ~ i <= Len(s)
    <3>1. i - Len(s) \in 1..Len(t) /\ (s \o t)[i] = t[i - Len(s)]
      BY <1>1, <1>2, <2>2
    <3>2. QED BY <3>1 DEF Lacks
  <2>3. QED BY <2>1, <2>2
<1>4. (s \o t)[1] = s[1] /\ Len(s) + Len(t) >= 1
  BY <1>1, <1>2 DEF TailLacks
<1>5. QED BY <1>1, <1>3, <1>4 DEF TailLacks

\* The object of a message begins and ends with braces, and has no other if the topic has none.
LEMMA ObjectIsBraced ==
  ASSUME NEW e, IsEvent(e), Lacks(e.contentTopic, OpenBrace), Lacks(e.contentTopic, CloseBrace)
  PROVE  LET O == Object(e)
         IN /\ O \in Seq(Token) /\ Len(O) >= 2 /\ O[1] = OpenBrace /\ O[Len(O)] = CloseBrace
            /\ \A i \in 2..(Len(O) - 1) : O[i] # OpenBrace /\ O[i] # CloseBrace
<1> DEFINE a == <<OpenBrace, Key("payload"), OpenBracket>>
           b == ArrayOf(e.payload)
           c == <<CloseBracket, Comma>>
           d == StringField("contentTopic", e.contentTopic)
           end == <<CloseBrace>>
           ab == a \o b
           abc == ab \o c
           body == abc \o d
<1>1. a \in Seq(Token) /\ b \in Seq(Token) /\ c \in Seq(Token) /\ d \in Seq(Token) /\ end \in Seq(Token)
  BY ObjectFacts
<1>2. Object(e) = body \o end
  BY DEF Object
<1>3. \A x \in {OpenBrace, CloseBrace} : TailLacks(a, x) /\ a[1] = OpenBrace
  BY Marks DEF TailLacks
<1>4. \A x \in {OpenBrace, CloseBrace} : Lacks(b, x) /\ Lacks(c, x)
  <2>1. \A x \in {OpenBrace, CloseBrace} : CloseBracket # x /\ Comma # x
    BY Marks
  <2>2. CloseBracket \in Token /\ Comma \in Token
    BY TokenFacts
  <2>3. QED BY <2>1, <2>2, ObjectFacts, PairFacts
<1>5. \A x \in {OpenBrace, CloseBrace} : Lacks(d, x)
  <2>1. "contentTopic" \in Names /\ e.contentTopic \in Seq(Token)
    BY ObjectFacts DEF Names
  <2>2. QED BY <2>1, StringFieldFacts
<1>6. Len(end) = 1 /\ end[1] = CloseBrace
  OBVIOUS
<1>g. SUFFICES /\ body \o end \in Seq(Token) /\ Len(body \o end) >= 2
               /\ (body \o end)[1] = OpenBrace /\ (body \o end)[Len(body \o end)] = CloseBrace
               /\ \A i \in 2..(Len(body \o end) - 1) : (body \o end)[i] # OpenBrace /\ (body \o end)[i] # CloseBrace
  BY <1>2
<1>b. ab = a \o b /\ abc = ab \o c /\ body = abc \o d
  OBVIOUS
<1> HIDE DEF a, b, c, d, end, ab, abc, body
<1>7. ab \in Seq(Token) /\ abc \in Seq(Token)
  <2>1. ab \in Seq(Token)
    BY <1>1, <1>b, ConcatProperties
  <2>2. QED BY <1>1, <1>b, <2>1, ConcatProperties
<1>8. body \in Seq(Token) /\ body \o end \in Seq(Token)
  BY <1>1, <1>7, <1>b, ConcatProperties
<1>9. ASSUME NEW x \in {OpenBrace, CloseBrace}
      PROVE  TailLacks(body, x) /\ body[1] = OpenBrace
  <2>1. TailLacks(ab, x) /\ ab[1] = OpenBrace
    BY <1>1, <1>3, <1>4, <1>b, TailLacksConcat
  <2>2. TailLacks(abc, x) /\ abc[1] = OpenBrace
    BY <1>1, <1>4, <1>7, <1>b, <2>1, TailLacksConcat
  <2>3. QED BY <1>1, <1>5, <1>7, <1>b, <2>2, TailLacksConcat
<1>10. /\ Len(body \o end) = Len(body) + 1 /\ Len(body) \in Nat
       /\ \A i \in 1..(Len(body) + 1) : (body \o end)[i] = IF i <= Len(body) THEN body[i] ELSE end[i - Len(body)]
  <2>1. Len(body) \in Nat
    BY <1>8, LenProperties
  <2>2. /\ Len(body \o end) = Len(body) + Len(end)
        /\ \A i \in 1..(Len(body) + Len(end)) : (body \o end)[i] = IF i <= Len(body) THEN body[i] ELSE end[i - Len(body)]
    BY <1>1, <1>8, ConcatProperties
  <2>3. QED BY <1>6, <2>1, <2>2
<1>11. /\ Len(body) >= 1 /\ body[1] = OpenBrace
       /\ \A i \in 2..Len(body) : body[i] # OpenBrace /\ body[i] # CloseBrace
  BY <1>9 DEF TailLacks
<1>12. Len(body \o end) >= 2 /\ (body \o end)[1] = OpenBrace
  BY <1>10, <1>11
<1>13. (body \o end)[Len(body \o end)] = CloseBrace
  <2>1. Len(body) + 1 \in 1..(Len(body) + 1) /\ ~ Len(body) + 1 <= Len(body) /\ (Len(body) + 1) - Len(body) = 1
    BY <1>10
  <2>2. QED BY <2>1, <1>6, <1>10
<1>14. \A i \in 2..(Len(body \o end) - 1) : (body \o end)[i] # OpenBrace /\ (body \o end)[i] # CloseBrace
  <2> TAKE i \in 2..(Len(body \o end) - 1)
  <2>1. i \in 2..Len(body) /\ i \in 1..(Len(body) + 1) /\ i <= Len(body)
    BY <1>10
  <2>2. QED BY <2>1, <1>10, <1>11
<1>15. QED BY <1>8, <1>12, <1>13, <1>14

LEMMA MessageIsRead ==
  ASSUME NEW e, IsEvent(e), e.type = "message_received",
         Lacks(e.contentTopic, OpenBrace), Lacks(e.contentTopic, CloseBrace)
  PROVE  extract_json_object(toFlatJson(e), "message") = Object(e)
<1> DEFINE json == toFlatJson(e)
           O == Object(e)
<1>1. json \in Seq(Token) /\ Four(e) \in Seq(Token) /\ Stands(json, 0, Four(e)) /\ Stands(json, Len(Four(e)), <<Key("message")>> \o O)
  BY PartsStand DEF Message
<1>2. /\ O \in Seq(Token) /\ Len(O) >= 2 /\ O[1] = OpenBrace /\ O[Len(O)] = CloseBrace
      /\ \A i \in 2..(Len(O) - 1) : O[i] # OpenBrace /\ O[i] # CloseBrace
  BY ObjectIsBraced
<1>3. Key("message") \in Token
  BY TokenFacts DEF Names
<1>4. Lacks(Four(e), Key("message"))
  <2>1. Lacks(Opening(e), Key("message")) /\ Opening(e) \in Seq(Token)
    BY OpeningFacts DEF Names
  <2>2. 1 \in 1..3 /\ 2 \in 1..3 /\ 3 \in 1..3
    OBVIOUS
  <2>3. /\ Lacks(Piece(e, 1), Key("message")) /\ Piece(e, 1) \in Seq(Token)
        /\ Lacks(Piece(e, 2), Key("message")) /\ Piece(e, 2) \in Seq(Token)
        /\ Lacks(Piece(e, 3), Key("message")) /\ Piece(e, 3) \in Seq(Token)
    BY <2>2, PieceFacts
  <2>4. Lacks(Two(e), Key("message")) /\ Two(e) \in Seq(Token)
    BY <2>1, <2>3, LacksConcat, PartsStand DEF Two
  <2>5. Lacks(Three(e), Key("message")) /\ Three(e) \in Seq(Token)
    BY <2>3, <2>4, LacksConcat, PartsStand DEF Three
  <2>6. QED BY <2>3, <2>5, LacksConcat DEF Four
<1> HIDE DEF json, O
<1>5. extract_json_object(json, "message") = O
  BY <1>1, <1>2, <1>3, <1>4, ObjectIsRead
<1>6. QED BY <1>5 DEF json, O

LEMMA ObjectFieldsAreRead ==
  ASSUME NEW e, IsEvent(e), Lacks(e.contentTopic, Quote)
  PROVE  /\ extract_json_field(Object(e), "contentTopic", StringBuffer) = UpTo(e.contentTopic, StringBuffer - 1)
         /\ decode_json_byte_array(Object(e), "payload", PayloadBuffer) = UpTo(Numbers(e.payload), PayloadBuffer - 1)
<1> DEFINE O == Object(e)
           a == <<OpenBrace, Key("payload"), OpenBracket>>
           b == ArrayOf(e.payload)
           c == <<CloseBracket, Comma>>
           d == StringField("contentTopic", e.contentTopic)
           end == <<CloseBrace>>
           ab == a \o b
           abc == ab \o c
           abcd == abc \o d
<1>1. /\ O \in Seq(Token) /\ a \in Seq(Token) /\ b \in Seq(Token) /\ c \in Seq(Token) /\ d \in Seq(Token)
      /\ end \in Seq(Token) /\ e.contentTopic \in Seq(Token)
  BY ObjectFacts
<1>2. O = abcd \o end
  BY DEF Object
<1>3. Len(a) = 3 /\ a[1] = OpenBrace /\ a[2] = Key("payload") /\ a[3] = OpenBracket
  OBVIOUS
<1>5. Lacks(a, Key("contentTopic")) /\ Lacks(b, Key("contentTopic")) /\ Lacks(c, Key("contentTopic"))
  <2>1. /\ Key("payload") # Key("contentTopic") /\ OpenBrace # Key("contentTopic") /\ OpenBracket # Key("contentTopic")
        /\ CloseBracket # Key("contentTopic") /\ Comma # Key("contentTopic")
    BY Marks
  <2>2. CloseBracket \in Token /\ Comma \in Token
    BY TokenFacts
  <2>3. Lacks(c, Key("contentTopic"))
    BY <2>1, <2>2, PairFacts
  <2>4. Lacks(a, Key("contentTopic"))
    BY <2>1 DEF Lacks
  <2>5. QED BY <2>3, <2>4, ObjectFacts
<1>c. c = <<CloseBracket, Comma>> /\ d = StringField("contentTopic", e.contentTopic) /\ b = ArrayOf(e.payload)
  OBVIOUS
<1>o. O = Object(e)
  OBVIOUS
<1>s. ab = a \o b /\ abc = ab \o c /\ abcd = abc \o d
  OBVIOUS
<1> HIDE DEF O, a, b, c, d, end, ab, abc, abcd
<1>6. ab \in Seq(Token)
  BY <1>1, <1>s, ConcatProperties
<1>7. abc \in Seq(Token)
  BY <1>1, <1>6, <1>s, ConcatProperties
<1>8. abcd \in Seq(Token)
  BY <1>1, <1>7, <1>s, ConcatProperties
<1>9. Stands(O, 0, abcd \o end)
  BY <1>1, <1>2, StandsAlone
<1>10. Stands(O, 0, abc \o d)
  BY <1>1, <1>8, <1>9, <1>s, PrefixStands
<1>11. Stands(O, 0, abc) /\ Stands(O, Len(abc), d)
  BY <1>1, <1>7, <1>10, PrefixStands
<1>12. Stands(O, 0, ab) /\ Stands(O, Len(ab), c)
  BY <1>1, <1>6, <1>11, <1>s, PrefixStands
<1>13. Stands(O, 0, a) /\ Stands(O, Len(a), b)
  BY <1>1, <1>12, <1>s, PrefixStands
<1>14. Lacks(abc, Key("contentTopic"))
  <2>1. Lacks(ab, Key("contentTopic"))
    BY <1>1, <1>5, <1>s, LacksConcat
  <2>2. QED BY <1>1, <1>5, <1>6, <1>s, <2>1, LacksConcat
<1>15. extract_json_field(O, "contentTopic", StringBuffer) = UpTo(e.contentTopic, StringBuffer - 1)
  <2>1. Key("contentTopic") \in Token /\ Quote \in Token /\ Comma \in Token
    BY TokenFacts DEF Names
  <2>2. StringBuffer \in Nat
    BY BuffersAreGiven
  <2>3. Stands(O, Len(abc), StringField("contentTopic", e.contentTopic))
    BY <1>11, <1>c
  <2>4. QED BY <1>1, <1>7, <1>11, <1>14, <2>1, <2>2, <2>3, FieldIsRead
<1>16. decode_json_byte_array(O, "payload", PayloadBuffer) = UpTo(Numbers(e.payload), PayloadBuffer - 1)
  <2> DEFINE o == <<OpenBrace>>
  <2>1. o \in Seq(Token) /\ Len(o) = 1 /\ Lacks(o, Key("payload"))
    <3>1. OpenBrace \in Token /\ OpenBrace # Key("payload")
      BY TokenFacts, Marks
    <3>2. QED BY <3>1, SingleFacts
  <2>2. /\ 3 <= Len(O) /\ O[1] = OpenBrace /\ O[2] = Key("payload") /\ O[3] = OpenBracket
    BY <1>3, <1>13 DEF Stands
  <2>3. Len(O) \in Nat
    BY <1>1, LenProperties
  <2>4. Stands(O, 0, o)
    BY <2>2, <2>3 DEF Stands
  <2>5. Stands(O, 1, <<Key("payload"), OpenBracket>>)
    BY <2>2, <2>3 DEF Stands
  <2>6. Stands(O, 3, b) /\ Stands(O, Len(ab), c) /\ Len(ab) = 3 + Len(b)
    <3>1. Len(ab) = Len(a) + Len(b)
      BY <1>1, <1>s, ConcatProperties
    <3>2. QED BY <3>1, <1>3, <1>12, <1>13
  <2>7. Len(o) + 2 = 3 /\ Len(o) + 2 + Len(b) = 3 + Len(b)
    BY <2>1
  <2>8. /\ e.payload \in Seq(0..255) /\ Numbers(e.payload) \in Seq(Token)
        /\ HasArrayLength(b, e.payload)
    BY <1>c, ObjectFacts
  <2>9. PayloadBuffer \in Nat
    BY BuffersAreGiven
  <2> DEFINE bytes == e.payload
  <2>y. /\ bytes \in Seq(0..255) /\ Numbers(bytes) \in Seq(Token) /\ b = ArrayOf(bytes)
        /\ HasArrayLength(b, bytes)
    BY <2>8, <1>c
  <2> HIDE DEF o, bytes
  <2>10. Stands(O, Len(o), <<Key("payload"), OpenBracket>>) /\ Stands(O, Len(o) + 2, b)
         /\ Stands(O, Len(o) + 2 + Len(b), <<CloseBracket, Comma>>)
    BY <2>1, <2>5, <2>6, <2>7, <1>c
  <2>11. decode_json_byte_array(O, "payload", PayloadBuffer) = UpTo(Numbers(bytes), PayloadBuffer - 1)
    <3>1. O \in Seq(Token) /\ b \in Seq(Token) /\ o \in Seq(Token) /\ Lacks(o, Key("payload"))
      BY <1>1, <2>1
    <3>2. ArrayStands(O, o, "payload", b)
      BY <2>1, <2>4, <2>10 DEF ArrayStands
    <3>3. QED BY <3>1, <3>2, <2>9, <2>y, ArrayIsRead
  <2>12. QED BY <2>11 DEF bytes
<1>17. QED BY <1>15, <1>16, <1>o

\* What is shown of an event is what was written, cut to the buffers.
THEOREM EventIsShown ==
  ASSUME NEW e, IsEvent(e),
         \A i \in 1..Len(Fields(e.type)) : Lacks(e.fields[Fields(e.type)[i]], Quote),
         Lacks(e.contentTopic, Quote), Lacks(e.contentTopic, OpenBrace), Lacks(e.contentTopic, CloseBrace)
  PROVE  event_callback(toFlatJson(e)) = Expected(e)
<1> DEFINE json == toFlatJson(e)
           t == <<Char(e.type)>>
           names == Fields(e.type)
           keys == { names[i] : i \in 1..Len(names) }
           object == extract_json_object(json, "message")
           received == e.type = "message_received"
<1>1. extract_json_field(json, "eventType", StringBuffer) = t
  BY TypeIsRead
<1>2. t # Nothing /\ t[1][2] = e.type
  BY DEF Nothing, Char
<1>3. [ k \in keys |-> extract_json_field(json, k, StringBuffer) ] = [ k \in keys |-> UpTo(e.fields[k], StringBuffer - 1) ]
  <2>1. \A k \in keys : extract_json_field(json, k, StringBuffer) = UpTo(e.fields[k], StringBuffer - 1)
    BY NameIsRead
  <2>2. QED BY <2>1, Zenon
<1>4. received => object # Nothing /\ object = Object(e)
  <2> SUFFICES ASSUME received PROVE object # Nothing /\ object = Object(e)
    OBVIOUS
  <2>1. object = Object(e) /\ Object(e)[1] = OpenBrace
    BY MessageIsRead, ObjectIsBraced
  <2>2. OpenBrace # Nothing[1]
    BY DEF OpenBrace, Nothing, Mark
  <2>3. QED BY <2>1, <2>2
<1>5. /\ extract_json_field(Object(e), "contentTopic", StringBuffer) = UpTo(e.contentTopic, StringBuffer - 1)
      /\ decode_json_byte_array(Object(e), "payload", PayloadBuffer) = UpTo(Numbers(e.payload), PayloadBuffer - 1)
  BY ObjectFieldsAreRead
<1>6. event_callback(json) =
        [ type |-> e.type, fields |-> [ k \in keys |-> extract_json_field(json, k, StringBuffer) ],
          contentTopic |-> IF received /\ object # Nothing
                           THEN extract_json_field(object, "contentTopic", StringBuffer) ELSE Nothing,
          payload |-> IF received /\ object # Nothing
                      THEN decode_json_byte_array(object, "payload", PayloadBuffer) ELSE Nothing ]
  BY <1>1, <1>2 DEF event_callback
<1>7. Expected(e) =
        [ type |-> e.type, fields |-> [ k \in keys |-> UpTo(e.fields[k], StringBuffer - 1) ],
          contentTopic |-> IF received THEN UpTo(e.contentTopic, StringBuffer - 1) ELSE Nothing,
          payload |-> IF received THEN UpTo(Numbers(e.payload), PayloadBuffer - 1) ELSE Nothing ]
  BY DEF Expected, Numbers
<1> HIDE DEF json, t, names, keys, object
<1>8. CASE received
  <2>1. event_callback(json) = Expected(e)
    BY <1>3, <1>4, <1>5, <1>6, <1>7, <1>8
  <2>2. QED BY <2>1 DEF json
<1>9. CASE ~ received
  <2>1. event_callback(json) = Expected(e)
    BY <1>3, <1>6, <1>7, <1>9
  <2>2. QED BY <2>1 DEF json
<1>10. QED BY <1>8, <1>9
=============================================================================
