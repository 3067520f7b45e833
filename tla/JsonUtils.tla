------------------------------ MODULE JsonUtils ------------------------------
(***************************************************************************)
(* The three readers of liblogosdelivery/examples/json_utils.c. A text is  *)
(* a sequence of tokens <<kind, value>>: a key token stands for the        *)
(* characters  "name":  , the others for one character, except that a      *)
(* number, and a word of a string that no reader looks into, is one token. *)
(***************************************************************************)
EXTENDS Naturals, Sequences, FiniteSets

Key(k) == <<"key", k>>
Mark(m) == <<"mark", m>>
Char(c) == <<"char", c>>
Number(n) == <<"number", n>>
Quote == Mark("quote")
Comma == Mark("comma")
OpenBrace == Mark("open_brace")
CloseBrace == Mark("close_brace")
OpenBracket == Mark("open_bracket")
CloseBracket == Mark("close_bracket")

\* What a reader returns in place of NULL (or of -1).
Nothing == << <<"nothing", "">> >>

Least(S) == CHOOSE i \in S : \A j \in S : i <= j
Nth(S, k) == CHOOSE i \in S : Cardinality({ j \in S : j <= i }) = k
UpTo(s, n) == IF Len(s) > n THEN SubSeq(s, 1, n) ELSE s

\* strstr of  "field":  followed by the opening character: the places found.
Found(json, field, opening) ==
  { i \in 1..(Len(json) - 1) : json[i] = Key(field) /\ json[i + 1] = opening }

\* Mutant: no room is left for the terminating zero.
MutantExtractJsonField(json, field, bufSize) ==
  LET found == Found(json, field, Quote)
      start == Least(found) + 2
      ends == { j \in start..Len(json) : json[j] = Quote }
  IN IF found = {} THEN Nothing
     ELSE IF ends = {} THEN Nothing
     ELSE UpTo(SubSeq(json, start, Least(ends) - 1), bufSize)

\* The string between the opening quote and the next one, cut to bufSize - 1.
extract_json_field(json, field, bufSize) ==
  LET found == Found(json, field, Quote)
      start == Least(found) + 2
      ends == { j \in start..Len(json) : json[j] = Quote }
  IN IF found = {} THEN Nothing
     ELSE IF ends = {} THEN Nothing
     ELSE UpTo(SubSeq(json, start, Least(ends) - 1), bufSize - 1)

\* From the opening brace to the place where as many are closed as opened.
extract_json_object(json, field) ==
  LET found == Found(json, field, OpenBrace)
      start == Least(found) + 1
      Count(m, p) == Cardinality({ j \in start..p : json[j] = m })
      closed == { p \in start..Len(json) : Count(OpenBrace, p) = Count(CloseBrace, p) }
  IN IF found = {} THEN Nothing
     ELSE IF closed = {} THEN Nothing
     ELSE SubSeq(json, start, Least(closed))

\* The numbers up to the closing bracket, taken modulo 256, at most bufSize - 1.
\* A token that is neither a number nor a comma is never passed: the loop stores
\* zeros until the buffer is full; a text that ends after a comma gives one more 0.
decode_json_byte_array(json, field, bufSize) ==
  LET found == Found(json, field, OpenBracket)
      rest == SubSeq(json, Least(found) + 2, Len(json))
      IsNumber(t) == t[1] = "number"
      stops == { j \in 1..Len(rest) : ~ IsNumber(rest[j]) /\ rest[j] # Comma }
      read == IF stops = {} THEN rest ELSE SubSeq(rest, 1, Least(stops) - 1)
      numbers == { j \in 1..Len(read) : IsNumber(read[j]) }
      bytes == [ k \in 1..Cardinality(numbers) |-> Number(read[Nth(numbers, k)][2] % 256) ]
      zeros == [ j \in 1..bufSize |-> Number(0) ]
      after == IF stops # {} THEN IF rest[Least(stops)] = CloseBracket THEN <<>> ELSE zeros
               ELSE IF rest # <<>> /\ rest[Len(rest)] = Comma THEN <<Number(0)>> ELSE <<>>
  IN IF found = {} THEN Nothing ELSE UpTo(bytes \o after, bufSize - 1)
=============================================================================
