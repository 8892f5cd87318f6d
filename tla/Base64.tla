-------------------------------- MODULE Base64 --------------------------------
(***************************************************************************)
(* How MysqlConnector::init reads a configured password that is encoded:    *)
(* DecodeBase64Char and Base64Decode (util.cpp), into a buffer of Room      *)
(* bytes.  What it decodes goes to DesDecrypt, a call of OpenSSL.           *)
(*                                                                         *)
(* Characters and bytes are numbers.  Base64Decode accepts line breaks and  *)
(* any other character outside the alphabet, '=' included, and a 0 between  *)
(* two groups of four as the end of the text.                              *)
(***************************************************************************)
EXTENDS Integers, SequencesExt

CONSTANTS Room,     \* the size of the buffer
          Texts,    \* the byte sequences that may have been encoded
          Junk      \* characters outside the alphabet that may lie between others

ASSUME Base64Assumption == Room \in Nat

\* The value of a character, or -1.
DecodeBase64Char(ch) ==
    CASE ch \in 65..90 -> ch - 65          \* A..Z
      [] ch \in 97..122 -> ch - 97 + 26    \* a..z
      [] ch \in 48..57 -> ch - 48 + 52     \* 0..9
      [] ch = 43 -> 62
      [] ch = 47 -> 63
      [] OTHER -> -1

\* The bytes of up to four 6-bit values: dwCurr is filled from the left.
GroupBytes(values) ==
    LET dwCurr == FoldLeft(LAMBDA n, v : n * 64 + v, 0, values) * 64 ^ (4 - Len(values))
    IN [i \in 1..(6 * Len(values)) \div 8 |-> (dwCurr \div 256 ^ (3 - i)) % 256]

Begin == [ended |-> FALSE, inGroup |-> FALSE, group |-> << >>,
          dest |-> << >>, written |-> 0, overflow |-> FALSE]

\* A group goes to the buffer if it fits; behind one that did not, none does.
EndGroup(s) ==
    LET bytes == GroupBytes(s.group)
        overflow == s.overflow \/ s.written + Len(bytes) > Room
    IN [s EXCEPT !.inGroup = FALSE, !.group = << >>, !.overflow = overflow,
                 !.dest = IF overflow THEN @ ELSE @ \o bytes,
                 !.written = @ + Len(bytes)]

\* Base64Decode looks at one more character.
NextChar(s, ch) ==
    LET value == DecodeBase64Char(ch)
        read == [s EXCEPT !.inGroup = TRUE,
                          !.group = IF value = -1 THEN @ ELSE Append(@, value)]
    IN IF s.ended \/ (~s.inGroup /\ ch = 0) THEN [s EXCEPT !.ended = TRUE]
       ELSE IF Len(read.group) = 4 THEN EndGroup(read) ELSE read

\* Base64Decode: its result, the bytes in the buffer and *pnDestLen.
Base64Decode(src) ==
    LET s == FoldLeft(NextChar, Begin, src)
        end == IF s.inGroup THEN EndGroup(s) ELSE s
    IN [result |-> IF end.overflow THEN -2 ELSE 0, bytes |-> end.dest, length |-> end.written]

-----------------------------------------------------------------------------
(* Properties.                                                             *)

\* RFC 4648: the bits of the text in sixes, the last six filled up with zeros,
\* and padding up to a multiple of four characters.
Alphabet == [i \in 1..26 |-> 64 + i] \o [i \in 1..26 |-> 96 + i] \o [i \in 1..10 |-> 47 + i] \o <<43, 47>>
Bit(bytes, n) ==
    IF n > 8 * Len(bytes) THEN 0
    ELSE (bytes[(n + 7) \div 8] \div 2 ^ ((8 - (n % 8)) % 8)) % 2
Base64Encoded(bytes) ==
    [i \in 1..4 * ((Len(bytes) + 2) \div 3) |->
        IF 6 * (i - 1) >= 8 * Len(bytes) THEN 61
        ELSE Alphabet[1 + FoldLeft(LAMBDA n, j : 2 * n + Bit(bytes, 6 * (i - 1) + j), 0, <<1, 2, 3, 4, 5, 6>>)]]

\* The encoded text, as it stands in the configuration: perhaps without its
\* padding, or with another character somewhere in it.
Spellings(bytes) ==
    LET text == Base64Encoded(bytes)
    IN {text, SelectSeq(text, LAMBDA ch : ch # 61)}
       \cup {InsertAt(text, i, ch) : i \in 1..Len(text) + 1, ch \in Junk}

\* A password that fits into the buffer comes out of it byte for byte, padded or
\* not and with line breaks in it; of a longer one only a beginning is written,
\* and the result and the length say so, though init looks only at the length.
PasswordDecoded ==
    \A bytes \in Texts : \A text \in Spellings(bytes) :
        LET decoded == Base64Decode(text)
        IN IF Len(bytes) <= Room
           THEN decoded = [result |-> 0, bytes |-> bytes, length |-> Len(bytes)]
           ELSE /\ decoded.result = -2 /\ decoded.length = Len(bytes)
                /\ Len(decoded.bytes) <= Room /\ IsPrefix(decoded.bytes, bytes)
=============================================================================
