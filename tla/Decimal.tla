-------------------------------- MODULE Decimal --------------------------------
(***************************************************************************)
(* DECIMAL values: decimal_bin_size and bin2decimal (my_decimal.cpp), and   *)
(* the text RowEvent::ParseColumnValue makes of their result.              *)
(*                                                                         *)
(* A value of DECIMAL(precision, scale) is a tuple: 1 if it is negative or  *)
(* else 0, and its digits, the last scale of them behind the point.  The    *)
(* text is the sign, and the words and points that are printed: a word is   *)
(* a number with nine digits.                                              *)
(***************************************************************************)
EXTENDS Integers, SequencesExt

DigPerDec1 == 9
DecimalBuffLength == 9

\* powers10, from the power 0 on.
Powers10 == <<1, 10, 100, 1000, 10000, 100000, 1000000, 10000000, 100000000, 1000000000>>
DigMax == Powers10[10] - 1

\* dig2bytes: the bytes for a number of up to nine digits.
Dig2Bytes(digits) == IF digits = 9 THEN 4 ELSE (digits + 1) \div 2

\* The first byte is the highest.
High(bytes) ==
    LET high[i \in 0..Len(bytes)] == IF i = 0 THEN 0 ELSE high[i - 1] * 256 + bytes[i]
    IN high[Len(bytes)]
Powers256 == <<1, 256, 65536, 16777216>>
HighBytes(n, size) == [i \in 1..size |-> (n \div Powers256[size - i + 1]) % 256]

Number(digits) ==
    LET number[i \in 0..Len(digits)] == IF i = 0 THEN 0 ELSE number[i - 1] * 10 + digits[i]
    IN number[Len(digits)]
Slice(bytes, from, n) == SubSeq(bytes, from + 1, from + n)

-----------------------------------------------------------------------------
(* The server: decimal2bin.                                                *)

\* The digits in groups of nine, counted from the point.
Groups(precision, scale, digits) ==
    LET intg == precision - scale
        Nines(from, n) == [i \in 1..n |-> Slice(digits, from + 9 * (i - 1), 9)]
        Rest(from, n) == IF n = 0 THEN << >> ELSE <<Slice(digits, from, n)>>
    IN Rest(0, intg % 9) \o Nines(intg % 9, intg \div 9)
       \o Nines(intg, scale \div 9) \o Rest(precision - (scale % 9), scale % 9)

\* The bytes of a negative value are inverted, and the first bit of every value.
DecimalBytes(precision, scale, value) ==
    LET groups == Groups(precision, scale, Tail(value))
        plain == FlattenSeq([i \in DOMAIN groups |->
                     HighBytes(Number(groups[i]), Dig2Bytes(Len(groups[i])))])
        bytes == [i \in DOMAIN plain |-> IF value[1] = 1 THEN 255 - plain[i] ELSE plain[i]]
    IN [bytes EXCEPT ![1] = (@ + 128) % 256]

-----------------------------------------------------------------------------
(* The parser.                                                             *)

DecimalBinSize(precision, scale) ==
    LET Size(digits) == 4 * (digits \div DigPerDec1) + Dig2Bytes(digits % DigPerDec1)
    IN Size(precision - scale) + Size(scale)

\* What bin2decimal reads: digits of a first integer word and of a last word of
\* the fraction, whole words between them, and the bytes before it that it passes
\* over.  FIX_INTG_FRAC_ERROR leaves out what does not fit into the buffer.
Layout(precision, scale) ==
    LET intg == precision - scale
        all == [skip |-> 0,
                intg0x |-> intg % DigPerDec1, intg0 |-> intg \div DigPerDec1,
                frac0 |-> scale \div DigPerDec1, frac0x |-> scale % DigPerDec1]
        Up(digits) == (digits + DigPerDec1 - 1) \div DigPerDec1
    IN IF Up(intg) + Up(scale) <= DecimalBuffLength THEN all
       ELSE IF Up(intg) <= DecimalBuffLength
            THEN [all EXCEPT !.frac0 = DecimalBuffLength - Up(intg), !.frac0x = 0]
            ELSE [skip |-> Dig2Bytes(all.intg0x) + 4 * (all.intg0 - DecimalBuffLength),
                  intg0x |-> 0, intg0 |-> DecimalBuffLength, frac0 |-> 0, frac0x |-> 0]

\* Mutant: the last digits are not moved up to the point.
LastWordUnscaled(word, digits) == word

\* (x ^ mask) * powers10[DIG_PER_DEC1 - frac0x]
LastWord(word, digits) == word * Powers10[DigPerDec1 - digits + 1]

\* bin2decimal.  Its words are read sign-extended and inverted by the mask, so
\* they are what their bytes are, inverted.
Bin2Decimal(from, precision, scale) ==
    LET to == Layout(precision, scale)
        mask == from[1] < 128
        flipped == [from EXCEPT ![1] = (@ + 128) % 256]
        bytes == [i \in DOMAIN from |-> IF mask THEN 255 - flipped[i] ELSE flipped[i]]
        Word(at, size) == High(Slice(bytes, at, size))
        Words(at, n) == [i \in 1..n |-> Word(at + 4 * (i - 1), 4)]
        intgAt == to.skip + Dig2Bytes(to.intg0x)
        fracAt == intgAt + 4 * to.intg0
        first == IF to.intg0x = 0 THEN << >> ELSE <<Word(to.skip, Dig2Bytes(to.intg0x))>>
        whole == Words(intgAt, to.intg0)
        frac == Words(fracAt, to.frac0) \o
                IF to.frac0x = 0 THEN << >>
                ELSE <<LastWord(Word(fracAt + 4 * to.frac0, Dig2Bytes(to.frac0x)), to.frac0x)>>
        lead == SelectInSeq(first \o whole, LAMBDA word : word # 0)
        intg == IF lead = 0 THEN << >> ELSE SubSeq(first \o whole, lead, Len(first \o whole))
    IN IF \/ \E word \in ToSet(first) : word >= Powers10[to.intg0x + 2]
          \/ \E word \in ToSet(whole \o frac) : word > DigMax
       THEN [sign |-> FALSE, buf |-> <<0>>]                \* decimal_make_zero
       ELSE [sign |-> mask, buf |-> intg \o frac]

Point == -1

\* The loop that prints the words, a point behind each but the last; without any it prints
\* the 0 in buf[0].
DecimalText(bytes, precision, scale) ==
    LET dec == Bin2Decimal(bytes, precision, scale)
        words == IF dec.buf = << >> THEN <<0>> ELSE dec.buf
    IN <<IF dec.sign THEN 1 ELSE 0>>
       \o [i \in 1..2 * Len(words) - 1 |-> IF i % 2 = 1 THEN words[(i + 1) \div 2] ELSE Point]

-----------------------------------------------------------------------------
(* What the text should be.                                                *)

\* The digits, filled up with zeros on both sides to words of nine, without the words in
\* front that are nothing but zeros: those before the point, and those behind it.
Nines(precision, scale, value) ==
    LET Fill(n) == [i \in 1..((9 - (n % 9)) % 9) |-> 0]
        digits == Fill(precision - scale) \o Tail(value) \o Fill(scale)
        words == [i \in 1..Len(digits) \div 9 |-> Number(Slice(digits, 9 * (i - 1), 9))]
        point == Len(words) - (scale + 8) \div 9
        first == CHOOSE i \in 1..point + 1 :
                     /\ i > point \/ words[i] # 0
                     /\ \A j \in 1..i - 1 : words[j] = 0
    IN [intg |-> SubSeq(words, first, point), frac |-> SubSeq(words, point + 1, Len(words))]

\* One point, and only in front of a fraction, and a 0 in front of it if need be.
DecimalSpelled(sign, nines) ==
    <<sign>> \o (IF nines.intg = << >> THEN <<0>> ELSE nines.intg)
             \o (IF nines.frac = << >> THEN << >> ELSE <<Point>> \o nines.frac)

\* The words are right, and so is the text where no point but the decimal one is
\* between words, that is with a word in front of it and at most one behind it.
DecimalIsRead(precision, scale, value, text) ==
    LET nines == Nines(precision, scale, value)
        words == nines.intg \o nines.frac
    IN /\ text[1] = value[1]
       /\ [i \in 1..Len(text) \div 2 |-> text[2 * i]] = IF words = << >> THEN <<0>> ELSE words
       /\ (Len(nines.intg) <= 1 /\ Len(nines.frac) = 0) \/ (Len(nines.intg) = 1 /\ Len(nines.frac) = 1)
          => text = DecimalSpelled(value[1], nines)
=============================================================================
