-------------------------- MODULE RowReaderTextProofs --------------------------
(***************************************************************************)
(* Proofs about the texts that RowReader makes of the columns, for any      *)
(* table, rows and values that ScenariosAssumption allows.                  *)
(*                                                                         *)
(* TextsAreMatched: a finished line has the text of each column of its row. *)
(* ValueRead says what ParseColumnValue makes of the bytes of one value, by *)
(* the type of its column, but for the parts that WrongParts names.  It     *)
(* rests on two facts: High and Low give the number again that HighBytes    *)
(* and LowBytes wrote, and the sums that a date or a time is packed into    *)
(* give their parts again.  The old DATETIME is a number of eight bytes,    *)
(* which is followed through the server's sum of halves (HalvesAre) and     *)
(* the long division by 1000000 (Divided).  RowsInv of RowReaderProofs says *)
(* that the parser is at these bytes.  The invariant is TextsInv: it has    *)
(* the texts of the line that is read, too (LineTexts).                     *)
(*                                                                         *)
(* DecimalsAreRead: a DECIMAL has its words.  The value is followed through *)
(* decimal2bin and bin2decimal: the sign taken off gives the bytes that     *)
(* were written before it was stored (SignRead, PlainIs), the words that    *)
(* are read are the numbers of the groups of nine (WordsRead) and no number *)
(* of more digits (WordBound), they are those of the digits filled up to    *)
(* nines (FilledWord), the zeros that are not printed are those in front    *)
(* (PrintedIs), and the points between the words are the right ones where   *)
(* DecimalIsRead says so (PointedIsRead).                                   *)
(***************************************************************************)
EXTENDS RowReaderProofs

-----------------------------------------------------------------------------
(* Numbers.                                                                *)

\* The function by which Number and High are defined, up to the n-th digit.
Places(f, digits, base, n) ==
    f = [i \in 0..n |-> IF i = 0 THEN 0 ELSE f[i - 1] * base + digits[i]]

\* Each number is the one of a digit less, moved up, and the digit.
LEMMA PlacesAt ==
    ASSUME NEW f, NEW digits, NEW base, NEW n, Places(f, digits, base, n), NEW i \in 0..n
    PROVE  f[i] = IF i = 0 THEN 0 ELSE f[i - 1] * base + digits[i]
<1> DEFINE g == [k \in 0..n |-> IF k = 0 THEN 0 ELSE f[k - 1] * base + digits[k]]
<1>1. f = g
    BY DEF Places
<1>2. g[i] = IF i = 0 THEN 0 ELSE f[i - 1] * base + digits[i]
    OBVIOUS
<1> HIDE DEF g
<1> QED
    BY <1>1, <1>2

\* There are such numbers, up to every number of digits.
LEMMA PlacesExists ==
    ASSUME NEW digits, NEW base, NEW n \in Nat
    PROVE  \E f : Places(f, digits, base, n)
<1> DEFINE N == {k \in Nat : \E f : Places(f, digits, base, k)}
<1>1. 0 \in N
    <2> DEFINE f == [i \in 0..0 |-> 0]
    <2>1. f = [i \in 0..0 |-> IF i = 0 THEN 0 ELSE f[i - 1] * base + digits[i]]
        OBVIOUS
    <2> QED
        BY <2>1 DEF Places
<1>2. ASSUME NEW k \in 0..n - 1, k \in N PROVE k + 1 \in N
    <2>1. PICK f : Places(f, digits, base, k)
        BY <1>2
    <2> DEFINE g == [i \in 0..k + 1 |-> IF i <= k THEN f[i] ELSE f[i - 1] * base + digits[i]]
    <2>2. ASSUME NEW i \in 0..k + 1
          PROVE  g[i] = IF i = 0 THEN 0 ELSE g[i - 1] * base + digits[i]
        <3>1. CASE i = 0
            <4>1. f[0] = 0
                BY <2>1, PlacesAt
            <4> QED
                BY <3>1, <4>1
        <3>2. CASE i # 0
            <4>1. i - 1 \in 0..k /\ i - 1 \in 0..k + 1 /\ i - 1 <= k
                BY <3>2
            <4>2. g[i - 1] = f[i - 1]
                BY <4>1
            <4>3. ASSUME i <= k PROVE f[i] = f[i - 1] * base + digits[i]
                <5>1. i \in 0..k
                    BY <4>3
                <5>2. f[i] = IF i = 0 THEN 0 ELSE f[i - 1] * base + digits[i]
                    BY <2>1, <5>1, PlacesAt
                <5> QED
                    BY <3>2, <5>2
            <4> QED
                BY <4>2, <4>3, <3>2
        <3> QED
            BY <3>1, <3>2
    <2>3. g = [i \in 0..k + 1 |-> g[i]]
        OBVIOUS
    <2> HIDE DEF g
    <2>4. Places(g, digits, base, k + 1)
        BY <2>2, <2>3 DEF Places
    <2> QED
        BY <2>4
<1> HIDE DEF N
<1>3. 0..n \subseteq N
    BY <1>1, <1>2, UpTo
<1> QED
    BY <1>3 DEF N

\* Number, which is defined by CHOOSE, is the last of them.
LEMMA NumberIs ==
    ASSUME NEW s, IsSeq(s)
    PROVE  \E f : Places(f, s, 10, Len(s)) /\ Number(s) = f[Len(s)]
<1> DEFINE P(h) == h = [i \in 0..Len(s) |-> IF i = 0 THEN 0 ELSE h[i - 1] * 10 + s[i]]
<1>1. PICK f : f = CHOOSE h : P(h)
    OBVIOUS
<1>2. Number(s) = f[Len(s)]
    BY <1>1 DEF Number
<1>3. \E h : P(h)
    <2>1. Len(s) \in Nat
        BY SeqFacts
    <2>2. PICK h : Places(h, s, 10, Len(s))
        BY <2>1, PlacesExists
    <2>3. P(h)
        BY <2>2 DEF Places
    <2> QED
        BY <2>3
<1>4. P(f)
    BY <1>1, <1>3
<1> QED
    BY <1>2, <1>4 DEF Places

\* The function by which SignedHigh is defined: a sign-extended first byte, and the others behind it.
LEMMA SignedHighIs ==
    ASSUME NEW s, IsSeq(s), Len(s) # 0, \A i \in 1..Len(s) : s[i] \in Int
    PROVE  \E f : /\ SignedHigh(s) = f[Len(s)] /\ f[1] = Signed(s[1])
                  /\ \A i \in 2..Len(s) : f[i] = f[i - 1] * 256 + s[i]
<1> DEFINE n == Len(s)
           s2 == [i \in 1..n |-> IF i = 1 THEN Signed(s[1]) ELSE s[i]]
           P(h) == h = [i \in 1..n |-> IF i = 1 THEN Signed(s[1]) ELSE h[i - 1] * 256 + s[i]]
<1>1. n \in Nat /\ n # 0
    BY SeqFacts
<1>2. PICK g : Places(g, s2, 256, n)
    BY <1>1, PlacesExists
<1> DEFINE h == [i \in 1..n |-> g[i]]
<1>3. P(h)
    <2>1. ASSUME NEW i \in 1..n
          PROVE  h[i] = IF i = 1 THEN Signed(s[1]) ELSE h[i - 1] * 256 + s[i]
        <3>1. i \in 0..n /\ i # 0
            OBVIOUS
        <3>2. g[i] = g[i - 1] * 256 + s2[i]
            BY <3>1, <1>2, PlacesAt
        <3>3. CASE i = 1
            <4>1. 0 \in 0..n /\ 1 - 1 = 0
                BY <1>1
            <4>2. g[0] = 0
                BY <4>1, <1>2, PlacesAt
            <4>3. s2[1] = Signed(s[1]) /\ Signed(s[1]) \in Int
                BY <3>3 DEF Signed
            <4> HIDE DEF s2
            <4> QED
                BY <3>2, <3>3, <4>1, <4>2, <4>3
        <3>4. CASE i # 1
            <4>1. i - 1 \in 1..n
                BY <3>4
            <4>2. s2[i] = s[i]
                BY <3>4
            <4> HIDE DEF s2
            <4> QED
                BY <3>2, <3>4, <4>1, <4>2
        <3> QED
            BY <3>3, <3>4
    <2>2. h = [i \in 1..n |-> h[i]]
        OBVIOUS
    <2> HIDE DEF h, s2, n
    <2>3. [i \in 1..n |-> h[i]] = [i \in 1..n |-> IF i = 1 THEN Signed(s[1]) ELSE h[i - 1] * 256 + s[i]]
        BY <2>1
    <2> QED
        BY <2>2, <2>3
<1>4. PICK f : f = CHOOSE hh : P(hh)
    OBVIOUS
<1>5. P(f)
    BY <1>3, <1>4
<1>6. SignedHigh(s) = f[n]
    BY <1>4 DEF SignedHigh
<1>7. \A i \in 1..n : f[i] = IF i = 1 THEN Signed(s[1]) ELSE f[i - 1] * 256 + s[i]
    <2> DEFINE ff == [i \in 1..n |-> IF i = 1 THEN Signed(s[1]) ELSE f[i - 1] * 256 + s[i]]
    <2>1. f = ff
        BY <1>5
    <2>2. \A i \in 1..n : ff[i] = IF i = 1 THEN Signed(s[1]) ELSE f[i - 1] * 256 + s[i]
        OBVIOUS
    <2> HIDE DEF ff
    <2> QED
        BY <2>1, <2>2
<1> HIDE DEF P, h, s2
<1>8. f[1] = Signed(s[1])
    <2>1. 1 \in 1..n
        BY <1>1
    <2> QED
        BY <2>1, <1>7
<1>9. ASSUME NEW i \in 2..n PROVE f[i] = f[i - 1] * 256 + s[i]
    <2>1. i \in 1..n /\ i # 1
        OBVIOUS
    <2> QED
        BY <2>1, <1>7
<1> QED
    BY <1>6, <1>8, <1>9

-----------------------------------------------------------------------------
(* Numbers in bytes.                                                       *)

\* What fits into size bytes, and what does so without the first bit.
FitsInto(n, size) ==
    /\ size = 0 => n = 0
    /\ size = 1 => n < 256
    /\ size = 2 => n < 65536
    /\ size = 3 => n < 16777216
    /\ size = 4 => n < 4294967296
FitsSigned(n, size) ==
    /\ size = 1 => n < 128
    /\ size = 2 => n < 32768
    /\ size = 3 => n < 8388608

\* The highest byte first, a number is read as it was written.
LEMMA HighOfHighBytes ==
    ASSUME NEW n \in Nat, NEW size \in 0..4, FitsInto(n, size)
    PROVE  High(HighBytes(n, size)) = n
<1> DEFINE s == HighBytes(n, size)
           Digit(k) == (n \div k) % 256
<1>1. IsSeq(s) /\ Len(s) = size
    BY HighBytesIsSeq
<1>2. \A i \in 1..size : s[i] = Digit(Powers256[size - i + 1])
    BY DEF HighBytes
<1>3. Powers256[1] = 1 /\ Powers256[2] = 256 /\ Powers256[3] = 65536 /\ Powers256[4] = 16777216
    BY DEF Powers256
<1>4. Digit(1) = (n % 256) /\ Digit(1) \in Int /\ Digit(256) \in Int /\ Digit(65536) \in Int /\ Digit(16777216) \in Int
    OBVIOUS
<1>5. size = 1 => Digit(1) = n
    BY <1>4 DEF FitsInto
<1>6. size = 2 => Digit(256) * 256 + Digit(1) = n
    BY <1>4, TwoDigits DEF FitsInto
<1>7. size = 3 => (Digit(65536) * 256 + Digit(256)) * 256 + Digit(1) = n
    BY <1>4, ThreeDigits DEF FitsInto
<1>8. size = 4 => ((Digit(16777216) * 256 + Digit(65536)) * 256 + Digit(256)) * 256 + Digit(1) = n
    BY <1>4, FourDigits DEF FitsInto
<1> SUFFICES High(s) = n
    OBVIOUS
<1> HIDE DEF s, Digit
<1>9. size = 0 => s = << >>
    BY <1>1, EmptyIsSeq, SameSeq
<1>10. ASSUME size # 0
       PROVE  /\ Len(s) = 1 => High(s) = s[1]
              /\ Len(s) = 2 => High(s) = s[1] * 256 + s[2]
              /\ Len(s) = 3 => High(s) = (s[1] * 256 + s[2]) * 256 + s[3]
              /\ Len(s) = 4 => High(s) = ((s[1] * 256 + s[2]) * 256 + s[3]) * 256 + s[4]
    <2>1. \A i \in 1..Len(s) : s[i] \in Int
        <3> SUFFICES ASSUME NEW i \in 1..Len(s) PROVE s[i] \in Int
            OBVIOUS
        <3>1. size - i + 1 \in 1..4
            BY <1>1
        <3>2. Powers256[size - i + 1] \in {1, 256, 65536, 16777216}
            BY <3>1, <1>3
        <3> QED
            BY <3>2, <1>1, <1>2, <1>4
    <2>2. Len(s) \in 1..4
        BY <1>10, <1>1
    <2>3. IsSeq(s)
        BY <1>1
    <2> QED
        BY <2>1, <2>2, <2>3, HighOfFour
<1>11. CASE size = 0
    BY <1>9, <1>11, HighOfNone DEF FitsInto
<1>12. CASE size = 1
    <2>1. s[1] = Digit(1)
        BY <1>12, <1>2, <1>3
    <2> QED
        BY <2>1, <1>12, <1>1, <1>5, <1>10
<1>13. CASE size = 2
    <2>1. s[1] = Digit(256) /\ s[2] = Digit(1)
        BY <1>13, <1>2, <1>3
    <2> QED
        BY <2>1, <1>13, <1>1, <1>6, <1>10
<1>14. CASE size = 3
    <2>1. s[1] = Digit(65536) /\ s[2] = Digit(256) /\ s[3] = Digit(1)
        BY <1>14, <1>2, <1>3
    <2> QED
        BY <2>1, <1>14, <1>1, <1>7, <1>10
<1>15. CASE size = 4
    <2>1. s[1] = Digit(16777216) /\ s[2] = Digit(65536) /\ s[3] = Digit(256) /\ s[4] = Digit(1)
        BY <1>15, <1>2, <1>3
    <2> QED
        BY <2>1, <1>15, <1>1, <1>8, <1>10
<1> QED
    BY <1>11, <1>12, <1>13, <1>14, <1>15

\* Bytes are numbers.
LEMMA HighBytesAreBytes ==
    ASSUME NEW n \in Int, NEW size \in 1..4
    PROVE  \A i \in 1..size : HighBytes(n, size)[i] \in 0..255 /\ HighBytes(n, size)[i] \in Int
<1> SUFFICES ASSUME NEW i \in 1..size PROVE HighBytes(n, size)[i] \in 0..255
    OBVIOUS
<1>1. HighBytes(n, size)[i] = (n \div Powers256[size - i + 1]) % 256
    BY DEF HighBytes
<1>2. size - i + 1 \in 1..4
    OBVIOUS
<1>3. Powers256[size - i + 1] \in {1, 256, 65536, 16777216}
    BY <1>2 DEF Powers256
<1>4. n \div Powers256[size - i + 1] \in Int
    BY <1>3
<1> QED
    BY <1>1, <1>4

\* A number whose first byte is no negative char is the same if that is one.
LEMMA SignedOfHighBytes ==
    ASSUME NEW n \in Nat, NEW size \in 1..3, FitsSigned(n, size)
    PROVE  SignedHigh(HighBytes(n, size)) = n
<1> DEFINE s == HighBytes(n, size)
<1>1. IsSeq(s) /\ Len(s) = size
    BY HighBytesIsSeq
<1>2. \A i \in 1..size : s[i] \in 0..255 /\ s[i] \in Int
    <2>1. size \in 1..4 /\ n \in Int
        OBVIOUS
    <2> HIDE DEF s
    <2>2. \A i \in 1..size : HighBytes(n, size)[i] \in 0..255 /\ HighBytes(n, size)[i] \in Int
        BY <2>1, HighBytesAreBytes
    <2> QED
        BY <2>2 DEF s
<1>3. \A i \in 1..size : s[i] = (n \div Powers256[size - i + 1]) % 256
    BY DEF HighBytes
<1>4. Powers256[1] = 1 /\ Powers256[2] = 256 /\ Powers256[3] = 65536
    BY DEF Powers256
<1>5. High(s) = n
    <2>1. size \in 0..4 /\ FitsInto(n, size)
        BY DEF FitsInto, FitsSigned
    <2> HIDE DEF s
    <2>2. High(HighBytes(n, size)) = n
        BY <2>1, HighOfHighBytes
    <2> QED
        BY <2>2 DEF s
<1> SUFFICES SignedHigh(s) = n
    OBVIOUS
<1> HIDE DEF s
<1>6. s[1] < 128
    <2>1. s[1] = (n \div Powers256[size]) % 256
        BY <1>3
    <2>2. CASE size = 1
        BY <2>1, <2>2, <1>4 DEF FitsSigned
    <2>3. CASE size = 2
        BY <2>1, <2>3, <1>4 DEF FitsSigned
    <2>4. CASE size = 3
        BY <2>1, <2>4, <1>4 DEF FitsSigned
    <2> QED
        BY <2>2, <2>3, <2>4
<1>7. Signed(s[1]) = s[1]
    BY <1>2, <1>6 DEF Signed
<1>8. PICK f : /\ SignedHigh(s) = f[Len(s)] /\ f[1] = Signed(s[1])
               /\ \A i \in 2..Len(s) : f[i] = f[i - 1] * 256 + s[i]
    <2>1. IsSeq(s) /\ Len(s) # 0 /\ \A i \in 1..Len(s) : s[i] \in Int
        BY <1>1, <1>2
    <2> QED
        BY <2>1, SignedHighIs
<1>9. /\ Len(s) = 1 => High(s) = s[1]
      /\ Len(s) = 2 => High(s) = s[1] * 256 + s[2]
      /\ Len(s) = 3 => High(s) = (s[1] * 256 + s[2]) * 256 + s[3]
    <2>1. IsSeq(s) /\ Len(s) \in 1..4 /\ \A i \in 1..Len(s) : s[i] \in Int
        BY <1>1, <1>2
    <2> QED
        BY <2>1, HighOfFour
<1>10. CASE size = 1
    BY <1>1, <1>5, <1>7, <1>8, <1>9, <1>10
<1>11. CASE size = 2
    <2>1. f[2] = f[1] * 256 + s[2]
        BY <1>1, <1>8, <1>11
    <2> QED
        BY <2>1, <1>1, <1>5, <1>7, <1>8, <1>9, <1>11
<1>12. CASE size = 3
    <2>1. f[2] = f[1] * 256 + s[2] /\ f[3] = f[2] * 256 + s[3]
        BY <1>1, <1>8, <1>12
    <2> QED
        BY <2>1, <1>1, <1>5, <1>7, <1>8, <1>9, <1>12
<1> QED
    BY <1>10, <1>11, <1>12

\* What is above k bytes is a byte and what is above it.
LEMMA AboveStep ==
    ASSUME NEW n \in Int, NEW k \in 0..6
    PROVE  /\ Above(n, k) \in Int /\ Above(n, k + 1) \in Int
           /\ Above(n, k) = Above(n, k + 1) * 256 + (Above(n, k) % 256)
<1> DEFINE m == (n \div 16777216) \div 256
<1>1. n \div 16777216 \in Int /\ m \in Int
    OBVIOUS
<1>2. Powers256[1] = 1 /\ Powers256[2] = 256 /\ Powers256[3] = 65536 /\ Powers256[4] = 16777216
    BY DEF Powers256
<1>3. /\ Above(n, 0) = n \div 1 /\ Above(n, 1) = n \div 256 /\ Above(n, 2) = n \div 65536
      /\ Above(n, 3) = n \div 16777216
    BY <1>2 DEF Above
<1>4. /\ Above(n, 4) = m \div 1 /\ Above(n, 5) = m \div 256 /\ Above(n, 6) = m \div 65536
      /\ Above(n, 7) = m \div 16777216
    BY <1>2 DEF Above
<1>5. ASSUME NEW a \in Int
      PROVE  /\ a \div 1 = a
             /\ a = (a \div 256) * 256 + (a % 256)
             /\ a \div 256 = (a \div 65536) * 256 + ((a \div 256) % 256)
             /\ a \div 65536 = (a \div 16777216) * 256 + ((a \div 65536) % 256)
    OBVIOUS
<1>6. m \div 1 = m /\ n \div 1 = n
    BY <1>1, <1>5
<1>7. CASE k = 0
    BY <1>3, <1>5, <1>6, <1>7
<1>8. CASE k = 1
    BY <1>3, <1>5, <1>8
<1>9. CASE k = 2
    BY <1>3, <1>5, <1>9
<1>10. CASE k = 3
    BY <1>3, <1>4, <1>6, <1>10
<1>11. CASE k = 4
    BY <1>1, <1>4, <1>5, <1>6, <1>11
<1>12. CASE k = 5
    BY <1>1, <1>4, <1>5, <1>12
<1>13. CASE k = 6
    BY <1>1, <1>4, <1>5, <1>13
<1> QED
    BY <1>7, <1>8, <1>9, <1>10, <1>11, <1>12, <1>13

\* A number whose highest byte is a char is read as it was written.
LEMMA SignedLowOfLowBytes ==
    ASSUME NEW n \in Int, NEW size \in 1..8, Above(n, size - 1) \in -128..127
    PROVE  SignedLow(LowBytes(n, size)) = n
<1> DEFINE s == LowBytes(n, size)
           r == Reverse(s)
<1>1. IsSeq(s) /\ Len(s) = size
    BY LowBytesIsSeq
<1>2. \A i \in 1..size : s[i] = Above(n, i - 1) % 256
    BY DEF LowBytes
<1> HIDE DEF s
<1>3. IsSeq(r) /\ Len(r) = size /\ \A i \in 1..size : r[i] = s[size - i + 1]
    BY <1>1, ReverseIsSeq
<1>4. SignedLow(s) = SignedHigh(r)
    BY DEF SignedLow
<1> HIDE DEF r
<1>5. ASSUME NEW i \in 1..size PROVE r[i] = Above(n, size - i) % 256
    <2>1. size - i + 1 \in 1..size /\ (size - i + 1) - 1 = size - i
        OBVIOUS
    <2> QED
        BY <2>1, <1>2, <1>3
<1>6. \A k \in 0..7 : Above(n, k) \in Int
    <2> SUFFICES ASSUME NEW k \in 0..7 PROVE Above(n, k) \in Int
        OBVIOUS
    <2>1. CASE k \in 0..6
        BY <2>1, AboveStep
    <2>2. CASE k = 7
        <3>1. 6 \in 0..6 /\ 6 + 1 = 7
            OBVIOUS
        <3> QED
            BY <2>2, <3>1, AboveStep
    <2> QED
        BY <2>1, <2>2
<1>7. \A k \in 0..6 : Above(n, k) = Above(n, k + 1) * 256 + (Above(n, k) % 256)
    BY AboveStep, ZenonT(30)
<1>8. \A i \in 1..size : r[i] \in Int
    <2> SUFFICES ASSUME NEW i \in 1..size PROVE r[i] \in Int
        OBVIOUS
    <2>1. size - i \in 0..7
        OBVIOUS
    <2>2. Above(n, size - i) \in Int
        BY <2>1, <1>6
    <2> QED
        BY <2>2, <1>5
<1>9. PICK f : /\ SignedHigh(r) = f[size] /\ f[1] = Signed(r[1])
               /\ \A i \in 2..size : f[i] = f[i - 1] * 256 + r[i]
    <2>1. IsSeq(r) /\ Len(r) # 0 /\ \A i \in 1..Len(r) : r[i] \in Int
        BY <1>3, <1>8
    <2>2. \E f : /\ SignedHigh(r) = f[Len(r)] /\ f[1] = Signed(r[1])
                 /\ \A i \in 2..Len(r) : f[i] = f[i - 1] * 256 + r[i]
        BY <2>1, SignedHighIs
    <2> QED
        BY <2>2, <1>3
<1>10. f[1] = Above(n, size - 1)
    <2>1. r[1] = Above(n, size - 1) % 256
        BY <1>5
    <2> QED
        BY <2>1, <1>9 DEF Signed
<1> DEFINE N == {k \in 0..size - 1 : f[k + 1] = Above(n, size - (k + 1))}
<1>11. 0 \in N
    BY <1>10
<1>12. ASSUME NEW k \in 0..(size - 1) - 1, k \in N PROVE k + 1 \in N
    <2>1. k + 2 \in 2..size /\ (k + 2) - 1 = k + 1 /\ (k + 1) + 1 = k + 2 /\ k + 2 \in 1..size
        OBVIOUS
    <2>2. f[k + 2] = f[k + 1] * 256 + r[k + 2]
        BY <2>1, <1>9
    <2>3. r[k + 2] = Above(n, size - (k + 2)) % 256
        BY <2>1, <1>5
    <2>4. size - (k + 2) \in 0..6 /\ (size - (k + 2)) + 1 = size - (k + 1)
        BY <2>1
    <2>5. Above(n, size - (k + 2)) = Above(n, size - (k + 1)) * 256 + (Above(n, size - (k + 2)) % 256)
        BY <2>4, <1>7
    <2>6. f[k + 1] = Above(n, size - (k + 1))
        BY <1>12
    <2> QED
        BY <2>1, <2>2, <2>3, <2>5, <2>6
<1> HIDE DEF N
<1>13. 0..(size - 1) \subseteq N
    BY <1>11, <1>12, UpTo
<1>14. size - 1 \in N
    BY <1>13
<1>15. f[size] = Above(n, 0)
    BY <1>14 DEF N
<1>16. Above(n, 0) = n
    BY DEF Above, Powers256
<1> QED
    BY <1>4, <1>9, <1>15, <1>16 DEF s

-----------------------------------------------------------------------------
(* Texts.                                                                  *)

\* What the parser reads, by the real type of a column.
LEMMA ParsedText ==
    ASSUME NEW buf, NEW at, NEW col_type, NEW meta, NEW type, type = RealType(col_type, meta)
    PROVE  /\ type \in {1, 2, 3, 8, 9} =>
                  ParseColumnValue(buf, at, col_type, meta).text = <<SignedLow(Slice(buf, at, IntegerSize(type)))>>
           /\ type = 7 => ParseColumnValue(buf, at, col_type, meta).text = <<Low(Slice(buf, at, 4))>>
           /\ type = 4 => ParseColumnValue(buf, at, col_type, meta).text = Slice(buf, at, 4)
           /\ type = 5 => ParseColumnValue(buf, at, col_type, meta).text = Slice(buf, at, 8)
           /\ type = 11 => ParseColumnValue(buf, at, col_type, meta) = Time(buf, at)
           /\ type = 12 => ParseColumnValue(buf, at, col_type, meta) = Datetime(buf, at)
           /\ type \in {10, 14} => ParseColumnValue(buf, at, col_type, meta) = Date(buf, at)
           /\ type = 13 => ParseColumnValue(buf, at, col_type, meta).text = <<buf[at + 1] + 1900>>
           /\ type = 247 => ParseColumnValue(buf, at, col_type, meta) = Enum(buf, at, meta % 256)
           /\ type = 248 => ParseColumnValue(buf, at, col_type, meta).text = Slice(buf, at, meta % 256)
           /\ type = 16 => ParseColumnValue(buf, at, col_type, meta).text
                               = Slice(buf, at, (meta \div 256 + 8 * (meta % 256) + 7) \div 8)
           /\ type = 246 => ParseColumnValue(buf, at, col_type, meta).text
                                = DecimalText(Slice(buf, at, DecimalBinSize(meta \div 256, meta % 256)),
                                              meta \div 256, meta % 256)
<1>1. \A size, text : Value(size, text).text = text
    BY DEF Value
<1>2. \A size : Bytes(buf, at, size).text = Slice(buf, at, size)
    BY <1>1 DEF Bytes
<1>3. Year(buf, at).text = <<buf[at + 1] + 1900>>
    BY <1>1 DEF Year
<1>4. \A precision, decimals : NewDecimal(buf, at, precision, decimals).text
          = DecimalText(Slice(buf, at, DecimalBinSize(precision, decimals)), precision, decimals)
    BY <1>1 DEF NewDecimal
<1>5. IntegerTypes = {1, 2, 9, 3, 8}
    BY TypeCodes DEF IntegerTypes
<1> DEFINE parsed == ParseColumnValue(buf, at, col_type, meta)
           integer == <<SignedLow(Slice(buf, at, IntegerSize(type)))>>
           Integer == Value(IntegerSize(type), integer)
           timestamp == <<Low(Slice(buf, at, 4))>>
           Timestamp == Value(4, timestamp)
           bit == (meta \div 256 + 8 * (meta % 256) + 7) \div 8
           low == meta % 256
           high == meta \div 256
<1>6. parsed = CASE type \in {1, 2, 9, 3, 8} -> Integer
                 [] type = 7 -> Timestamp
                 [] type = 4 -> Bytes(buf, at, 4)
                 [] type = 5 -> Bytes(buf, at, 8)
                 [] type = 12 -> Datetime(buf, at)
                 [] type = 11 -> Time(buf, at)
                 [] type \in {14, 10} -> Date(buf, at)
                 [] type = 13 -> Year(buf, at)
                 [] type = 247 -> Enum(buf, at, low)
                 [] type = 248 -> Bytes(buf, at, low)
                 [] type = 252 -> Prefixed(buf, at, meta)
                 [] type \in {15, 253} -> Prefixed(buf, at, PrefixSize(meta))
                 [] type = 254 -> Prefixed(buf, at, PrefixSize(StringLength(meta)))
                 [] type = 16 -> Bytes(buf, at, bit)
                 [] type = 246 -> NewDecimal(buf, at, high, low)
                 [] type = 17 -> Timestamp2(buf, at, meta)
                 [] type = 18 -> Datetime2(buf, at, meta)
                 [] type = 19 -> Time2(buf, at, meta)
    BY <1>5, TypeCodes DEF ParseColumnValue
<1>7. Integer.text = integer /\ Timestamp.text = timestamp
    BY <1>1
<1> HIDE DEF parsed, Integer, Timestamp, integer, timestamp, bit, low, high
<1>8. type \in {1, 2, 3, 8, 9} => parsed.text = integer
    BY <1>6, <1>7
<1>9. type = 7 => parsed.text = timestamp
    BY <1>6, <1>7
<1>10. type = 4 => parsed.text = Slice(buf, at, 4)
    BY <1>2, <1>6
<1>11. type = 5 => parsed.text = Slice(buf, at, 8)
    BY <1>2, <1>6
<1>12. /\ type \in {10, 14} => parsed = Date(buf, at)
       /\ type = 11 => parsed = Time(buf, at)
       /\ type = 12 => parsed = Datetime(buf, at)
    BY <1>6
<1>13. type = 13 => parsed.text = <<buf[at + 1] + 1900>>
    <2>1. type = 13 => parsed = Year(buf, at)
        BY <1>6
    <2> QED
        BY <2>1, <1>3
<1>14. type = 247 => parsed = Enum(buf, at, low)
    BY <1>6
<1>15. type = 248 => parsed.text = Slice(buf, at, low)
    BY <1>2, <1>6
<1>16. type = 16 => parsed.text = Slice(buf, at, bit)
    BY <1>2, <1>6
<1>17. type = 246 => parsed.text = DecimalText(Slice(buf, at, DecimalBinSize(high, low)), high, low)
    BY <1>4, <1>6
<1> QED
    BY <1>8, <1>9, <1>10, <1>11, <1>12, <1>13, <1>14, <1>15, <1>16, <1>17
       DEF parsed, integer, timestamp, bit, low, high

\* The value with its length in front of it is read as it was written.
LEMMA PrefixedText ==
    ASSUME NEW v, IsSeq(v), NEW size \in 1..4,
           size = 1 => Len(v) < 256, size = 2 => Len(v) < 65536,
           size = 3 => Len(v) < 16777216, size = 4 => Len(v) < 4294967296,
           NEW buf, NEW at, Reads(buf, at, LowBytes(Len(v), size) \o v)
    PROVE  Prefixed(buf, at, size).text = v
<1> DEFINE head == LowBytes(Len(v), size)
<1>1. IsSeq(head) /\ Len(head) = size /\ Len(v) \in Nat
    BY LowBytesIsSeq, SeqFacts
<1>2. Low(head) = Len(v)
    BY <1>1, LowOfLowBytes
<1> HIDE DEF head
<1>3. Reads(buf, at, head) /\ Reads(buf, at + size, v)
    <2>1. Reads(head \o v, 0, head) /\ Reads(head \o v, size, v)
        BY <1>1, ReadsConcat
    <2>2. Reads(buf, at, head \o v)
        BY DEF head
    <2>3. at + 0 = at
        BY <2>2, ReadsFacts
    <2> QED
        BY <2>1, <2>2, <2>3, ReadsPart
<1>4. Slice(buf, at, size) = head /\ Slice(buf, at + size, Len(v)) = v
    BY <1>1, <1>3, ReadsSlice
<1> QED
    BY <1>2, <1>4 DEF Prefixed, Value

\* The unit of a fraction, by its bytes, and the bound of microseconds.
UnitOf(size) == CASE size = 0 -> 1000000 [] size = 1 -> 10000 [] size = 2 -> 100 [] size = 3 -> 1
MicroBound(micro) == micro \in Nat /\ micro <= 999999

\* Microseconds are a whole number of units, which fits into the bytes of the fraction.
LEMMA MicroParts ==
    ASSUME NEW meta \in 0..6, NEW micro \in Micros(meta)
    PROVE  /\ FracSize(meta) \in 0..3 /\ FracUnit(meta) = UnitOf(FracSize(meta))
           /\ MicroBound(micro)
           /\ micro \div FracUnit(meta) \in Nat
           /\ (micro \div FracUnit(meta)) * FracUnit(meta) = micro
<1> DEFINE unit == FracUnit(meta)
           size == FracSize(meta)
           n == micro \div unit
<1>1. /\ size \in 0..3
      /\ size = 0 => unit = 1000000
      /\ size = 1 => unit = 10000
      /\ size = 2 => unit = 100
      /\ size = 3 => unit = 1
    <2>1. /\ FracSize(0) = 0 /\ FracSize(1) = 1 /\ FracSize(2) = 1 /\ FracSize(3) = 2
          /\ FracSize(4) = 2 /\ FracSize(5) = 3 /\ FracSize(6) = 3
        BY DEF FracSize
    <2>2. size \in 0..3
        BY <2>1
    <2>3. unit = Powers10[7 - 2 * size]
        BY DEF FracUnit
    <2>4. Powers10[1] = 1 /\ Powers10[3] = 100 /\ Powers10[5] = 10000 /\ Powers10[7] = 1000000
        BY DEF Powers10
    <2> HIDE DEF unit, size
    <2> QED
        BY <2>2, <2>3, <2>4
<1>2. micro \in Nat /\ micro <= 999999 /\ micro % unit = 0
    <2> HIDE DEF n
    <2>1. micro \in 0..Powers10[7] - 1
        BY Zenon DEF Micros
    <2>2. micro % FracUnit(meta) = 0
        BY Zenon DEF Micros
    <2> HIDE DEF unit, size
    <2>3. micro % unit = 0
        BY <2>2 DEF unit
    <2>4. Powers10[7] = 1000000
        BY DEF Powers10
    <2> DEFINE p == Powers10[7]
    <2>5. p = 1000000 /\ p \in Int
        BY <2>4
    <2>6. micro \in 0..p - 1
        BY <2>1
    <2> HIDE DEF p
    <2>7. p \in Int
        BY <2>5
    <2>8. micro \in Nat /\ micro <= p - 1
        BY <2>6, <2>7
    <2>9. micro \in Nat /\ micro <= 999999
        BY <2>5, <2>8
    <2> QED
        BY <2>3, <2>9
<1> HIDE DEF unit, size
<1>3. n \in Nat /\ n * unit = micro
    <2>1. CASE size = 0
        BY <1>1, <1>2, <2>1
    <2>2. CASE size = 1
        BY <1>1, <1>2, <2>2
    <2>3. CASE size = 2
        BY <1>1, <1>2, <2>3
    <2>4. CASE size = 3
        BY <1>1, <1>2, <2>4
    <2> QED
        BY <1>1, <2>1, <2>2, <2>3, <2>4
<1> QED
    BY <1>1, <1>2, <1>3 DEF unit, size, n, UnitOf, MicroBound

\* A fraction is read as it was written, whether its first byte is taken for a char or not.
LEMMA FractionRead ==
    ASSUME NEW meta \in 0..6, NEW micro \in Micros(meta),
           NEW frac, frac = HighBytes(micro \div FracUnit(meta), FracSize(meta))
    PROVE  /\ FracSize(meta) \in 0..3 /\ IsSeq(frac) /\ Len(frac) = FracSize(meta)
           /\ High(frac) * FracUnit(meta) = micro
           /\ (IF frac = << >> THEN 0 ELSE SignedHigh(frac) * FracUnit(meta)) = micro
<1> DEFINE unit == FracUnit(meta)
           size == FracSize(meta)
           n == micro \div unit
<1>1. /\ size \in 0..3
      /\ size = 0 => unit = 1000000
      /\ size = 1 => unit = 10000
      /\ size = 2 => unit = 100
      /\ size = 3 => unit = 1
    <2>1. size \in 0..3 /\ unit = UnitOf(size)
        BY MicroParts
    <2> HIDE DEF unit, size
    <2> QED
        BY <2>1 DEF UnitOf
<1>2. micro \in Nat /\ micro <= 999999
    BY MicroParts DEF MicroBound
<1>3. n \in Nat /\ n * unit = micro
    BY MicroParts
<1> HIDE DEF unit, size
<1>4. /\ FitsInto(n, size)
      /\ size # 0 => FitsSigned(n, size)
      /\ size = 0 => n = 0
    <2>1. CASE size = 0
        BY <1>1, <1>2, <2>1 DEF FitsInto
    <2>2. CASE size = 1
        BY <1>1, <1>2, <2>2 DEF FitsInto, FitsSigned
    <2>3. CASE size = 2
        BY <1>1, <1>2, <2>3 DEF FitsInto, FitsSigned
    <2>4. CASE size = 3
        BY <1>1, <1>2, <2>4 DEF FitsInto, FitsSigned
    <2> QED
        BY <1>1, <2>1, <2>2, <2>3, <2>4
<1>5. frac = HighBytes(n, size)
    BY DEF unit, size
<1> HIDE DEF n
<1>6. IsSeq(frac) /\ Len(frac) = size
    BY <1>1, <1>5, HighBytesIsSeq
<1>7. High(frac) = n
    <2>1. size \in 0..4
        BY <1>1
    <2> QED
        BY <2>1, <1>3, <1>4, <1>5, HighOfHighBytes
<1>8. (IF frac = << >> THEN 0 ELSE SignedHigh(frac) * unit) = micro
    <2>1. CASE size = 0
        <3>1. frac = << >>
            BY <1>6, <2>1, EmptyIsSeq, SameSeq
        <3>2. n = 0
            BY <1>4, <2>1
        <3>3. micro = 0
            BY <1>1, <1>3, <3>2, <2>1
        <3> QED
            BY <3>1, <3>3
    <2>2. CASE size # 0
        <3>1. size \in 1..3
            BY <1>1, <2>2
        <3>2. SignedHigh(frac) = n
            BY <3>1, <1>3, <1>4, <1>5, SignedOfHighBytes
        <3>3. frac # << >>
            BY <1>6, <2>2, EmptyIsSeq
        <3> QED
            BY <3>2, <3>3, <1>3
    <2> QED
        BY <2>1, <2>2
<1> QED
    BY <1>1, <1>3, <1>6, <1>7, <1>8 DEF unit, size

\* The number that a DATE is packed into gives its parts again.
LEMMA DateParts ==
    ASSUME NEW year, NEW month, NEW day, IsDate(year, month, day),
           NEW n, n = (year * 16 + month) * 32 + day
    PROVE  /\ n \in Nat /\ n < 16777216
           /\ n \div 512 = year /\ (n \div 32) % 16 = month /\ n % 32 = day
<1>1. year \in Nat /\ year <= 9999 /\ month \in Nat /\ month <= 12 /\ day \in Nat /\ day <= 31
    BY DEF IsDate
<1>2. n \in Nat /\ n < 16777216 /\ n % 32 = day /\ n \div 32 = year * 16 + month
    BY <1>1
<1>3. n \div 512 = year
    BY <1>1
<1>4. (year * 16 + month) % 16 = month
    BY <1>1
<1> QED
    BY <1>2, <1>3, <1>4

\* A DATE is taken apart as it was put together.
LEMMA DateRead ==
    ASSUME NEW v, IsSeq(v), Len(v) = 3, IsDate(v[1], v[2], v[3]),
           NEW buf, NEW at, Reads(buf, at, DateBytes(v))
    PROVE  Date(buf, at).text = v
<1> DEFINE n == (v[1] * 16 + v[2]) * 32 + v[3]
<1>1. /\ n \in Nat /\ n < 16777216
      /\ n \div 512 = v[1] /\ (n \div 32) % 16 = v[2] /\ n % 32 = v[3]
    BY DateParts
<1>2. DateBytes(v) = LowBytes(n, 3)
    BY DEF DateBytes
<1> HIDE DEF n
<1>3. Len(LowBytes(n, 3)) = 3
    BY LowBytesIsSeq
<1>4. Slice(buf, at, 3) = LowBytes(n, 3)
    BY <1>2, <1>3, ReadsSlice
<1>5. Low(LowBytes(n, 3)) = n
    BY <1>1, LowOfLowBytes
<1>6. Date(buf, at).text = <<v[1], v[2], v[3]>>
    BY <1>1, <1>4, <1>5 DEF Date, Value
<1>7. v = <<v[1], v[2], v[3]>>
    <2>1. v = [i \in 1..3 |-> v[i]]
        BY SeqFacts
    <2> QED
        BY <2>1
<1> QED
    BY <1>6, <1>7

\* A TIMESTAMP(n) is read with its microseconds.
LEMMA Timestamp2Read ==
    ASSUME NEW v, IsSeq(v), Len(v) = 2, v[1] \in Nat, FitsInto(v[1], 4),
           NEW meta \in 0..6, v[2] \in Micros(meta),
           NEW buf, NEW at, Reads(buf, at, Timestamp2Bytes(v, meta))
    PROVE  Timestamp2(buf, at, meta).text = v
<1> DEFINE high == HighBytes(v[1], 4)
           frac == HighBytes(v[2] \div FracUnit(meta), FracSize(meta))
<1>1. IsSeq(high) /\ Len(high) = 4
    BY HighBytesIsSeq
<1>2. High(high) = v[1]
    BY HighOfHighBytes
<1>3. /\ FracSize(meta) \in 0..3 /\ IsSeq(frac) /\ Len(frac) = FracSize(meta)
      /\ (IF frac = << >> THEN 0 ELSE SignedHigh(frac) * FracUnit(meta)) = v[2]
    BY FractionRead
<1>4. Timestamp2Bytes(v, meta) = high \o frac
    BY DEF Timestamp2Bytes
<1> HIDE DEF high, frac
<1>5. Reads(buf, at, high) /\ Reads(buf, at + 4, frac)
    <2>1. Reads(high \o frac, 0, high) /\ Reads(high \o frac, 4, frac)
        BY <1>1, <1>3, ReadsConcat
    <2>2. at + 0 = at
        BY ReadsFacts
    <2> QED
        BY <2>1, <2>2, <1>4, ReadsPart
<1>6. Slice(buf, at, 4) = high /\ Slice(buf, at + 4, FracSize(meta)) = frac
    BY <1>1, <1>3, <1>5, ReadsSlice
<1>7. Timestamp2(buf, at, meta).text = <<v[1], v[2]>>
    BY <1>2, <1>3, <1>6 DEF Timestamp2, Value
<1>8. v = <<v[1], v[2]>>
    <2>1. v = [i \in 1..2 |-> v[i]]
        BY SeqFacts
    <2> QED
        BY <2>1
<1> QED
    BY <1>7, <1>8

\* The number that a time is packed into gives its parts again.
LEMMA TimeParts ==
    ASSUME NEW hour, NEW minute, NEW second, IsTime(hour, minute, second),
           NEW n, n = hour * 4096 + minute * 64 + second
    PROVE  /\ n \in Nat /\ n <= 3436283 /\ (hour <= 23 => n < 131072)
           /\ n \div 4096 = hour /\ (n \div 4096) % 1024 = hour /\ (n \div 64) % 64 = minute /\ n % 64 = second
<1>1. hour \in Nat /\ hour <= 838 /\ minute \in Nat /\ minute <= 59 /\ second \in Nat /\ second <= 59
    BY DEF IsTime
<1>2. n \in Nat /\ n <= 3436283 /\ (hour <= 23 => n < 131072) /\ n % 64 = second
    BY <1>1
<1>3. n \div 64 = hour * 64 + minute
    BY <1>1
<1>4. n \div 4096 = hour
    BY <1>1
<1>5. (hour * 64 + minute) % 64 = minute
    BY <1>1
<1>6. hour % 1024 = hour
    BY <1>1
<1> QED
    BY <1>2, <1>3, <1>4, <1>5, <1>6

\* What the bytes of a DATETIME(n) are made of.
DateOf(year, month, day) == (year * 13 + month) * 32 + day
DatetimeHigh(ymd, hms) == TimefIntOfs + 2 * ymd + hms \div 65536
DatetimeLow(hms) == hms % 65536
DatetimeIs(high, low, ymd, hms) ==
    /\ high \in Nat /\ FitsInto(high, 3) /\ low \in Nat /\ FitsInto(low, 2)
    /\ (high - TimefIntOfs) \div 2 = ymd
    /\ ((high - TimefIntOfs) % 2) * 65536 + low = hms
DayTime(n) == n \in Nat /\ n < 131072

\* The bytes of a DATETIME(n) are read as what they are made of.
LEMMA DatetimeParts ==
    ASSUME NEW year, NEW month, NEW day, IsDate(year, month, day),
           NEW hms, DayTime(hms),
           NEW ymd, ymd = DateOf(year, month, day),
           NEW high, high = DatetimeHigh(ymd, hms),
           NEW low, low = DatetimeLow(hms)
    PROVE  /\ DatetimeIs(high, low, ymd, hms)
           /\ (ymd \div 32) \div 13 = year /\ (ymd \div 32) % 13 = month /\ ymd % 32 = day
<1>1. year \in Nat /\ year <= 9999 /\ month \in Nat /\ month <= 12 /\ day \in Nat /\ day <= 31
    BY DEF IsDate
<1>2. ymd = (year * 13 + month) * 32 + day
    BY DEF DateOf
<1>3. ymd \in Nat /\ ymd <= 4159999 /\ ymd % 32 = day /\ ymd \div 32 = year * 13 + month
    BY <1>1, <1>2
<1>4. (year * 13 + month) \div 13 = year /\ (year * 13 + month) % 13 = month
    BY <1>1
<1>5. hms \div 65536 \in {0, 1} /\ low \in Nat /\ low < 65536 /\ (hms \div 65536) * 65536 + low = hms
    BY DEF DayTime, DatetimeLow
<1> DEFINE q == hms \div 65536
<1>6. q \in {0, 1} /\ q * 65536 + low = hms
    BY <1>5
<1>7. high = TimefIntOfs + 2 * ymd + q
    BY DEF DatetimeHigh
<1> HIDE DEF q
<1>8. TimefIntOfs = 8388608
    BY DEF TimefIntOfs
<1>9. high - TimefIntOfs = 2 * ymd + q /\ high \in Nat /\ high < 16777216
    BY <1>3, <1>6, <1>7, <1>8
<1>10. (2 * ymd + q) \div 2 = ymd /\ (2 * ymd + q) % 2 = q
    BY <1>3, <1>6
<1>11. FitsInto(high, 3) /\ FitsInto(low, 2)
    BY <1>5, <1>9 DEF FitsInto
<1>12. (ymd \div 32) \div 13 = year /\ (ymd \div 32) % 13 = month /\ ymd % 32 = day
    BY <1>3, <1>4
<1>13. (high - TimefIntOfs) \div 2 = ymd /\ ((high - TimefIntOfs) % 2) * 65536 + low = hms
    BY <1>6, <1>9, <1>10
<1> QED
    BY <1>5, <1>9, <1>11, <1>12, <1>13 DEF DatetimeIs

\* A DATETIME(n) is read with its microseconds.
LEMMA Datetime2Read ==
    ASSUME NEW v, IsSeq(v), Len(v) = 7, IsDate(v[1], v[2], v[3]), IsTime(v[4], v[5], v[6]), v[4] <= 23,
           NEW meta \in 0..6, v[7] \in Micros(meta),
           NEW buf, NEW at, Reads(buf, at, DatetimeBytes(v, meta))
    PROVE  Datetime2(buf, at, meta).text = v
<1> DEFINE ymd == DateOf(v[1], v[2], v[3])
           hms == v[4] * 4096 + v[5] * 64 + v[6]
           A == DatetimeHigh(ymd, hms)
           B == DatetimeLow(hms)
           high == HighBytes(A, 3)
           low == HighBytes(B, 2)
           frac == HighBytes(v[7] \div FracUnit(meta), FracSize(meta))
<1>1. DatetimeBytes(v, meta) = high \o low \o frac
    BY DEF DatetimeBytes, DateOf, DatetimeHigh, DatetimeLow
<1>2. /\ hms \in Nat /\ hms \div 4096 = v[4] /\ (hms \div 64) % 64 = v[5] /\ hms % 64 = v[6]
      /\ DayTime(hms)
    BY TimeParts DEF DayTime
<1> HIDE DEF hms
<1>3. /\ DatetimeIs(A, B, ymd, hms)
      /\ (ymd \div 32) \div 13 = v[1] /\ (ymd \div 32) % 13 = v[2] /\ ymd % 32 = v[3]
    BY <1>2, DatetimeParts
<1> HIDE DEF ymd, A, B
<1>4. /\ IsSeq(high) /\ Len(high) = 3 /\ IsSeq(low) /\ Len(low) = 2
    BY HighBytesIsSeq
<1>5. High(high) = A /\ High(low) = B
    BY <1>3, HighOfHighBytes DEF DatetimeIs
<1>6. /\ FracSize(meta) \in 0..3 /\ IsSeq(frac) /\ Len(frac) = FracSize(meta)
      /\ (IF frac = << >> THEN 0 ELSE SignedHigh(frac) * FracUnit(meta)) = v[7]
    BY FractionRead
<1> HIDE DEF high, low, frac
<1>7. Reads(buf, at, high) /\ Reads(buf, at + 3, low) /\ Reads(buf, at + 5, frac)
    <2> DEFINE both == high \o low
    <2>1. IsSeq(both) /\ Len(both) = 5 /\ Reads(both, 0, high) /\ Reads(both, 3, low)
        <3>1. IsSeq(both) /\ Len(both) = Len(high) + Len(low)
            BY <1>4, ConcatIsSeq
        <3>2. Reads(both, 0, high) /\ Reads(both, Len(high), low)
            BY <1>4, ReadsConcat
        <3> HIDE DEF both
        <3> QED
            BY <1>4, <3>1, <3>2
    <2>2. Reads(buf, at, both \o frac)
        BY <1>1
    <2> HIDE DEF both
    <2>3. Reads(both \o frac, 0, both) /\ Reads(both \o frac, 5, frac)
        BY <2>1, <1>6, ReadsConcat
    <2>4. at + 0 = at
        BY ReadsFacts
    <2>5. Reads(buf, at, both)
        BY <2>2, <2>3, <2>4, ReadsPart
    <2> QED
        BY <2>1, <2>2, <2>3, <2>4, <2>5, ReadsPart
<1>8. Slice(buf, at, 3) = high /\ Slice(buf, at + 3, 2) = low /\ Slice(buf, at + 5, FracSize(meta)) = frac
    BY <1>4, <1>6, <1>7, ReadsSlice
<1>9. Datetime2(buf, at, meta).text = <<v[1], v[2], v[3], v[4], v[5], v[6], v[7]>>
    <2> DEFINE top == A - TimefIntOfs
               fraction == IF frac = << >> THEN 0 ELSE SignedHigh(frac) * FracUnit(meta)
    <2>1. Datetime2(buf, at, meta).text =
              LET d == top \div 2
                  t == (top % 2) * 65536 + B
              IN <<(d \div 32) \div 13, (d \div 32) % 13, d % 32,
                   t \div 4096, (t \div 64) % 64, t % 64, fraction>>
        BY <1>5, <1>8 DEF Datetime2, Value
    <2>2. top \div 2 = ymd /\ (top % 2) * 65536 + B = hms /\ fraction = v[7]
        BY <1>3, <1>6 DEF DatetimeIs
    <2> HIDE DEF top, fraction
    <2> QED
        BY <1>2, <1>3, <2>1, <2>2
<1>10. v = <<v[1], v[2], v[3], v[4], v[5], v[6], v[7]>>
    <2>1. v = [i \in 1..7 |-> v[i]]
        BY SeqFacts
    <2> QED
        BY <2>1
<1> QED
    BY <1>9, <1>10

\* A time as util.cpp packs it, and without its sign.
PackedTime(negative, hms, micro) ==
    IF negative = 0 THEN <<hms, micro>>
    ELSE IF micro = 0 THEN <<-hms, 0>>
    ELSE <<-hms - 1, 16777216 - micro>>
AbsOf(packed) == IF packed[1] >= 0 THEN packed ELSE Packed(-packed[1], -packed[2])

\* The bounds of a packed time.
PackedBounds(hms, micro) == hms \in Nat /\ hms <= 3436283 /\ micro \in Nat /\ micro <= 999999

\* A time loses nothing but its sign.
LEMMA AbsOfPacked ==
    ASSUME NEW negative \in {0, 1}, NEW hms, NEW micro, PackedBounds(hms, micro)
    PROVE  AbsOf(PackedTime(negative, hms, micro)) = <<hms, micro>>
<1>1. hms \in Nat /\ micro \in Nat /\ micro <= 999999
    BY DEF PackedBounds
<1>2. CASE negative = 0
    BY <1>1, <1>2 DEF AbsOf, PackedTime
<1>3. CASE negative = 1 /\ micro = 0
    <2>1. PackedTime(negative, hms, micro) = <<-hms, 0>>
        BY <1>3 DEF PackedTime
    <2>2. Packed(hms, 0) = <<hms, 0>>
        BY <1>1 DEF Packed
    <2>3. -(-hms) = hms
        BY <1>1
    <2>4. -0 = 0
        <3>1. \A n \in Int : n <= 0 /\ n >= 0 => -n = 0
            OBVIOUS
        <3>2. 0 \in Int /\ 0 <= 0 /\ 0 >= 0
            OBVIOUS
        <3> QED
            BY <3>1, <3>2, Zenon
    <2>5. -hms >= 0 => hms = 0 /\ -hms = 0
        BY <1>1
    <2>6. AbsOf(<<-hms, 0>>) = IF -hms >= 0 THEN <<-hms, 0>> ELSE Packed(-(-hms), -0)
        BY DEF AbsOf
    <2> QED
        BY <1>3, <2>1, <2>2, <2>3, <2>5, <2>6, <2>4
<1>4. CASE negative = 1 /\ micro # 0
    <2> DEFINE rest == 16777216 - micro
    <2>1. PackedTime(negative, hms, micro) = <<-hms - 1, rest>>
        BY <1>4 DEF PackedTime
    <2>2. -(-hms - 1) = hms + 1 /\ ~(-hms - 1 >= 0)
        BY <1>1
    <2>3. (-rest) \div 16777216 = -1 /\ (-rest) % 16777216 = micro /\ -rest \in Int
        BY <1>1, <1>4
    <2> HIDE DEF rest
    <2>4. Packed(hms + 1, -rest) = <<hms, micro>>
        BY <1>1, <2>3 DEF Packed
    <2>5. AbsOf(<<-hms - 1, rest>>) = Packed(-(-hms - 1), -rest)
        BY <2>2 DEF AbsOf
    <2> QED
        BY <2>1, <2>2, <2>4, <2>5
<1> QED
    BY <1>2, <1>3, <1>4

\* The numbers that a TIME(n) is written as: hours to seconds, and the fraction.
IsFraction(frac, micro, unit, size) ==
    /\ size \in {0, 2, 3}
    /\ unit = IF size = 0 THEN 1000000 ELSE IF size = 2 THEN 100 ELSE 1
    /\ frac \in Nat /\ frac * unit = micro
BaseOf(size) == IF size = 0 THEN 1 ELSE IF size = 2 THEN 65536 ELSE 16777216
Borrow(negative, frac) == IF negative = 1 /\ frac # 0 THEN 1 ELSE 0
TimeHigh(negative, hms, frac) ==
    TimefIntOfs + (IF negative = 1 THEN -hms - Borrow(negative, frac) ELSE hms)
TimeLow(negative, frac, size) ==
    IF Borrow(negative, frac) = 1 THEN BaseOf(size) - frac ELSE frac
Unpacked(high, low, unit, size) ==
    IF size = 2 /\ high - TimefIntOfs < 0 /\ low # 0
    THEN Packed(high - TimefIntOfs + 1, (low - BaseOf(size)) * unit)
    ELSE Packed(high - TimefIntOfs, low * unit)

\* They fit into their bytes, and give the packed time.
LEMMA TimeUnpacked ==
    ASSUME NEW negative \in {0, 1}, NEW hms, NEW micro, PackedBounds(hms, micro),
           NEW unit, NEW size, NEW frac, IsFraction(frac, micro, unit, size),
           NEW high, high = TimeHigh(negative, hms, frac),
           NEW low, low = TimeLow(negative, frac, size)
    PROVE  /\ high \in Nat /\ FitsInto(high, 3) /\ low \in Nat /\ FitsInto(low, size)
           /\ Unpacked(high, low, unit, size) = PackedTime(negative, hms, micro)
<1>1. hms \in Nat /\ hms <= 3436283 /\ micro \in Nat /\ micro <= 999999
    BY DEF PackedBounds
<1>2. /\ size \in {0, 2, 3} /\ frac \in Nat /\ frac * unit = micro
      /\ size = 0 => unit = 1000000 /\ BaseOf(size) = 1
      /\ size = 2 => unit = 100 /\ BaseOf(size) = 65536
      /\ size = 3 => unit = 1 /\ BaseOf(size) = 16777216
    BY DEF IsFraction, BaseOf
<1>3. TimefIntOfs = 8388608
    BY DEF TimefIntOfs
<1>4. /\ size = 0 => frac = 0 /\ micro = 0
      /\ size = 2 => frac <= 9999 /\ (frac = 0 <=> micro = 0)
      /\ size = 3 => frac = micro
    BY <1>1, <1>2
<1>5. \A int \in Int : Packed(int, micro) = <<int, micro>>
    BY <1>1 DEF Packed
<1>6. CASE negative = 0 \/ frac = 0
    <2> DEFINE int == IF negative = 1 THEN -hms ELSE hms
    <2>1. Borrow(negative, frac) = 0
        BY <1>6 DEF Borrow
    <2>2. low = frac
        BY <2>1 DEF TimeLow
    <2>3. int \in Int /\ int >= -3436283 /\ int <= 3436283
        BY <1>1
    <2>4. -hms - 0 = -hms
        BY <1>1
    <2>5. high = TimefIntOfs + int
        BY <2>1, <2>4 DEF TimeHigh
    <2>6. int < 0 => negative = 1
        BY <1>1
    <2>7. negative = 0 => int = hms
        OBVIOUS
    <2>8. negative = 1 => int = -hms
        OBVIOUS
    <2> HIDE DEF int
    <2>9. high \in Nat /\ high < 16777216 /\ high - TimefIntOfs = int
        BY <1>3, <2>3, <2>5
    <2>10. FitsInto(high, 3)
        BY <2>9 DEF FitsInto
    <2>11. FitsInto(low, size)
        BY <1>1, <1>2, <1>4, <2>2 DEF FitsInto
    <2>12. Unpacked(high, low, unit, size) = <<int, micro>>
        <3>1. int < 0 => frac = 0
            BY <1>6, <2>6
        <3>2. ~(size = 2 /\ high - TimefIntOfs < 0 /\ low # 0)
            BY <2>2, <2>9, <3>1
        <3>3. low * unit = micro
            BY <1>2, <2>2
        <3> QED
            BY <1>5, <2>3, <2>9, <3>2, <3>3 DEF Unpacked
    <2>13. PackedTime(negative, hms, micro) = <<int, micro>>
        <3>1. CASE negative = 0
            BY <2>7, <3>1 DEF PackedTime
        <3>2. CASE negative = 1
            <4>1. micro = 0
                BY <1>2, <1>4, <1>6, <3>2
            <4> QED
                BY <2>8, <3>2, <4>1 DEF PackedTime
        <3> QED
            BY <3>1, <3>2
    <2> QED
        BY <1>2, <2>2, <2>9, <2>10, <2>11, <2>12, <2>13
<1>7. CASE negative = 1 /\ frac # 0
    <2> DEFINE rest == 16777216 - micro
    <2>1. Borrow(negative, frac) = 1
        BY <1>7 DEF Borrow
    <2>2. low = BaseOf(size) - frac
        BY <2>1 DEF TimeLow
    <2>3. high = TimefIntOfs + (-hms - 1)
        BY <1>7, <2>1 DEF TimeHigh
    <2>4. high \in Nat /\ high < 16777216 /\ high - TimefIntOfs = -hms - 1 /\ high - TimefIntOfs < 0
        BY <1>1, <1>3, <2>3
    <2>5. FitsInto(high, 3)
        BY <2>4 DEF FitsInto
    <2>6. PackedTime(negative, hms, micro) = <<-hms - 1, rest>>
        <3>1. micro # 0
            BY <1>2, <1>4, <1>7
        <3> QED
            BY <1>7, <3>1 DEF PackedTime
    <2>7. CASE size = 2
        <3>1. low = 65536 - frac /\ low \in Nat /\ low < 65536 /\ low # 0
            BY <1>2, <1>4, <1>7, <2>2, <2>7
        <3>2. FitsInto(low, size)
            BY <2>7, <3>1 DEF FitsInto
        <3>3. (low - BaseOf(size)) * unit = -micro
            BY <1>2, <2>7, <3>1
        <3>4. Unpacked(high, low, unit, size) = Packed(high - TimefIntOfs + 1, (low - BaseOf(size)) * unit)
            BY <2>4, <2>7, <3>1 DEF Unpacked
        <3>5. (-micro) \div 16777216 = -1 /\ (-micro) % 16777216 = rest
            BY <1>1, <1>2, <1>4, <1>7, <2>7
        <3>6. (-hms - 1) + 1 = -hms /\ -hms + (-1) = -hms - 1
            BY <1>1
        <3> HIDE DEF rest
        <3>7. Packed(-hms, -micro) = <<-hms - 1, rest>>
            BY <3>5, <3>6 DEF Packed
        <3>8. Unpacked(high, low, unit, size) = Packed(-hms, -micro)
            BY <2>4, <3>3, <3>4, <3>6
        <3> QED
            BY <2>4, <2>5, <2>6, <3>1, <3>2, <3>7, <3>8
    <2>8. CASE size = 3
        <3>1. frac = micro /\ low = rest /\ low \in Nat /\ low < 16777216
            BY <1>1, <1>2, <1>4, <1>7, <2>2, <2>8
        <3>2. FitsInto(low, size)
            BY <2>8, <3>1 DEF FitsInto
        <3>3. low * unit = rest /\ rest \in Int
            BY <1>2, <2>8, <3>1
        <3>4. Unpacked(high, low, unit, size) = Packed(high - TimefIntOfs, low * unit)
            BY <2>8 DEF Unpacked
        <3>5. rest \div 16777216 = 0 /\ rest % 16777216 = rest
            BY <3>1
        <3>6. (-hms - 1) + 0 = -hms - 1
            BY <1>1
        <3> HIDE DEF rest
        <3>7. Packed(-hms - 1, rest) = <<-hms - 1, rest>>
            BY <3>5, <3>6 DEF Packed
        <3>8. Unpacked(high, low, unit, size) = Packed(-hms - 1, rest)
            BY <2>4, <3>3, <3>4
        <3> QED
            BY <2>4, <2>5, <2>6, <3>1, <3>2, <3>7, <3>8
    <2> QED
        BY <1>2, <1>4, <1>7, <2>7, <2>8
<1> QED
    BY <1>6, <1>7

\* A TIME(n) is read with its microseconds, and without its sign.
LEMMA Time2Read ==
    ASSUME NEW v, IsSeq(v), Len(v) = 5, v[1] \in {0, 1}, IsTime(v[2], v[3], v[4]),
           NEW meta \in {0, 3, 4, 5, 6}, v[5] \in Micros(meta),
           NEW buf, NEW at, Reads(buf, at, TimeBytes(v, meta))
    PROVE  Time2(buf, at, meta).text = <<0, v[2], v[3], v[4], v[5]>>
<1> DEFINE hms == v[2] * 4096 + v[3] * 64 + v[4]
           unit == FracUnit(meta)
           size == FracSize(meta)
           n == v[5] \div unit
           A == TimeHigh(v[1], hms, n)
           B == TimeLow(v[1], n, size)
           high == HighBytes(A, 3)
           frac == HighBytes(B, size)
           bytes == high \o frac
           packed == TimePacked(bytes, meta)
           abs == AbsOf(packed)
<1>1. /\ size = IF meta = 0 THEN 0 ELSE IF meta \in {3, 4} THEN 2 ELSE 3
      /\ Powers256[size + 1] = BaseOf(size)
      /\ size = 2 <=> meta \in {3, 4}
    <2>1. FracSize(0) = 0 /\ FracSize(3) = 2 /\ FracSize(4) = 2 /\ FracSize(5) = 3 /\ FracSize(6) = 3
        BY DEF FracSize
    <2>2. size = IF meta = 0 THEN 0 ELSE IF meta \in {3, 4} THEN 2 ELSE 3
        BY <2>1
    <2>3. Powers256[1] = 1 /\ Powers256[3] = 65536 /\ Powers256[4] = 16777216
        BY DEF Powers256
    <2> HIDE DEF size
    <2> QED
        BY <2>2, <2>3 DEF BaseOf
<1>2. size \in {0, 2, 3}
    <2> HIDE DEF size
    <2> QED
        BY <1>1
<1>3. meta \in 0..6 /\ unit = UnitOf(size) /\ n \in Nat /\ n * unit = v[5] /\ MicroBound(v[5])
    <2>1. meta \in 0..6
        OBVIOUS
    <2> HIDE DEF unit, size, n
    <2> QED
        BY <2>1, MicroParts DEF unit, size, n
<1>4. /\ hms \in Nat /\ (hms \div 4096) % 1024 = v[2] /\ (hms \div 64) % 64 = v[3] /\ hms % 64 = v[4]
      /\ hms <= 3436283
    BY TimeParts
<1>5. TimeBytes(v, meta) = bytes
    <2> DEFINE borrow == IF v[1] = 1 /\ n # 0 THEN 1 ELSE 0
    <2>1. TimeBytes(v, meta) =
              HighBytes(TimefIntOfs + (IF v[1] = 1 THEN -hms - borrow ELSE hms), 3)
              \o HighBytes(IF borrow = 1 THEN Powers256[size + 1] - n ELSE n, size)
        BY DEF TimeBytes
    <2>2. borrow = Borrow(v[1], n)
        BY DEF Borrow
    <2> HIDE DEF borrow, hms, n, size
    <2> QED
        BY <1>1, <2>1, <2>2 DEF TimeHigh, TimeLow
<1> HIDE DEF hms, n, size, unit
<1>6. IsFraction(n, v[5], unit, size) /\ PackedBounds(hms, v[5])
    <2>1. unit = IF size = 0 THEN 1000000 ELSE IF size = 2 THEN 100 ELSE 1
        BY <1>2, <1>3 DEF UnitOf
    <2>2. IsFraction(n, v[5], unit, size)
        BY <1>2, <1>3, <2>1 DEF IsFraction
    <2>3. PackedBounds(hms, v[5])
        BY <1>3, <1>4 DEF PackedBounds, MicroBound
    <2> QED
        BY <2>2, <2>3
<1>7. /\ A \in Nat /\ FitsInto(A, 3) /\ B \in Nat /\ FitsInto(B, size)
      /\ Unpacked(A, B, unit, size) = PackedTime(v[1], hms, v[5])
    <2> HIDE DEF A, B
    <2> QED
        BY <1>6, TimeUnpacked DEF A, B
<1> HIDE DEF A, B
<1>8. size \in Nat /\ size \in 0..4 /\ 3 \in 0..4
    BY <1>2
<1>9. IsSeq(high) /\ Len(high) = 3 /\ IsSeq(frac) /\ Len(frac) = size
    BY <1>8, HighBytesIsSeq
<1>10. High(high) = A /\ High(frac) = B
    BY <1>7, <1>8, HighOfHighBytes
<1> HIDE DEF high, frac
<1>11. IsSeq(bytes) /\ Len(bytes) = 3 + size /\ Reads(bytes, 0, high) /\ Reads(bytes, 3, frac)
    <2>1. IsSeq(bytes) /\ Len(bytes) = Len(high) + Len(frac)
        BY <1>9, ConcatIsSeq
    <2>2. Reads(bytes, 0, high) /\ Reads(bytes, Len(high), frac)
        BY <1>9, ReadsConcat
    <2> HIDE DEF bytes
    <2> QED
        BY <1>9, <2>1, <2>2
<1> HIDE DEF bytes
<1>12. Slice(buf, at, 3 + size) = bytes
    <2>1. Reads(buf, at, bytes)
        BY <1>5
    <2>2. Slice(buf, at, Len(bytes)) = bytes
        BY <2>1, ReadsSlice
    <2> QED
        BY <2>2, <1>11
<1>13. SubSeq(bytes, 1, 3) = high /\ SubSeq(bytes, 4, Len(bytes)) = frac
    <2>1. Slice(bytes, 0, Len(high)) = high /\ Slice(bytes, 3, Len(frac)) = frac
        BY <1>11, ReadsSlice
    <2>2. 0 + 1 = 1 /\ 0 + 3 = 3 /\ 3 + 1 = 4
        OBVIOUS
    <2> QED
        BY <1>9, <1>11, <2>1, <2>2 DEF Slice
<1>14. packed = PackedTime(v[1], hms, v[5])
    <2> DEFINE int == A - TimefIntOfs
    <2>1. meta \notin {1, 2} /\ (meta \in 1..4 <=> size = 2)
        BY <1>1
    <2>2. packed = IF meta \in 1..4 /\ int < 0 /\ B # 0
                   THEN Packed(int + 1, (B - Powers256[size + 1]) * unit)
                   ELSE Packed(int, B * unit)
        BY <1>10, <1>13, <2>1 DEF TimePacked, size, unit
    <2>3. Unpacked(A, B, unit, size) = IF size = 2 /\ int < 0 /\ B # 0
                                       THEN Packed(int + 1, (B - BaseOf(size)) * unit)
                                       ELSE Packed(int, B * unit)
        BY DEF Unpacked
    <2> HIDE DEF int, packed
    <2> QED
        BY <1>1, <1>7, <2>1, <2>2, <2>3
<1> HIDE DEF packed
<1>15. abs = <<hms, v[5]>>
    BY <1>6, <1>14, AbsOfPacked
<1>16. abs = IF packed[1] >= 0 THEN packed ELSE Packed(-packed[1], -packed[2])
    BY DEF AbsOf
<1>17. Time2(buf, at, meta).text = <<0, (abs[1] \div 4096) % 1024, (abs[1] \div 64) % 64, abs[1] % 64, abs[2]>>
    BY <1>12, <1>16 DEF Time2, Value, packed, size
<1> HIDE DEF abs
<1> QED
    BY <1>4, <1>15, <1>17

\* Three numbers, and what they are put behind.
LEMMA ThreeBehind ==
    ASSUME NEW s, IsSeq(s), NEW a, NEW b, NEW c, NEW t, t = <<a, b, c>>, NEW text, text = s \o t
    PROVE  /\ IsSeq(t) /\ Len(t) = 3 /\ Len(text) = Len(s) + 3
           /\ \A i \in 1..Len(s) : text[i] = s[i]
           /\ text[Len(s) + 1] = a /\ text[Len(s) + 2] = b /\ text[Len(s) + 3] = c
<1>1. t[1] = a /\ t[2] = b /\ t[3] = c /\ t = [i \in 1..3 |-> t[i]]
    OBVIOUS
<1>2. IsSeq(t) /\ Len(t) = 3
    BY <1>1, FunctionIsSeq
<1>3. /\ Len(text) = Len(s) + Len(t)
      /\ \A i \in 1..Len(s) : text[i] = s[i]
      /\ \A i \in 1..Len(t) : text[Len(s) + i] = t[i]
    <2>1. IsSeq(s) /\ IsSeq(t)
        BY <1>2
    <2>2. /\ Len(s \o t) = Len(s) + Len(t)
          /\ \A i \in 1..Len(s) : (s \o t)[i] = s[i]
          /\ \A i \in 1..Len(t) : (s \o t)[Len(s) + i] = t[i]
        BY <2>1, ConcatIsSeq
    <2> QED
        BY Zenon, <2>2
<1>4. 1 \in 1..Len(t) /\ 2 \in 1..Len(t) /\ 3 \in 1..Len(t)
    BY <1>2
<1>5. text[Len(s) + 1] = a /\ text[Len(s) + 2] = b /\ text[Len(s) + 3] = c
    BY Zenon, <1>1, <1>3, <1>4
<1> QED
    BY <1>2, <1>3, <1>5

\* A number of parts with two digits each gives all of them again but the last.
Pairs(a, b, c) == (a * 100 + b) * 100 + c

LEMMA PartsAre ==
    ASSUME NEW a \in Nat, NEW b \in 0..99, NEW c \in 0..99
    PROVE  Parts(Pairs(a, b, c)) = <<a, b, Pairs(a, b, c) \div 100>>
<1> DEFINE n == Pairs(a, b, c)
<1>1. n \div 10000 = a /\ n % 10000 = b * 100 + c
    BY DEF Pairs
<1>2. (b * 100 + c) \div 100 = b
    OBVIOUS
<1> HIDE DEF n
<1>3. Parts(n) = <<a, b, n \div 100>>
    BY <1>1, <1>2 DEF Parts
<1> QED
    BY <1>3 DEF n

\* The old TIME is read but for its second, and a negative one as some other time.
LEMMA OldTimeRead ==
    ASSUME NEW v, IsSeq(v), Len(v) = 4, v[1] \in {0, 1}, IsTime(v[2], v[3], v[4]),
           NEW buf, NEW at, Reads(buf, at, OldTimeBytes(v))
    PROVE  RightBut(Time(buf, at).text, v, IF v[1] = 1 THEN 1..4 ELSE {4})
<1> DEFINE hms == Pairs(v[2], v[3], v[4])
           n == IF v[1] = 1 THEN -hms ELSE hms
           read == Low(Slice(buf, at, 3))
<1>1. /\ v[2] \in Nat /\ v[2] <= 838 /\ v[3] \in Nat /\ v[3] <= 59 /\ v[4] \in Nat /\ v[4] <= 59
    BY DEF IsTime
<1>2. hms \in Nat /\ hms < 16777216
    BY <1>1 DEF Pairs
<1>3. OldTimeBytes(v) = LowBytes(n, 3)
    BY DEF OldTimeBytes, Pairs
<1>4. Parts(hms) = <<v[2], v[3], hms \div 100>>
    <2>1. v[2] \in Nat /\ v[3] \in 0..99 /\ v[4] \in 0..99
        BY <1>1
    <2> QED
        BY <2>1, PartsAre
<1> HIDE DEF hms
<1>5. Slice(buf, at, 3) = LowBytes(n, 3)
    <2>1. Reads(buf, at, LowBytes(n, 3))
        BY <1>3
    <2> HIDE DEF n
    <2>2. Len(LowBytes(n, 3)) = 3
        BY LowBytesIsSeq
    <2> QED
        BY <2>1, <2>2, ReadsSlice
<1> DEFINE text == Time(buf, at).text
<1>6. /\ Len(text) = 4 /\ text[1] = 0
      /\ text[2] = read \div 10000 /\ text[3] = (read % 10000) \div 100
    <2> DEFINE one == <<0>>
               parts == Parts(read)
               a == read \div 10000
               b == (read % 10000) \div 100
               c == read \div 100
    <2>1. text = one \o parts
        BY DEF Time, Value
    <2>2. parts = <<a, b, c>>
        BY DEF Parts
    <2>3. IsSeq(one) /\ Len(one) = 1 /\ one[1] = 0
        BY SingleIsSeq
    <2> HIDE DEF text, one, parts, a, b, c
    <2>4. /\ Len(text) = Len(one) + 3 /\ \A i \in 1..Len(one) : text[i] = one[i]
          /\ text[Len(one) + 1] = a /\ text[Len(one) + 2] = b
        <3>1. IsSeq(one)
            BY <2>3
        <3> QED
            BY <2>1, <2>2, <3>1, ThreeBehind
    <2> QED
        BY <2>3, <2>4 DEF a, b
<1>7. Len(text) = 4 /\ DOMAIN v = 1..4
    BY <1>6, SeqFacts
<1>8. CASE v[1] = 1
    BY <1>7, <1>8 DEF RightBut
<1>9. CASE v[1] = 0
    <2>1. read = hms
        BY <1>2, <1>5, <1>9, LowOfLowBytes
    <2>2. Parts(read) = <<read \div 10000, (read % 10000) \div 100, read \div 100>>
        BY DEF Parts
    <2>3. text[1] = 0 /\ text[2] = v[2] /\ text[3] = v[3]
        BY <1>4, <1>6, <2>1, <2>2
    <2> HIDE DEF text
    <2>4. \A p \in 1..4 \ {4} : text[p] = v[p]
        BY <1>9, <2>3
    <2> QED
        BY <1>7, <1>9, <2>4 DEF RightBut, text
<1> QED
    BY <1>8, <1>9

\* The long division, by its rests.
AreRests(r, bytes) ==
    r = [i \in 0..8 |-> IF i = 0 THEN 0 ELSE (r[i - 1] * 256 + bytes[i]) % 1000000]
QuotientOf(r, bytes) == [i \in 1..8 |-> (r[i - 1] * 256 + bytes[i]) \div 1000000]

\* There are such rests, one after the other.
LEMMA RestsExist ==
    ASSUME NEW bytes
    PROVE  \E r : AreRests(r, bytes)
<1> DEFINE Next0(rest, i) == (rest * 256 + bytes[i]) % 1000000
<1> HIDE DEF Next0
<1>1. PICK a : a = Next0(0, 1)
    OBVIOUS
<1>2. PICK b : b = Next0(a, 2)
    OBVIOUS
<1>3. PICK c : c = Next0(b, 3)
    OBVIOUS
<1>4. PICK d : d = Next0(c, 4)
    OBVIOUS
<1>5. PICK e : e = Next0(d, 5)
    OBVIOUS
<1>6. PICK f : f = Next0(e, 6)
    OBVIOUS
<1>7. PICK g : g = Next0(f, 7)
    OBVIOUS
<1>8. PICK h : h = Next0(g, 8)
    OBVIOUS
<1> DEFINE t == <<a, b, c, d, e, f, g, h>>
           r == [i \in 0..8 |-> IF i = 0 THEN 0 ELSE t[i]]
<1>9. /\ r[0] = 0 /\ r[1] = a /\ r[2] = b /\ r[3] = c /\ r[4] = d
      /\ r[5] = e /\ r[6] = f /\ r[7] = g /\ r[8] = h
    OBVIOUS
<1>10. r = [i \in 0..8 |-> r[i]]
    OBVIOUS
<1> HIDE DEF r
<1>11. /\ r[1] = Next0(r[0], 1) /\ r[2] = Next0(r[1], 2) /\ r[3] = Next0(r[2], 3) /\ r[4] = Next0(r[3], 4)
       /\ r[5] = Next0(r[4], 5) /\ r[6] = Next0(r[5], 6) /\ r[7] = Next0(r[6], 7) /\ r[8] = Next0(r[7], 8)
    BY <1>1, <1>2, <1>3, <1>4, <1>5, <1>6, <1>7, <1>8, <1>9
<1>12. ASSUME NEW i \in 0..8 PROVE r[i] = IF i = 0 THEN 0 ELSE Next0(r[i - 1], i)
    <2>1. i \in {0, 1, 2, 3, 4, 5, 6, 7, 8}
        OBVIOUS
    <2>2. /\ 1 - 1 = 0 /\ 2 - 1 = 1 /\ 3 - 1 = 2 /\ 4 - 1 = 3
          /\ 5 - 1 = 4 /\ 6 - 1 = 5 /\ 7 - 1 = 6 /\ 8 - 1 = 7
        OBVIOUS
    <2> QED
        BY <1>9, <1>11, <2>1, <2>2
<1>13. r = [i \in 0..8 |-> IF i = 0 THEN 0 ELSE Next0(r[i - 1], i)]
    BY <1>10, <1>12
<1> QED
    BY <1>13 DEF AreRests, Next0

\* The division, which is defined by CHOOSE, is by such rests.
LEMMA DivisionIs ==
    ASSUME NEW bytes
    PROVE  \E r : /\ AreRests(r, bytes)
                  /\ Division(bytes) = [quotient |-> QuotientOf(r, bytes), rest |-> r[8]]
<1> DEFINE P(r) == r = [i \in 0..8 |-> IF i = 0 THEN 0 ELSE (r[i - 1] * 256 + bytes[i]) % 1000000]
<1>1. PICK r : r = CHOOSE s : P(s)
    OBVIOUS
<1>2. Division(bytes) = [quotient |-> [i \in 1..8 |-> (r[i - 1] * 256 + bytes[i]) \div 1000000], rest |-> r[8]]
    <2>1. Rests(bytes) = r
        BY <1>1 DEF Rests
    <2> QED
        BY <2>1 DEF Division
<1>3. P(r)
    <2>1. \E s : P(s)
        BY RestsExist DEF AreRests
    <2> HIDE DEF P
    <2> QED
        BY <1>1, <2>1
<1>4. AreRests(r, bytes)
    BY <1>3 DEF AreRests
<1>5. Division(bytes) = [quotient |-> QuotientOf(r, bytes), rest |-> r[8]]
    BY <1>2 DEF QuotientOf
<1> QED
    BY <1>4, <1>5

\* Two bytes of a number, and what is above them.
LowHalf(n) == n % 65536
HighHalf(n) == n \div 65536

LEMMA HalfIs ==
    ASSUME NEW n \in Nat
    PROVE  LowHalf(n) \in Nat /\ LowHalf(n) < 65536 /\ HighHalf(n) \in Nat /\ n = 65536 * HighHalf(n) + LowHalf(n)
BY SMT DEF LowHalf, HighHalf

\* The three parts that a DATETIME is added up from, date * 1000000 + time.
AreHalves(date, time, low, middle, high) ==
    /\ date \in Nat /\ date < 100000000 /\ time \in Nat /\ time < 1000000
    /\ low = LowHalf(date) * 16960 + time
    /\ middle = HighHalf(low) + LowHalf(date) * 15 + HighHalf(date) * 16960
    /\ high = HighHalf(middle) + HighHalf(date) * 15

\* They are the halves of the sum.
LEMMA HalvesAre ==
    ASSUME NEW date, NEW time, NEW low, NEW middle, NEW high, AreHalves(date, time, low, middle, high)
    PROVE  /\ low \in Nat /\ middle \in Nat /\ high \in Nat /\ high < 65536
           /\ high * 4294967296 + LowHalf(middle) * 65536 + LowHalf(low) = 1000000 * date + time
<1>1. /\ date \in Nat /\ date < 100000000 /\ time \in Nat /\ time < 1000000
      /\ low = LowHalf(date) * 16960 + time
      /\ middle = HighHalf(low) + LowHalf(date) * 15 + HighHalf(date) * 16960
      /\ high = HighHalf(middle) + HighHalf(date) * 15
    BY SMT DEF AreHalves
<1>2. /\ LowHalf(date) \in Nat /\ LowHalf(date) < 65536 /\ HighHalf(date) \in Nat
      /\ date = 65536 * HighHalf(date) + LowHalf(date)
    BY SMT, <1>1, HalfIs
<1>3. low \in Nat /\ low < 1200000000
    BY SMT, <1>1, <1>2
<1>4. /\ LowHalf(low) \in Nat /\ LowHalf(low) < 65536 /\ HighHalf(low) \in Nat
      /\ low = 65536 * HighHalf(low) + LowHalf(low)
    BY SMT, <1>3, HalfIs
<1>5. middle \in Nat /\ middle < 30000000
    BY SMT, <1>1, <1>2, <1>3, <1>4
<1>6. /\ LowHalf(middle) \in Nat /\ LowHalf(middle) < 65536 /\ HighHalf(middle) \in Nat
      /\ middle = 65536 * HighHalf(middle) + LowHalf(middle)
    BY SMT, <1>5, HalfIs
<1>7. high \in Nat /\ high < 65536
    BY SMT, <1>1, <1>2, <1>5, <1>6
<1> DEFINE ld == LowHalf(date)
           hd == HighHalf(date)
           ll == LowHalf(low)
           hl == HighHalf(low)
           lm == LowHalf(middle)
           hm == HighHalf(middle)
<1>8. /\ ld \in Nat /\ hd \in Nat /\ ll \in Nat /\ hl \in Nat /\ lm \in Nat /\ hm \in Nat
      /\ date = 65536 * hd + ld /\ low = 65536 * hl + ll /\ middle = 65536 * hm + lm
      /\ low = ld * 16960 + time /\ middle = hl + ld * 15 + hd * 16960 /\ high = hm + hd * 15
    BY SMT, <1>1, <1>2, <1>4, <1>6
<1> HIDE DEF ld, hd, ll, hl, lm, hm
<1>9. high * 4294967296 + lm * 65536 + ll = 1000000 * date + time
    <2>1. high * 4294967296 = 4294967296 * hm + 64424509440 * hd
        BY SMT, <1>7, <1>8
    <2>2. lm = hl + ld * 15 + hd * 16960 - 65536 * hm
        BY SMT, <1>5, <1>8
    <2>3. ll = ld * 16960 + time - 65536 * hl
        BY SMT, <1>1, <1>3, <1>8
    <2>4. lm * 65536 = 65536 * hl + 983040 * ld + 1111490560 * hd - 4294967296 * hm
        BY SMT, <1>8, <2>2
    <2>5. high * 4294967296 + lm * 65536 + ll = 65536000000 * hd + 1000000 * ld + time
        BY SMT, <1>1, <1>7, <1>8, <2>1, <2>3, <2>4
    <2>6. 1000000 * date = 65536000000 * hd + 1000000 * ld
        BY SMT, <1>1, <1>8
    <2> QED
        BY SMT, <1>1, <1>8, <2>5, <2>6
<1> QED
    BY SMT, <1>3, <1>5, <1>7, <1>9 DEF lm, ll

\* A number with its four lowest bytes, the highest first.
Joined(c, d, e, f, g) == (((c * 256 + d) * 256 + e) * 256 + f) * 256 + g

\* The eight bytes of a number below 2^48, the highest first.
AreEight(bytes, n) ==
    /\ bytes[1] = 0 /\ bytes[2] = 0 /\ \A i \in 3..8 : bytes[i] \in 0..255
    /\ Joined(bytes[3] * 256 + bytes[4], bytes[5], bytes[6], bytes[7], bytes[8]) = n

\* A number divided by 1000000.
Times(n) == n \div 1000000
Remainder(n) == n % 1000000

LEMMA RemainderIs ==
    ASSUME NEW n \in Nat
    PROVE  /\ Remainder(n) \in Nat /\ Remainder(n) < 1000000 /\ Times(n) \in Nat
           /\ n = 1000000 * Times(n) + Remainder(n)
           /\ n < 1000000 => Remainder(n) = n
BY SMT DEF Times, Remainder

\* One step of the division.
IsStep(rest, byte, quotient, next) ==
    /\ rest \in Nat /\ byte \in 0..255
    /\ quotient = Times(rest * 256 + byte) /\ next = Remainder(rest * 256 + byte)

LEMMA StepIs ==
    ASSUME NEW rest, NEW byte, NEW quotient, NEW next, IsStep(rest, byte, quotient, next)
    PROVE  /\ next \in Nat /\ next < 1000000 /\ quotient \in Nat
           /\ rest * 256 + byte = 1000000 * quotient + next
           /\ rest * 256 + byte < 1000000 => next = rest * 256 + byte
<1> DEFINE n == rest * 256 + byte
<1>1. n \in Nat /\ quotient = Times(n) /\ next = Remainder(n)
    BY SMT DEF IsStep
<1> HIDE DEF n
<1>2. /\ Remainder(n) \in Nat /\ Remainder(n) < 1000000 /\ Times(n) \in Nat
      /\ n = 1000000 * Times(n) + Remainder(n)
      /\ n < 1000000 => Remainder(n) = n
    BY SMT, <1>1, RemainderIs
<1> QED
    BY SMT, <1>1, <1>2 DEF n

IsSum(n, date, time) ==
    date \in Nat /\ time \in Nat /\ time < 1000000 /\ n = 1000000 * date + time

\* The long division gives the quotient, whose last four bytes are all of it, and the rest.
LEMMA Divided ==
    ASSUME NEW date, NEW time, NEW n, IsSum(n, date, time), NEW bytes, AreEight(bytes, n)
    PROVE  High(SubSeq(Division(bytes).quotient, 5, 8)) = date /\ Division(bytes).rest = time
<1>1. PICK r : /\ AreRests(r, bytes)
               /\ Division(bytes) = [quotient |-> QuotientOf(r, bytes), rest |-> r[8]]
    BY DivisionIs
<1> DEFINE q == QuotientOf(r, bytes)
<1>2. \A i \in 1..8 : q[i] = Times(r[i - 1] * 256 + bytes[i])
    BY SMT DEF QuotientOf, Times
<1>3. q = [i \in 1..8 |-> q[i]]
    BY SMT DEF QuotientOf
<1> HIDE DEF q
<1>4. r[0] = 0 /\ \A i \in 1..8 : r[i] = Remainder(r[i - 1] * 256 + bytes[i])
    <2> DEFINE g == [i \in 0..8 |-> IF i = 0 THEN 0 ELSE Remainder(r[i - 1] * 256 + bytes[i])]
    <2>1. r = g
        BY SMT, <1>1 DEF AreRests, Remainder
    <2>2. g[0] = 0 /\ \A i \in 1..8 : g[i] = Remainder(r[i - 1] * 256 + bytes[i])
        BY SMT
    <2> HIDE DEF g
    <2> QED
        BY SMT, <2>1, <2>2
<1>5. /\ bytes[1] = 0 /\ bytes[2] = 0 /\ bytes[3] \in 0..255 /\ bytes[4] \in 0..255
      /\ bytes[5] \in 0..255 /\ bytes[6] \in 0..255 /\ bytes[7] \in 0..255 /\ bytes[8] \in 0..255
    BY SMT DEF AreEight
<1>6. /\ r[1] = Remainder(r[0] * 256 + bytes[1]) /\ r[2] = Remainder(r[1] * 256 + bytes[2])
      /\ r[3] = Remainder(r[2] * 256 + bytes[3]) /\ r[4] = Remainder(r[3] * 256 + bytes[4])
      /\ r[5] = Remainder(r[4] * 256 + bytes[5]) /\ r[6] = Remainder(r[5] * 256 + bytes[6])
      /\ r[7] = Remainder(r[6] * 256 + bytes[7]) /\ r[8] = Remainder(r[7] * 256 + bytes[8])
    BY SMT, <1>4
<1>7. /\ q[5] = Times(r[4] * 256 + bytes[5]) /\ q[6] = Times(r[5] * 256 + bytes[6])
      /\ q[7] = Times(r[6] * 256 + bytes[7]) /\ q[8] = Times(r[7] * 256 + bytes[8])
    BY SMT, <1>2
<1>8. r[4] = bytes[3] * 256 + bytes[4] /\ r[4] \in Nat
    <2>1. r[1] = 0
        <3>1. IsStep(r[0], bytes[1], Times(r[0] * 256 + bytes[1]), r[1])
            BY SMT, <1>4, <1>5, <1>6 DEF IsStep
        <3>2. r[0] * 256 + bytes[1] = 0 /\ r[0] * 256 + bytes[1] < 1000000
            BY SMT, <1>4, <1>5
        <3>3. r[1] = r[0] * 256 + bytes[1]
            BY SMT, <3>1, <3>2, StepIs
        <3> QED
            BY SMT, <3>2, <3>3
    <2>2. r[2] = 0
        <3>1. IsStep(r[1], bytes[2], Times(r[1] * 256 + bytes[2]), r[2])
            BY SMT, <1>5, <1>6, <2>1 DEF IsStep
        <3>2. r[1] * 256 + bytes[2] = 0 /\ r[1] * 256 + bytes[2] < 1000000
            BY SMT, <1>5, <2>1
        <3>3. r[2] = r[1] * 256 + bytes[2]
            BY SMT, <3>1, <3>2, StepIs
        <3> QED
            BY SMT, <3>2, <3>3
    <2>3. r[3] = bytes[3]
        <3>1. IsStep(r[2], bytes[3], Times(r[2] * 256 + bytes[3]), r[3])
            BY SMT, <1>5, <1>6, <2>2 DEF IsStep
        <3>2. r[2] * 256 + bytes[3] = bytes[3] /\ bytes[3] < 1000000
            BY SMT, <1>5, <2>2
        <3> QED
            BY SMT, <3>1, <3>2, StepIs
    <2>4. IsStep(r[3], bytes[4], Times(r[3] * 256 + bytes[4]), r[4])
        BY SMT, <1>5, <1>6, <2>3 DEF IsStep
    <2>5. r[3] * 256 + bytes[4] < 1000000
        <3> DEFINE a == bytes[3]
                   b == bytes[4]
        <3>1. a \in 0..255 /\ b \in 0..255
            BY SMT, <1>5
        <3> HIDE DEF a, b
        <3>2. a * 256 + b < 1000000
            BY SMT, <3>1
        <3> QED
            BY SMT, <2>3, <3>2 DEF a, b
    <2>6. r[4] = r[3] * 256 + bytes[4] /\ r[4] \in Nat
        BY SMT, <2>4, <2>5, StepIs
    <2> QED
        BY SMT, <2>3, <2>6
<1>9. r[5] \in Nat /\ q[5] \in Nat /\ r[4] * 256 + bytes[5] = 1000000 * q[5] + r[5]
    <2>1. IsStep(r[4], bytes[5], q[5], r[5])
        BY SMT, <1>5, <1>6, <1>7, <1>8 DEF IsStep
    <2> QED
        BY SMT, <2>1, StepIs
<1>10. r[6] \in Nat /\ q[6] \in Nat /\ r[5] * 256 + bytes[6] = 1000000 * q[6] + r[6]
    <2>1. IsStep(r[5], bytes[6], q[6], r[6])
        BY SMT, <1>5, <1>6, <1>7, <1>9 DEF IsStep
    <2> QED
        BY SMT, <2>1, StepIs
<1>11. r[7] \in Nat /\ q[7] \in Nat /\ r[6] * 256 + bytes[7] = 1000000 * q[7] + r[7]
    <2>1. IsStep(r[6], bytes[7], q[7], r[7])
        BY SMT, <1>5, <1>6, <1>7, <1>10 DEF IsStep
    <2> QED
        BY SMT, <2>1, StepIs
<1>12. /\ r[8] \in Nat /\ r[8] < 1000000 /\ q[8] \in Nat /\ r[7] * 256 + bytes[8] = 1000000 * q[8] + r[8]
    <2>1. IsStep(r[7], bytes[8], q[8], r[8])
        BY SMT, <1>5, <1>6, <1>7, <1>11 DEF IsStep
    <2> QED
        BY SMT, <2>1, StepIs
<1> DEFINE quotient == ((q[5] * 256 + q[6]) * 256 + q[7]) * 256 + q[8]
<1>13. quotient = date /\ r[8] = time
    <2> DEFINE rest == r[4]
               e == bytes[5]
               f == bytes[6]
               g == bytes[7]
               h == bytes[8]
               i == q[5]
               j == q[6]
               k == q[7]
               l == q[8]
               a == r[5]
               b == r[6]
               c == r[7]
               d == r[8]
    <2>1. /\ rest \in Nat /\ e \in Nat /\ f \in Nat /\ g \in Nat /\ h \in Nat
          /\ i \in Nat /\ j \in Nat /\ k \in Nat /\ l \in Nat
          /\ a \in Nat /\ b \in Nat /\ c \in Nat /\ d \in Nat /\ d < 1000000
        <3>1. e \in 0..255 /\ f \in 0..255 /\ g \in 0..255 /\ h \in 0..255
            BY <1>5
        <3>2. rest \in Nat /\ i \in Nat /\ j \in Nat /\ k \in Nat /\ a \in Nat /\ b \in Nat /\ c \in Nat
            BY SMT, <1>8, <1>9, <1>10, <1>11
        <3>3. l \in Nat /\ d \in Nat /\ d < 1000000
            BY SMT, <1>12
        <3> HIDE DEF rest, e, f, g, h, i, j, k, l, a, b, c, d
        <3>4. e \in Nat /\ f \in Nat /\ g \in Nat /\ h \in Nat
            BY <3>1
        <3> QED
            BY SMT, <3>2, <3>3, <3>4
    <2>2. /\ rest * 256 + e = 1000000 * i + a /\ a * 256 + f = 1000000 * j + b
          /\ b * 256 + g = 1000000 * k + c /\ c * 256 + h = 1000000 * l + d
        BY SMT, <1>9, <1>10, <1>11, <1>12
    <2>3. (((rest * 256 + e) * 256 + f) * 256 + g) * 256 + h = n
        BY SMT, <1>8 DEF AreEight, Joined
    <2>4. date \in Nat /\ time \in Nat /\ time < 1000000 /\ n = 1000000 * date + time
        BY SMT DEF IsSum
    <2>5. quotient = ((i * 256 + j) * 256 + k) * 256 + l
        OBVIOUS
    <2> HIDE DEF rest, e, f, g, h, i, j, k, l, a, b, c, d, quotient
    <2>6. (rest * 256 + e) * 256 + f = 1000000 * (i * 256 + j) + b
        BY SMT, <2>1, <2>2
    <2>7. ((rest * 256 + e) * 256 + f) * 256 + g = 1000000 * ((i * 256 + j) * 256 + k) + c
        BY SMT, <2>1, <2>2, <2>6
    <2>8. n = 1000000 * quotient + d /\ quotient \in Nat
        BY SMT, <2>1, <2>2, <2>3, <2>5, <2>7
    <2>9. quotient = date /\ d = time
        BY SMT, <2>1, <2>4, <2>8
    <2> QED
        BY SMT, <2>9 DEF d
<1> HIDE DEF quotient
<1> DEFINE s == SubSeq(q, 5, 8)
<1>14. s = [i \in 1..4 |-> q[i + 4]]
    BY SMT, <1>3
<1>15. IsSeq(s) /\ Len(s) = 4 /\ s[1] = q[5] /\ s[2] = q[6] /\ s[3] = q[7] /\ s[4] = q[8]
    <2>1. s[1] = q[5] /\ s[2] = q[6] /\ s[3] = q[7] /\ s[4] = q[8]
        BY SMT, <1>14
    <2>2. s = [i \in 1..4 |-> s[i]]
        BY SMT, <1>14
    <2> HIDE DEF s
    <2> QED
        BY <2>1, <2>2, FunctionIsSeq
<1> HIDE DEF s
<1>16. High(s) = quotient
    <2>1. \A i \in 1..Len(s) : s[i] \in Int
        <3>1. s[1] \in Int /\ s[2] \in Int /\ s[3] \in Int /\ s[4] \in Int
            BY SMT, <1>9, <1>10, <1>11, <1>12, <1>15
        <3>2. \A i \in 1..Len(s) : i \in {1, 2, 3, 4}
            BY SMT, <1>15
        <3> QED
            BY SMT, <3>1, <3>2
    <2>2. High(s) = ((s[1] * 256 + s[2]) * 256 + s[3]) * 256 + s[4]
        <3>1. IsSeq(s) /\ Len(s) = 4
            BY <1>15
        <3>2. Len(s) \in 1..4
            BY <3>1
        <3> HIDE DEF quotient
        <3> QED
            BY <2>1, <3>1, <3>2, HighOfFour
    <2> QED
        BY SMT, <1>15, <2>2 DEF quotient
<1> QED
    BY SMT, <1>1, <1>13, <1>16 DEF q, s

\* The bytes of the parts.
LEMMA TwoLow ==
    ASSUME NEW n \in Nat, NEW s, s = LowBytes(n, 2)
    PROVE  /\ IsSeq(s) /\ Len(s) = 2 /\ s[1] \in 0..255 /\ s[2] \in 0..255
           /\ s[2] * 256 + s[1] = LowHalf(n)
<1>1. s[1] = Above(n, 0) % 256 /\ s[2] = Above(n, 1) % 256
    BY DEF LowBytes
<1>2. Above(n, 0) = n /\ Above(n, 1) = n \div 256
    BY DEF Above, Powers256
<1>3. s[1] = n % 256 /\ s[2] = (n \div 256) % 256
    BY <1>1, <1>2
<1>4. s[1] \in 0..255 /\ s[2] \in 0..255 /\ s[2] * 256 + s[1] = LowHalf(n)
    BY SMT, <1>3 DEF LowHalf
<1> QED
    BY <1>4, LowBytesIsSeq

IsShort(n) == n \in Nat /\ n < 65536

LEMMA FourLow ==
    ASSUME NEW n, IsShort(n), NEW s, s = LowBytes(n, 4)
    PROVE  /\ IsSeq(s) /\ Len(s) = 4 /\ s[1] \in 0..255 /\ s[2] \in 0..255
           /\ s[2] * 256 + s[1] = n /\ s[3] = 0 /\ s[4] = 0
<1>1. s[1] = Above(n, 0) % 256 /\ s[2] = Above(n, 1) % 256 /\ s[3] = Above(n, 2) % 256 /\ s[4] = Above(n, 3) % 256
    BY DEF LowBytes
<1>2. Above(n, 0) = n /\ Above(n, 1) = n \div 256 /\ Above(n, 2) = 0 /\ Above(n, 3) = 0
    BY SMT DEF Above, Powers256, IsShort
<1>3. s[1] = n % 256 /\ s[2] = (n \div 256) % 256 /\ s[3] = 0 /\ s[4] = 0
    BY <1>1, <1>2
<1>4. n \div 256 \in Nat /\ n \div 256 < 256
    BY SMT DEF IsShort
<1>5. s[2] = n \div 256
    BY SMT, <1>3, <1>4
<1>6. s[1] \in 0..255 /\ s[2] \in 0..255 /\ s[2] * 256 + s[1] = n
    BY SMT, <1>3, <1>4, <1>5 DEF IsShort
<1>7. IsSeq(LowBytes(n, 4)) /\ Len(LowBytes(n, 4)) = 4
    BY LowBytesIsSeq
<1>8. IsSeq(s) /\ Len(s) = 4
    BY SMT, <1>7
<1> QED
    BY SMT, <1>3, <1>6, <1>8

\* The bytes of a DATETIME, the highest first, are those of the sum.
LEMMA OldDatetimeIs ==
    ASSUME NEW date, NEW time, NEW low, NEW middle, NEW high, AreHalves(date, time, low, middle, high),
           NEW n, IsSum(n, date, time)
    PROVE  AreEight(Reverse(LowBytes(low, 2) \o LowBytes(middle, 2) \o LowBytes(high, 4)), n)
<1> DEFINE x == LowBytes(low, 2)
           y == LowBytes(middle, 2)
           z == LowBytes(high, 4)
           xy == x \o y
           s == xy \o z
           t == Reverse(s)
<1>1. /\ low \in Nat /\ middle \in Nat /\ high \in Nat /\ high < 65536
      /\ high * 4294967296 + LowHalf(middle) * 65536 + LowHalf(low) = 1000000 * date + time
    BY SMT, HalvesAre
<1>2. IsSeq(x) /\ Len(x) = 2 /\ x[1] \in 0..255 /\ x[2] \in 0..255 /\ x[2] * 256 + x[1] = LowHalf(low)
    BY SMT, <1>1, TwoLow
<1>3. IsSeq(y) /\ Len(y) = 2 /\ y[1] \in 0..255 /\ y[2] \in 0..255 /\ y[2] * 256 + y[1] = LowHalf(middle)
    BY SMT, <1>1, TwoLow
<1>4. /\ IsSeq(z) /\ Len(z) = 4 /\ z[1] \in 0..255 /\ z[2] \in 0..255
      /\ z[2] * 256 + z[1] = high /\ z[3] = 0 /\ z[4] = 0
    <2>1. IsShort(high)
        BY SMT, <1>1 DEF IsShort
    <2> QED
        BY <2>1, FourLow
<1> HIDE DEF x, y, z
<1>5. IsSeq(xy) /\ Len(xy) = 4 /\ xy[1] = x[1] /\ xy[2] = x[2] /\ xy[3] = y[1] /\ xy[4] = y[2]
    <2>1. IsSeq(x) /\ IsSeq(y)
        BY <1>2, <1>3
    <2>2. /\ IsSeq(x \o y) /\ Len(x \o y) = Len(x) + Len(y)
          /\ \A i \in 1..Len(x) : (x \o y)[i] = x[i]
          /\ \A i \in 1..Len(y) : (x \o y)[Len(x) + i] = y[i]
        BY <2>1, ConcatIsSeq
    <2> HIDE DEF xy
    <2>3. /\ IsSeq(xy) /\ Len(xy) = 2 + 2
          /\ \A i \in 1..2 : xy[i] = x[i]
          /\ \A i \in 1..2 : xy[2 + i] = y[i]
        BY <1>2, <1>3, <2>2 DEF xy
    <2>4. xy[2 + 1] = y[1] /\ xy[2 + 2] = y[2] /\ xy[1] = x[1] /\ xy[2] = x[2]
        BY <2>3
    <2> QED
        BY <2>3, <2>4
<1> HIDE DEF xy
<1>6. /\ IsSeq(s) /\ Len(s) = 8 /\ s[1] = xy[1] /\ s[2] = xy[2] /\ s[3] = xy[3] /\ s[4] = xy[4]
      /\ s[5] = z[1] /\ s[6] = z[2] /\ s[7] = z[3] /\ s[8] = z[4]
    <2>1. IsSeq(xy) /\ IsSeq(z)
        BY <1>4, <1>5
    <2>2. /\ IsSeq(xy \o z) /\ Len(xy \o z) = Len(xy) + Len(z)
          /\ \A i \in 1..Len(xy) : (xy \o z)[i] = xy[i]
          /\ \A i \in 1..Len(z) : (xy \o z)[Len(xy) + i] = z[i]
        BY <2>1, ConcatIsSeq
    <2> HIDE DEF s
    <2>3. /\ IsSeq(s) /\ Len(s) = 4 + 4
          /\ \A i \in 1..4 : s[i] = xy[i]
          /\ \A i \in 1..4 : s[4 + i] = z[i]
        BY <1>4, <1>5, <2>2 DEF s
    <2>4. s[4 + 1] = z[1] /\ s[4 + 2] = z[2] /\ s[4 + 3] = z[3] /\ s[4 + 4] = z[4]
        BY <2>3
    <2> QED
        BY <2>3, <2>4
<1> HIDE DEF s
<1>7. /\ t[1] = s[8] /\ t[2] = s[7] /\ t[3] = s[6] /\ t[4] = s[5]
      /\ t[5] = s[4] /\ t[6] = s[3] /\ t[7] = s[2] /\ t[8] = s[1]
    <2>1. \A i \in 1..8 : t[i] = s[8 - i + 1]
        <3>1. IsSeq(s) /\ Len(s) = 8
            BY <1>6
        <3>2. IsSeq(s)
            BY <3>1
        <3>3. \A i \in 1..Len(s) : t[i] = s[Len(s) - i + 1]
            BY <3>2, ReverseIsSeq
        <3> HIDE DEF t
        <3> QED
            BY <3>1, <3>3
    <2> HIDE DEF t
    <2> QED
        BY <2>1
<1> HIDE DEF t
<1>8. /\ t[1] = 0 /\ t[2] = 0 /\ t[3] = z[2] /\ t[4] = z[1]
      /\ t[5] = y[2] /\ t[6] = y[1] /\ t[7] = x[2] /\ t[8] = x[1]
    BY <1>4, <1>5, <1>6, <1>7
<1>9. /\ t[3] \in 0..255 /\ t[4] \in 0..255 /\ t[5] \in 0..255 /\ t[6] \in 0..255
      /\ t[7] \in 0..255 /\ t[8] \in 0..255
    BY <1>2, <1>3, <1>4, <1>8
<1>10. t[3] * 256 + t[4] = high /\ t[5] * 256 + t[6] = LowHalf(middle) /\ t[7] * 256 + t[8] = LowHalf(low)
    BY <1>2, <1>3, <1>4, <1>8
<1>11. Joined(t[3] * 256 + t[4], t[5], t[6], t[7], t[8]) = n
    <2>1. t[5] \in Nat /\ t[6] \in Nat /\ t[7] \in Nat /\ t[8] \in Nat
        BY <1>9
    <2>2. Joined(high, t[5], t[6], t[7], t[8])
              = high * 4294967296 + (t[5] * 256 + t[6]) * 65536 + (t[7] * 256 + t[8])
        BY SMT, <1>1, <2>1 DEF Joined
    <2> QED
        BY SMT, <1>1, <1>10, <2>2 DEF IsSum
<1>12. \A i \in 3..8 : t[i] \in 0..255
    <2>1. \A i \in 3..8 : i \in {3, 4, 5, 6, 7, 8}
        OBVIOUS
    <2> QED
        BY <1>9, <2>1
<1>13. AreEight(t, n)
    BY SMT, <1>8, <1>11, <1>12 DEF AreEight, IsSum
<1> QED
    BY <1>13 DEF t, s, xy, x, y, z

\* A date and a time of the day as such numbers.
ArePairs(n, a, b, c) == a \in Nat /\ b \in 0..99 /\ c \in 0..99 /\ n = Pairs(a, b, c)

LEMMA DateBound ==
    ASSUME NEW n, NEW a, NEW b, NEW c, ArePairs(n, a, b, c), a <= 9999
    PROVE  n \in Nat /\ n < 100000000
BY SMT DEF ArePairs, Pairs

LEMMA TimeBound ==
    ASSUME NEW n, NEW a, NEW b, NEW c, ArePairs(n, a, b, c), a <= 23
    PROVE  n \in Nat /\ n < 1000000
BY SMT DEF ArePairs, Pairs

LEMMA PartsBut ==
    ASSUME NEW n, NEW a, NEW b, NEW c, ArePairs(n, a, b, c)
    PROVE  Parts(n) = <<a, b, n \div 100>>
BY PartsAre DEF ArePairs

\* A DATETIME is read but for its day and its second.
LEMMA DatetimeRead ==
    ASSUME NEW v, IsSeq(v), Len(v) = 6, IsDate(v[1], v[2], v[3]), IsTime(v[4], v[5], v[6]), v[4] <= 23,
           NEW buf, NEW at, Reads(buf, at, OldDatetimeBytes(v))
    PROVE  RightBut(Datetime(buf, at).text, v, {3, 6})
<1> DEFINE date == Pairs(v[1], v[2], v[3])
           time == Pairs(v[4], v[5], v[6])
           low == LowHalf(date) * 16960 + time
           middle == HighHalf(low) + LowHalf(date) * 15 + HighHalf(date) * 16960
           high == HighHalf(middle) + HighHalf(date) * 15
           bytes == OldDatetimeBytes(v)
           t == Reverse(bytes)
           ll == Division(t)
           text == Datetime(buf, at).text
<1>1. /\ ArePairs(date, v[1], v[2], v[3]) /\ v[1] <= 9999
      /\ ArePairs(time, v[4], v[5], v[6]) /\ v[4] <= 23
    BY DEF IsDate, IsTime, ArePairs
<1>2. bytes = LowBytes(low, 2) \o LowBytes(middle, 2) \o LowBytes(high, 4)
    BY DEF OldDatetimeBytes, Pairs, LowHalf, HighHalf
<1>3. Slice(buf, at, 8) = bytes
    <2> HIDE DEF bytes
    <2>1. Reads(buf, at, bytes)
        BY DEF bytes
    <2>2. Len(bytes) = 8
        BY OldDatetimeIsSeq DEF bytes
    <2> QED
        BY <2>1, <2>2, ReadsSlice
<1> HIDE DEF bytes
<1> HIDE DEF date, time
<1>4. date \in Nat /\ date < 100000000 /\ time \in Nat /\ time < 1000000
    BY SMT, <1>1, DateBound, TimeBound
<1>5. Parts(date) = <<v[1], v[2], date \div 100>> /\ Parts(time) = <<v[4], v[5], time \div 100>>
    BY <1>1, PartsBut
<1>6. AreHalves(date, time, low, middle, high)
    BY SMT, <1>4 DEF AreHalves
<1> HIDE DEF low, middle, high
<1>7. PICK n : IsSum(n, date, time)
    BY SMT, <1>4 DEF IsSum
<1>8. AreEight(t, n)
    BY <1>2, <1>6, <1>7, OldDatetimeIs
<1> HIDE DEF t
<1>9. High(SubSeq(ll.quotient, 5, 8)) = date /\ ll.rest = time
    BY SMT, <1>7, <1>8, Divided
<1>10. text = Parts(High(SubSeq(ll.quotient, 5, 8))) \o Parts(ll.rest)
    BY <1>3 DEF Datetime, Value, t
<1> HIDE DEF ll, text
<1>11. text = Parts(date) \o Parts(time)
    BY <1>9, <1>10
<1>12. Len(text) = 6 /\ text[1] = v[1] /\ text[2] = v[2] /\ text[4] = v[4] /\ text[5] = v[5]
    <2> DEFINE s == Parts(date)
               b == Parts(time)
               c == time \div 100
    <2>1. s[1] = v[1] /\ s[2] = v[2] /\ s = [i \in 1..3 |-> s[i]]
        BY <1>5
    <2>2. b = <<v[4], v[5], c>> /\ text = s \o b
        BY <1>5, <1>11
    <2> HIDE DEF s, b, c
    <2>3. IsSeq(s) /\ Len(s) = 3
        BY <2>1, FunctionIsSeq
    <2>4. IsSeq(s)
        BY <2>3
    <2>5. /\ Len(text) = Len(s) + 3 /\ \A i \in 1..Len(s) : text[i] = s[i]
          /\ text[Len(s) + 1] = v[4] /\ text[Len(s) + 2] = v[5]
        BY <2>2, <2>4, ThreeBehind
    <2> QED
        BY <2>1, <2>3, <2>5
<1>13. \A p \in 1..6 \ {3, 6} : p \in {1, 2, 4, 5}
    OBVIOUS
<1>14. DOMAIN v = 1..6
    BY SeqFacts
<1>15. RightBut(text, v, {3, 6})
    BY <1>12, <1>13, <1>14 DEF RightBut
<1> QED
    BY <1>15 DEF text

\* What a value is, by the real type of its column.
LEMMA StorableIs ==
    ASSUME NEW column, NEW v, Storable(column, v), NEW type, type = RealType(column.type, column.meta),
           NEW high, high = column.meta \div 256, NEW low, low = column.meta % 256
    PROVE  /\ IsSeq(v)
           /\ type \in {1, 2, 3, 8, 9} =>
                  Len(v) = 1 /\ v[1] \in Int /\ Above(v[1], IntegerSize(type) - 1) \in -128..255
           /\ type = 247 => Len(v) = 1 /\ v[1] \in Nat /\ Above(v[1], low) = 0
           /\ type = 13 => Len(v) = 1 /\ v[1] \in {0} \cup 1901..2155
           /\ type \in {10, 14} => Len(v) = 3 /\ IsDate(v[1], v[2], v[3])
           /\ type = 11 => Len(v) = 4 /\ v[1] \in {0, 1} /\ IsTime(v[2], v[3], v[4])
           /\ type = 12 => /\ Len(v) = 6 /\ IsDate(v[1], v[2], v[3]) /\ IsTime(v[4], v[5], v[6])
                           /\ v[4] <= 23
           /\ type = 7 => Len(v) = 1 /\ IsMoment(v[1])
           /\ type = 17 => Len(v) = 2 /\ IsMoment(v[1]) /\ v[2] \in Micros(column.meta)
           /\ type = 18 => /\ Len(v) = 7 /\ IsDate(v[1], v[2], v[3]) /\ IsTime(v[4], v[5], v[6])
                           /\ v[4] <= 23 /\ v[7] \in Micros(column.meta)
           /\ type = 19 => /\ Len(v) = 5 /\ v[1] \in {0, 1} /\ IsTime(v[2], v[3], v[4])
                           /\ v[5] \in Micros(column.meta)
           /\ type = 246 => v[1] \in {0, 1} /\ \A i \in 2..Len(v) : v[i] \in 0..9
           /\ type = 4 => Len(v) = 4
           /\ type = 5 => Len(v) = 8
           /\ type = 248 => Len(v) = low
           /\ type = 16 => Len(v) = (high + 8 * low + 7) \div 8
           /\ type = 246 => Len(v) = 1 + high
           /\ type \in {252, 255, 15, 254} => Fits(column, v)
<1>1. IntegerTypes = {1, 2, 9, 3, 8}
    BY TypeCodes DEF IntegerTypes
<1>2. InRange(column, v) /\ IsSeq(v)
    BY DEF Storable
<1>3. /\ type = 4 => Len(v) = 4
      /\ type = 5 => Len(v) = 8
      /\ type = 248 => Len(v) = low
      /\ type = 16 => Len(v) = (high + 8 * low + 7) \div 8
      /\ type = 246 => Len(v) = 1 + high
      /\ type \in {252, 255, 15, 254} => Fits(column, v)
    BY TypeCodes DEF Storable
<1>4. /\ type \in {1, 2, 3, 8, 9} =>
             Len(v) = 1 /\ v[1] \in Int /\ Above(v[1], IntegerSize(type) - 1) \in -128..255
      /\ type = 247 => Len(v) = 1 /\ v[1] \in Nat /\ Above(v[1], low) = 0
      /\ type = 13 => Len(v) = 1 /\ v[1] \in {0} \cup 1901..2155
    BY <1>1, <1>2, TypeCodes DEF InRange
<1>5. /\ type \in {10, 14} => Len(v) = 3 /\ IsDate(v[1], v[2], v[3])
      /\ type = 7 => Len(v) = 1 /\ IsMoment(v[1])
      /\ type = 17 => Len(v) = 2 /\ IsMoment(v[1]) /\ v[2] \in Micros(column.meta)
      /\ type = 18 => /\ Len(v) = 7 /\ IsDate(v[1], v[2], v[3]) /\ IsTime(v[4], v[5], v[6])
                      /\ v[4] <= 23 /\ v[7] \in Micros(column.meta)
    BY <1>2, TypeCodes DEF InRange
<1>6. /\ type = 11 => Len(v) = 4 /\ v[1] \in {0, 1} /\ IsTime(v[2], v[3], v[4])
      /\ type = 12 => /\ Len(v) = 6 /\ IsDate(v[1], v[2], v[3]) /\ IsTime(v[4], v[5], v[6])
                      /\ v[4] <= 23
      /\ type = 19 => /\ Len(v) = 5 /\ v[1] \in {0, 1} /\ IsTime(v[2], v[3], v[4])
                      /\ v[5] \in Micros(column.meta)
      /\ type = 246 => v[1] \in {0, 1} /\ \A i \in 2..Len(v) : v[i] \in 0..9
    BY <1>2, TypeCodes DEF InRange
<1> QED
    BY <1>2, <1>3, <1>4, <1>5, <1>6

\* A number alone.
LEMMA OneNumber ==
    ASSUME NEW v, IsSeq(v), Len(v) = 1
    PROVE  v = <<v[1]>>
<1>1. v = [i \in 1..1 |-> v[i]]
    BY SeqFacts
<1> QED
    BY <1>1

\* An integer is read unless it is in the upper half of the unsigned ones.
LEMMA IntegerRead ==
    ASSUME NEW v, IsSeq(v), Len(v) = 1, v[1] \in Int,
           NEW size \in 1..8, Above(v[1], size - 1) \in -128..255, ~(Above(v[1], size - 1) > 127),
           NEW buf, NEW at, Reads(buf, at, LowBytes(v[1], size))
    PROVE  <<SignedLow(Slice(buf, at, size))>> = v
<1>1. Above(v[1], size - 1) \in -128..127
    OBVIOUS
<1>2. SignedLow(LowBytes(v[1], size)) = v[1]
    BY <1>1, SignedLowOfLowBytes
<1>3. Len(LowBytes(v[1], size)) = size
    BY LowBytesIsSeq
<1>4. Slice(buf, at, size) = LowBytes(v[1], size)
    BY <1>3, ReadsSlice
<1> QED
    BY <1>2, <1>4, OneNumber

\* An ENUM is read, unless it is one of a byte, and of more than 127.
LEMMA EnumRead ==
    ASSUME NEW v, IsSeq(v), Len(v) = 1, v[1] \in Nat,
           NEW size \in 1..2, Above(v[1], size) = 0, ~(size = 1 /\ v[1] > 127),
           NEW buf, NEW at, Reads(buf, at, LowBytes(v[1], size))
    PROVE  Enum(buf, at, size).text = v
<1>1. (size = 1 => v[1] < 128) /\ (size = 2 => v[1] < 65536)
    <2>1. Above(v[1], 1) = v[1] \div 256 /\ Above(v[1], 2) = v[1] \div 65536
        BY DEF Above, Powers256
    <2> QED
        BY <2>1
<1>2. IsSeq(LowBytes(v[1], size)) /\ Len(LowBytes(v[1], size)) = size
    BY LowBytesIsSeq
<1>3. CASE size = 1
    <2>1. LowBytes(v[1], 1)[1] = Above(v[1], 0) % 256
        BY DEF LowBytes
    <2>2. Above(v[1], 0) = v[1] \div 1
        BY DEF Above, Powers256
    <2>3. LowBytes(v[1], 1)[1] = v[1]
        BY <1>1, <1>3, <2>1, <2>2
    <2>4. buf[at + 1] = LowBytes(v[1], 1)[1]
        BY <1>2, <1>3, ReadsAt
    <2>5. Signed(v[1]) = v[1]
        BY <1>1, <1>3 DEF Signed
    <2>6. Enum(buf, at, size).text = <<Signed(buf[at + 1])>>
        BY <1>3 DEF Enum, Value
    <2> QED
        BY <2>3, <2>4, <2>5, <2>6, OneNumber
<1>4. CASE size = 2
    <2>1. Low(LowBytes(v[1], 2)) = v[1]
        BY <1>1, <1>4, LowOfLowBytes
    <2>2. Slice(buf, at, 2) = LowBytes(v[1], 2)
        BY <1>2, <1>4, ReadsSlice
    <2>3. Enum(buf, at, size).text = <<Low(Slice(buf, at, 2))>>
        BY <1>4 DEF Enum, Value
    <2> QED
        BY <2>1, <2>2, <2>3, OneNumber
<1> QED
    BY <1>3, <1>4

\* A TIMESTAMP is read.
LEMMA TimestampRead ==
    ASSUME NEW v, IsSeq(v), Len(v) = 1, IsMoment(v[1]),
           NEW buf, NEW at, Reads(buf, at, LowBytes(v[1], 4))
    PROVE  <<Low(Slice(buf, at, 4))>> = v
<1>1. Low(LowBytes(v[1], 4)) = v[1]
    <2>1. v[1] \in Nat /\ v[1] < 4294967296
        BY DEF IsMoment
    <2>2. 4 \in 1..4 /\ 4 # 1 /\ 4 # 2 /\ 4 # 3
        OBVIOUS
    <2> QED
        BY <2>1, <2>2, LowOfLowBytes
<1>2. Len(LowBytes(v[1], 4)) = 4
    BY LowBytesIsSeq
<1>3. Slice(buf, at, 4) = LowBytes(v[1], 4)
    BY <1>2, ReadsSlice
<1> QED
    BY <1>1, <1>3, OneNumber

\* A YEAR is read but for 0000.
LEMMA YearRead ==
    ASSUME NEW v, IsSeq(v), Len(v) = 1, v[1] \in {0} \cup 1901..2155, v[1] # 0,
           NEW buf, NEW at, Reads(buf, at, YearBytes(v))
    PROVE  <<buf[at + 1] + 1900>> = v
<1> DEFINE byte == v[1] - 1900
<1>1. byte + 1900 = v[1]
    OBVIOUS
<1>2. YearBytes(v) = <<byte>>
    BY DEF YearBytes
<1> HIDE DEF byte
<1>3. Len(<<byte>>) = 1 /\ <<byte>>[1] = byte
    BY SingleIsSeq
<1>4. buf[at + 1] = byte
    BY <1>2, <1>3, ReadsAt
<1> QED
    BY <1>1, <1>4, OneNumber

\* A value without a length in front of it is read as it is.
LEMMA BareRead ==
    ASSUME NEW v, IsSeq(v), NEW buf, NEW at, Reads(buf, at, LowBytes(Len(v), 0) \o v)
    PROVE  Slice(buf, at, Len(v)) = v
<1> DEFINE head == LowBytes(Len(v), 0)
<1>1. IsSeq(head) /\ Len(head) = 0
    BY LowBytesIsSeq
<1> HIDE DEF head
<1>2. Reads(head \o v, 0, v)
    BY <1>1, ReadsConcat
<1>3. Reads(buf, at, head \o v)
    BY DEF head
<1>4. at + 0 = at
    BY <1>3, ReadsFacts
<1>5. Reads(buf, at, v)
    BY <1>2, <1>3, <1>4, ReadsPart
<1> QED
    BY <1>5, ReadsSlice

\* The parts that are wrong, by the real type of a column.
LEMMA WrongPartsAre ==
    ASSUME NEW column, NEW v, NEW type, type = RealType(column.type, column.meta),
           NEW low, low = column.meta % 256
    PROVE  WrongParts(column, v) =
               CASE type \in {1, 2, 9, 3, 8} /\ Above(v[1], IntegerSize(type) - 1) > 127 -> {1}
                 [] type = 247 /\ low = 1 /\ v[1] > 127 -> {1}
                 [] type = 13 /\ v[1] = 0 -> {1}
                 [] type = 11 -> IF v[1] = 1 THEN 1..4 ELSE {4}
                 [] type = 12 -> {3, 6}
                 [] type = 19 /\ v[1] = 1 -> {1}
                 [] OTHER -> {}
<1>1. IntegerTypes = {1, 2, 9, 3, 8}
    BY TypeCodes DEF IntegerTypes
<1> QED
    BY <1>1, TypeCodes DEF WrongParts

\* Where a value was written it is read, but for the types that Readable leaves out, if none of
\* its parts is wrong.
LEMMA ValueSpelled ==
    ASSUME NEW column, Declared(column), NEW v, Storable(column, v), Readable(column),
           NEW buf, NEW at, Reads(buf, at, Encoded(column, v)), WrongParts(column, v) = {}
    PROVE  ParseColumnValue(buf, at, column.type, column.meta).text = v
<1> DEFINE type == RealType(column.type, column.meta)
           high == column.meta \div 256
           low == column.meta % 256
           parsed == ParseColumnValue(buf, at, column.type, column.meta)
           encoded == Encoded(column, v)
<1>1. /\ type \in {1, 2, 3, 4, 5, 7, 8, 9, 10, 11, 12, 13, 14, 15, 16, 17, 18, 19, 246, 247, 248, 252, 254, 255}
      /\ type \notin {247, 248} => type = column.type
      /\ type \in {247, 248} => column.type = 254 /\ high = type
      /\ type \in {252, 255} => column.meta \in 1..4
      /\ type \in {17, 18, 19} => column.meta \in 0..6
      /\ type = 247 => low \in 1..2
    BY DeclaredIs
<1>2. /\ type # 246 /\ type # 255
      /\ type = 19 => column.meta \notin {1, 2}
    BY <1>1, TypeCodes DEF Readable, Unknown, Aborting
<1>3. IntegerTypes = {1, 2, 9, 3, 8}
    BY TypeCodes DEF IntegerTypes
<1>4. /\ type \in {1, 2, 3, 8, 9} => ~(Above(v[1], IntegerSize(type) - 1) > 127)
      /\ type = 247 => ~(low = 1 /\ v[1] > 127)
      /\ type = 13 => v[1] # 0
      /\ type \notin {11, 12}
      /\ type = 19 => v[1] # 1
    <2>1. 4 \in 1..4 /\ 4 \in {4} /\ 3 \in {3, 6} /\ 1 \in {1}
        OBVIOUS
    <2> DEFINE above == Above(v[1], IntegerSize(type) - 1) > 127
    <2>2. WrongParts(column, v) =
              CASE type \in {1, 2, 9, 3, 8} /\ above -> {1}
                [] type = 247 /\ low = 1 /\ v[1] > 127 -> {1}
                [] type = 13 /\ v[1] = 0 -> {1}
                [] type = 11 -> IF v[1] = 1 THEN 1..4 ELSE {4}
                [] type = 12 -> {3, 6}
                [] type = 19 /\ v[1] = 1 -> {1}
                [] OTHER -> {}
        BY WrongPartsAre
    <2> HIDE DEF above, type, low
    <2>3. (type \in {1, 2, 3, 8, 9} => ~above) /\ (type = 247 => ~(low = 1 /\ v[1] > 127))
        BY <2>1, <2>2
    <2>4. (type = 13 => v[1] # 0) /\ type \notin {11, 12} /\ (type = 19 => v[1] # 1)
        BY <2>1, <2>2
    <2> QED
        BY <2>3, <2>4 DEF above
<1>6. Reads(buf, at, encoded)
    OBVIOUS
<1>7. IsSeq(v)
    BY StorableIs
<1> SUFFICES parsed.text = v
    OBVIOUS
<1>8. ASSUME type \in {1, 2, 3, 8, 9} PROVE parsed.text = v
    <2> DEFINE size == IntegerSize(type)
    <2>1. size \in 1..8
        BY <1>8, TypeCodes DEF IntegerSize
    <2>2. parsed.text = <<SignedLow(Slice(buf, at, size))>>
        BY <1>8, ParsedText
    <2>3. encoded = LowBytes(v[1], size)
        BY <1>8, EncodedIs
    <2>4. Len(v) = 1 /\ v[1] \in Int /\ Above(v[1], size - 1) \in -128..255
        BY <1>8, StorableIs
    <2>5. ~(Above(v[1], size - 1) > 127)
        BY <1>4, <1>8
    <2>6. Reads(buf, at, LowBytes(v[1], size))
        BY <1>6, <2>3
    <2> HIDE DEF size, type, parsed, encoded
    <2>7. <<SignedLow(Slice(buf, at, size))>> = v
        BY <1>7, <2>1, <2>4, <2>5, <2>6, IntegerRead
    <2> QED
        BY <2>2, <2>7
<1>9. ASSUME type = 13 PROVE parsed.text = v
    <2>1. parsed.text = <<buf[at + 1] + 1900>> /\ encoded = YearBytes(v)
        BY <1>9, ParsedText, EncodedIs
    <2>2. Len(v) = 1 /\ v[1] \in {0} \cup 1901..2155
        BY <1>9, StorableIs
    <2>3. Reads(buf, at, YearBytes(v)) /\ v[1] # 0
        BY <1>4, <1>6, <1>9, <2>1
    <2> QED
        BY <1>7, <2>1, <2>2, <2>3, YearRead
<1>10. ASSUME type = 247 PROVE parsed.text = v
    <2>1. parsed = Enum(buf, at, low) /\ encoded = LowBytes(v[1], low)
        BY <1>10, ParsedText, EncodedIs
    <2>2. Len(v) = 1 /\ v[1] \in Nat /\ Above(v[1], low) = 0
        BY <1>10, StorableIs
    <2>3. low \in 1..2 /\ ~(low = 1 /\ v[1] > 127)
        BY <1>1, <1>4, <1>10
    <2>4. Reads(buf, at, LowBytes(v[1], low))
        BY <1>6, <2>1
    <2> HIDE DEF low, type, parsed, encoded
    <2>5. Enum(buf, at, low).text = v
        BY <1>7, <2>2, <2>3, <2>4, EnumRead
    <2> QED
        BY <2>1, <2>5
<1>11. ASSUME type \in {10, 14} PROVE parsed.text = v
    <2>1. parsed = Date(buf, at) /\ encoded = DateBytes(v)
        BY <1>11, ParsedText, EncodedIs
    <2>2. Len(v) = 3 /\ IsDate(v[1], v[2], v[3])
        BY <1>11, StorableIs
    <2>3. Reads(buf, at, DateBytes(v))
        BY <1>6, <2>1
    <2> QED
        BY <1>7, <2>1, <2>2, <2>3, DateRead
<1>12. ASSUME type = 7 PROVE parsed.text = v
    <2>1. parsed.text = <<Low(Slice(buf, at, 4))>> /\ encoded = LowBytes(v[1], 4)
        BY <1>12, ParsedText, EncodedIs
    <2>2. Len(v) = 1 /\ IsMoment(v[1])
        BY <1>12, StorableIs
    <2>3. Reads(buf, at, LowBytes(v[1], 4))
        BY <1>6, <2>1
    <2> QED
        BY <1>7, <2>1, <2>2, <2>3, TimestampRead
<1>13. ASSUME type = 17 PROVE parsed.text = v
    <2>1. parsed = Timestamp2(buf, at, column.meta) /\ encoded = Timestamp2Bytes(v, column.meta)
        BY <1>13, ParsedSize, EncodedIs
    <2>2. Len(v) = 2 /\ IsMoment(v[1]) /\ v[2] \in Micros(column.meta) /\ column.meta \in 0..6
        BY <1>1, <1>13, StorableIs
    <2>3. v[1] \in Nat /\ FitsInto(v[1], 4)
        BY <2>2 DEF IsMoment, FitsInto
    <2>4. Reads(buf, at, Timestamp2Bytes(v, column.meta))
        BY <1>6, <2>1
    <2> QED
        BY <1>7, <2>1, <2>2, <2>3, <2>4, Timestamp2Read
<1>14. ASSUME type = 18 PROVE parsed.text = v
    <2>1. parsed = Datetime2(buf, at, column.meta) /\ encoded = DatetimeBytes(v, column.meta)
        BY <1>14, ParsedSize, EncodedIs
    <2>2. /\ Len(v) = 7 /\ IsDate(v[1], v[2], v[3]) /\ IsTime(v[4], v[5], v[6])
          /\ v[4] <= 23 /\ v[7] \in Micros(column.meta) /\ column.meta \in 0..6
        BY <1>1, <1>14, StorableIs
    <2>3. Reads(buf, at, DatetimeBytes(v, column.meta))
        BY <1>6, <2>1
    <2> QED
        BY <1>7, <2>1, <2>2, <2>3, Datetime2Read
<1>15. ASSUME type = 19 PROVE parsed.text = v
    <2>1. parsed = Time2(buf, at, column.meta) /\ encoded = TimeBytes(v, column.meta)
        BY <1>15, ParsedSize, EncodedIs
    <2>2. /\ Len(v) = 5 /\ v[1] \in {0, 1} /\ IsTime(v[2], v[3], v[4])
          /\ v[5] \in Micros(column.meta) /\ column.meta \in {0, 3, 4, 5, 6}
        BY <1>1, <1>2, <1>15, StorableIs
    <2>3. Reads(buf, at, TimeBytes(v, column.meta))
        BY <1>6, <2>1
    <2>4. parsed.text = <<0, v[2], v[3], v[4], v[5]>>
        BY <1>7, <2>1, <2>2, <2>3, Time2Read
    <2>5. v[1] = 0
        BY <1>4, <1>15, <2>2
    <2>6. v = <<v[1], v[2], v[3], v[4], v[5]>>
        <3>1. v = [i \in 1..5 |-> v[i]]
            BY <1>7, <2>2, SeqFacts
        <3> QED
            BY <3>1
    <2> QED
        BY <2>4, <2>5, <2>6
<1>16. ASSUME type \in {4, 5, 16, 248} PROVE parsed.text = v
    <2>1. parsed.text = Slice(buf, at, Len(v))
        <3>1. type = 4 => parsed.text = Slice(buf, at, 4) /\ Len(v) = 4
            BY ParsedText, StorableIs
        <3>2. type = 5 => parsed.text = Slice(buf, at, 8) /\ Len(v) = 8
            BY ParsedText, StorableIs
        <3>3. type = 248 => parsed.text = Slice(buf, at, low) /\ Len(v) = low
            BY ParsedText, StorableIs
        <3>4. type = 16 => /\ parsed.text = Slice(buf, at, (high + 8 * low + 7) \div 8)
                           /\ Len(v) = (high + 8 * low + 7) \div 8
            BY ParsedText, StorableIs
        <3> HIDE DEF type, parsed, low, high
        <3>5. type = 4 \/ type = 5 \/ type = 248 \/ type = 16
            BY <1>16
        <3>6. (type = 4 \/ type = 5) => parsed.text = Slice(buf, at, Len(v))
            BY Zenon, <3>1, <3>2
        <3>7. (type = 248 \/ type = 16) => parsed.text = Slice(buf, at, Len(v))
            BY Zenon, <3>3, <3>4
        <3> QED
            BY Zenon, <3>5, <3>6, <3>7
    <2>2. LengthSize(column) = 0
        BY <1>16, LengthSizeIs
    <2>3. encoded = LowBytes(Len(v), LengthSize(column)) \o v
        BY <1>16, EncodedIs
    <2>4. Reads(buf, at, LowBytes(Len(v), 0) \o v)
        BY <1>6, <2>2, <2>3
    <2> QED
        BY <1>7, <2>1, <2>4, BareRead
<1>17. ASSUME type \in {252, 15, 254} PROVE parsed.text = v
    <2> DEFINE size == LengthSize(column)
    <2>1. parsed = Prefixed(buf, at, size)
        <3>1. /\ type = 252 => parsed = Prefixed(buf, at, column.meta)
              /\ type = 15 => parsed = Prefixed(buf, at, PrefixSize(column.meta))
              /\ type = 254 => parsed = Prefixed(buf, at, PrefixSize(StringLength(column.meta)))
            BY ParsedSize
        <3>2. /\ type = 252 => size = column.meta
              /\ type = 15 => size = PrefixSize(column.meta)
              /\ type = 254 => size = PrefixSize(StringLength(column.meta))
            BY LengthSizeIs
        <3> HIDE DEF type, parsed, size
        <3> QED
            BY <1>17, <3>1, <3>2
    <2>2. size \in 1..4
        BY <1>17, LengthSizeIs
    <2>3. encoded = LowBytes(Len(v), size) \o v
        BY <1>17, EncodedIs
    <2>4. Fits(column, v)
        BY <1>17, StorableIs
    <2>5. Len(v) \in Nat
        BY <1>7, SeqFacts
    <2>6. /\ size = 1 => Len(v) < 256
          /\ size = 2 => Len(v) < 65536
          /\ size = 3 => Len(v) < 16777216
          /\ size = 4 => Len(v) < 4294967296
        BY <2>4, <2>5 DEF Fits
    <2>7. Reads(buf, at, LowBytes(Len(v), size) \o v)
        BY <1>6, <2>3
    <2> HIDE DEF size, type, parsed, encoded
    <2>8. Prefixed(buf, at, size).text = v
        BY <1>7, <2>2, <2>6, <2>7, PrefixedText
    <2> QED
        BY <2>1, <2>8
<1> HIDE DEF type, parsed, encoded, high, low
<1>18. type \in {1, 2, 3, 8, 9, 13, 247, 10, 14, 7, 17, 18, 19, 4, 5, 16, 248, 252, 15, 254}
    <2>1. type # 246 /\ type # 255 /\ type # 11 /\ type # 12
        BY <1>2, <1>4
    <2> QED
        BY <1>1, <2>1
<1> QED
    BY <1>8, <1>9, <1>10, <1>11, <1>12, <1>13, <1>14, <1>15, <1>16, <1>17, <1>18

\* Where a value was written it is read, but for the types that Readable leaves out and the parts
\* that WrongParts names.
LEMMA ValueRead ==
    ASSUME NEW column, Declared(column), NEW v, Storable(column, v), Readable(column),
           NEW buf, NEW at, Reads(buf, at, Encoded(column, v))
    PROVE  IsRead(column, v, ParseColumnValue(buf, at, column.type, column.meta).text)
<1> DEFINE type == RealType(column.type, column.meta)
           low == column.meta % 256
           text == ParseColumnValue(buf, at, column.type, column.meta).text
           wrong == WrongParts(column, v)
           above == Above(v[1], IntegerSize(type) - 1) > 127
<1>1. column.type # T.NEWDECIMAL /\ (type = 19 => column.meta \in {0, 3, 4, 5, 6})
    <2>1. /\ type \notin {247, 248} => type = column.type
          /\ type \in {17, 18, 19} => column.meta \in 0..6
        BY DeclaredIs
    <2> QED
        BY <2>1, TypeCodes DEF Readable, Unknown, Aborting
<1> SUFFICES RightBut(text, v, wrong)
    BY <1>1 DEF IsRead
<1>2. wrong = CASE type \in {1, 2, 9, 3, 8} /\ above -> {1}
                [] type = 247 /\ low = 1 /\ v[1] > 127 -> {1}
                [] type = 13 /\ v[1] = 0 -> {1}
                [] type = 11 -> IF v[1] = 1 THEN 1..4 ELSE {4}
                [] type = 12 -> {3, 6}
                [] type = 19 /\ v[1] = 1 -> {1}
                [] OTHER -> {}
    BY WrongPartsAre
<1>3. IsSeq(v)
    BY StorableIs
<1>4. CASE wrong = {}
    <2>1. text = v
        BY <1>4, ValueSpelled
    <2> HIDE DEF text, wrong
    <2> QED
        BY <1>4, <2>1 DEF RightBut
<1>5. CASE type \in {1, 2, 3, 8, 9, 247, 13} /\ wrong = {1}
    <2>1. Len(text) = 1
        <3>1. /\ type \in {1, 2, 3, 8, 9} => text = <<SignedLow(Slice(buf, at, IntegerSize(type)))>>
              /\ type = 13 => text = <<buf[at + 1] + 1900>>
              /\ type = 247 => ParseColumnValue(buf, at, column.type, column.meta) = Enum(buf, at, low)
            BY ParsedText
        <3>2. \A e : Len(<<e>>) = 1
            BY SingleIsSeq
        <3>3. Len(Enum(buf, at, low).text) = 1
            BY <3>2 DEF Enum, Value
        <3> QED
            BY <1>5, <3>1, <3>2, <3>3
    <2>2. Len(v) = 1
        BY <1>5, StorableIs
    <2>3. DOMAIN v \ {1} = {}
        BY <1>3, <2>2, SeqFacts
    <2> HIDE DEF text, wrong
    <2> QED
        BY <1>5, <2>1, <2>2, <2>3 DEF RightBut
<1>6. CASE type = 11
    <2>1. ParseColumnValue(buf, at, column.type, column.meta) = Time(buf, at) /\ Encoded(column, v) = OldTimeBytes(v)
        BY <1>6, ParsedText, EncodedIs
    <2>2. Len(v) = 4 /\ v[1] \in {0, 1} /\ IsTime(v[2], v[3], v[4])
        BY <1>6, StorableIs
    <2>3. wrong = IF v[1] = 1 THEN 1..4 ELSE {4}
        BY <1>2, <1>6
    <2>4. RightBut(Time(buf, at).text, v, IF v[1] = 1 THEN 1..4 ELSE {4})
        BY <1>3, <2>1, <2>2, OldTimeRead
    <2> QED
        BY <2>1, <2>3, <2>4
<1>7. CASE type = 12
    <2>1. /\ ParseColumnValue(buf, at, column.type, column.meta) = Datetime(buf, at)
          /\ Encoded(column, v) = OldDatetimeBytes(v)
        BY <1>7, ParsedText, EncodedIs
    <2>2. Len(v) = 6 /\ IsDate(v[1], v[2], v[3]) /\ IsTime(v[4], v[5], v[6]) /\ v[4] <= 23
        BY <1>7, StorableIs
    <2>3. wrong = {3, 6}
        BY <1>2, <1>7
    <2>4. RightBut(Datetime(buf, at).text, v, {3, 6})
        BY <1>3, <2>1, <2>2, DatetimeRead
    <2> QED
        BY <2>1, <2>3, <2>4
<1>8. CASE type = 19 /\ wrong = {1}
    <2>1. /\ ParseColumnValue(buf, at, column.type, column.meta) = Time2(buf, at, column.meta)
          /\ Encoded(column, v) = TimeBytes(v, column.meta)
        BY <1>8, ParsedSize, EncodedIs
    <2>2. Len(v) = 5 /\ v[1] \in {0, 1} /\ IsTime(v[2], v[3], v[4]) /\ v[5] \in Micros(column.meta)
        BY <1>8, StorableIs
    <2>3. text = <<0, v[2], v[3], v[4], v[5]>>
        BY <1>1, <1>3, <1>8, <2>1, <2>2, Time2Read
    <2> HIDE DEF text, wrong, type
    <2>4. Len(text) = 5 /\ text[2] = v[2] /\ text[3] = v[3] /\ text[4] = v[4] /\ text[5] = v[5]
        BY <2>3
    <2>5. DOMAIN v = 1..5
        BY <1>3, <2>2, SeqFacts
    <2>6. \A p \in 1..5 \ {1} : p \in {2, 3, 4, 5}
        OBVIOUS
    <2> QED
        BY <1>8, <2>2, <2>4, <2>5, <2>6 DEF RightBut
<1>9. \/ wrong = {}
      \/ type \in {1, 2, 3, 8, 9, 247, 13} /\ wrong = {1}
      \/ type = 11
      \/ type = 12
      \/ type = 19 /\ wrong = {1}
    <2> HIDE DEF wrong, type, above, low
    <2>1. CASE type \in {1, 2, 3, 8, 9, 247, 13}
        <3>1. wrong = {} \/ wrong = {1}
            BY <1>2, <2>1
        <3> QED
            BY Zenon, <2>1, <3>1
    <2>2. CASE type = 19
        <3>1. wrong = {} \/ wrong = {1}
            BY <1>2, <2>2
        <3> QED
            BY Zenon, <2>2, <3>1
    <2>3. CASE type \notin {1, 2, 3, 8, 9, 247, 13, 19, 11, 12}
        <3>1. wrong = {}
            BY <1>2, <2>3
        <3> QED
            BY Zenon, <3>1
    <2> QED
        BY <2>1, <2>2, <2>3
<1> QED
    BY <1>4, <1>5, <1>6, <1>7, <1>8, <1>9

-----------------------------------------------------------------------------
(* The texts of a line.                                                    *)

\* The texts are those of the first columns of image k.
AreTexts(k, texts) == \A i \in 1..Len(texts) : IsText(k, i, texts[i])

\* The texts of the line that is read are those of its images, and of an update's new image
\* none is read before the old one is complete.
LineTexts ==
    /\ cmd \in Updates =>
           AreTexts(Len(lines) * PerRow + 1, line.old) /\ (isOld \/ Len(line.old) = Len(columns))
    /\ cmd \notin Updates => line.old = Empty
    /\ AreTexts(Len(lines) * PerRow + Which(FALSE), line.new)

\* The texts of all lines are those of their images.
TextsInv == TextsMatch /\ (stage = "columns" => LineTexts)

\* What a text should be depends on the event alone.
LEMMA SameTexts ==
    ASSUME UNCHANGED event
    PROVE  /\ \A k, i, text : IsText(k, i, text)' <=> IsText(k, i, text)
           /\ \A k, texts : AreTexts(k, texts)' <=> AreTexts(k, texts)
           /\ \A k, texts : IsImage(k, texts)' <=> IsImage(k, texts)
<1>1. columns' = columns /\ images' = images /\ \A k : PresentIn(k)' = PresentIn(k)
    BY SamePlaces
<1>2. \A k, i : IsNull(k, i)' <=> IsNull(k, i)
    BY <1>1 DEF IsNull
<1>3. \A k, i, text : IsText(k, i, text)' <=> IsText(k, i, text)
    BY <1>1, <1>2 DEF IsText
<1>4. \A k, texts : AreTexts(k, texts)' <=> AreTexts(k, texts)
    BY <1>3 DEF AreTexts
<1>5. \A k, texts : IsImage(k, texts)' <=> IsImage(k, texts)
    BY <1>1, <1>3 DEF IsImage
<1> QED
    BY <1>3, <1>4, <1>5

\* Finished lines stay what they are.
LEMMA SameLines ==
    ASSUME UNCHANGED <<event, lines>>
    PROVE  TextsMatch' <=> TextsMatch
<1>1. \A k, texts : IsImage(k, texts)' <=> IsImage(k, texts)
    BY SameTexts
<1>2. cmd' = cmd /\ lines' = lines
    BY DEF event
<1>3. \A r : /\ IsImage(2 * r - 1, lines[r].old)' <=> IsImage(2 * r - 1, lines[r].old)
             /\ IsImage(2 * r, lines[r].new)' <=> IsImage(2 * r, lines[r].new)
             /\ IsImage(r, lines[r].new)' <=> IsImage(r, lines[r].new)
    BY <1>1, <1>2
<1> QED
    BY <1>2, <1>3 DEF TextsMatch

\* No text is read yet.
LEMMA NoTexts == \A k : AreTexts(k, << >>)
<1>1. \A i \in 1..Len(<< >>) : FALSE
    BY EmptyIsSeq
<1> QED
    BY <1>1 DEF AreTexts

\* One more element.
LEMMA AppendIs ==
    ASSUME NEW s, IsSeq(s), NEW a
    PROVE  /\ IsSeq(Append(s, a)) /\ Len(Append(s, a)) = Len(s) + 1 /\ Len(s) \in Nat
           /\ \A i \in 1..Len(s) : Append(s, a)[i] = s[i]
           /\ Append(s, a)[Len(s) + 1] = a
<1> DEFINE t == <<a>>
<1>1. Append(s, a) = s \o t
    BY DEF IsSeq
<1>2. IsSeq(t) /\ Len(t) = 1 /\ t[1] = a
    BY SingleIsSeq
<1> HIDE DEF t
<1>3. /\ IsSeq(s \o t)
      /\ Len(s \o t) = Len(s) + Len(t)
      /\ \A i \in 1..Len(s) : (s \o t)[i] = s[i]
      /\ \A i \in 1..Len(t) : (s \o t)[Len(s) + i] = t[i]
    BY <1>2, ConcatIsSeq
<1>4. (s \o t)[Len(s) + 1] = t[1]
    <2>1. 1 \in 1..Len(t)
        BY <1>2
    <2> QED
        BY <1>3, <2>1
<1> QED
    BY <1>1, <1>2, <1>3, <1>4, SeqFacts

\* One more text is read.
LEMMA MoreTexts ==
    ASSUME NEW texts, IsSeq(texts), NEW k, AreTexts(k, texts), NEW text, IsText(k, Len(texts) + 1, text)
    PROVE  AreTexts(k, Append(texts, text))
<1> DEFINE s == Append(texts, text)
<1>1. /\ Len(s) = Len(texts) + 1 /\ Len(texts) \in Nat
      /\ \A i \in 1..Len(texts) : s[i] = texts[i]
      /\ s[Len(texts) + 1] = text
    BY AppendIs
<1> HIDE DEF s
<1>2. ASSUME NEW i \in 1..Len(s) PROVE IsText(k, i, s[i])
    <2>1. CASE i \in 1..Len(texts)
        BY <1>1, <2>1 DEF AreTexts
    <2>2. CASE i \notin 1..Len(texts)
        <3>1. i = Len(texts) + 1
            BY <1>1, <1>2, <2>2
        <3> QED
            BY <1>1, <3>1
    <2> QED
        BY <2>1, <2>2
<1>3. AreTexts(k, s)
    BY <1>2 DEF AreTexts
<1> QED
    BY <1>3 DEF s

\* No line is finished before there are any.
LEMMA TextsInit == Init => TextsInv
<1> SUFFICES ASSUME Init PROVE TextsInv
    OBVIOUS
<1>1. lines = << >> /\ stage = "tablemap"
    BY DEF Init, Empty
<1>2. DOMAIN lines = {}
    BY <1>1
<1>3. TextsMatch
    BY <1>2 DEF TextsMatch
<1> QED
    BY <1>1, <1>3 DEF TextsInv

\* The text of the next column is pushed.
LEMMA TextPushed ==
    ASSUME EventInv, RowsInv, TextsInv, stage = "columns", Column <= Len(columns),
           UNCHANGED <<event, isOld, lines>>,
           NEW text, PushBack(text), IsText(Image, Column, text)
    PROVE  TextsInv'
<1>1. LineInv /\ LineTexts /\ TextsMatch
    BY DEF RowsInv, InColumns, TextsInv
<1>2. /\ isOld \in BOOLEAN /\ (isOld => cmd \in Updates)
      /\ IsSeq(line.old) /\ IsSeq(line.new)
      /\ line = [old |-> line.old, new |-> line.new]
    BY <1>1 DEF LineInv
<1> DEFINE k == Len(lines) * PerRow + Which(isOld)
           l == Len(lines) * PerRow
<1>3. IsText(k, Column, text)
    BY ImageOfLine
<1>4. /\ cmd' = cmd /\ columns' = columns /\ PerRow' = PerRow /\ lines' = lines /\ isOld' = isOld
      /\ \A q, texts : AreTexts(q, texts)' <=> AreTexts(q, texts)
    BY SamePlaces, SameTexts
<1>5. Which(FALSE)' = Which(FALSE)
    BY <1>4 DEF Which
<1>6. TextsMatch'
    BY <1>1, SameLines
<1>7. CASE isOld
    <2> DEFINE s == Append(line.old, text)
    <2>1. line' = [old |-> s, new |-> line.new]
        BY <1>2, <1>7 DEF PushBack
    <2>2. Which(isOld) = 1 /\ Column = Len(line.old) + 1
        BY <1>7 DEF Which, Column, Pushed
    <2>3. IsText(l + 1, Len(line.old) + 1, text)
        BY <1>3, <2>2
    <2>4. AreTexts(l + 1, line.old) /\ AreTexts(l + Which(FALSE), line.new)
        BY <1>1, <1>2, <1>7 DEF LineTexts
    <2> HIDE DEF l, k
    <2>5. AreTexts(l + 1, s)
        BY <1>2, <2>3, <2>4, MoreTexts
    <2> HIDE DEF s
    <2>6. line'.old = s /\ line'.new = line.new
        BY <2>1
    <2>7. AreTexts(l + 1, line.old)' /\ AreTexts(l + Which(FALSE), line.new)'
        BY <1>4, <1>5, <2>4, <2>5, <2>6 DEF l
    <2>8. LineTexts'
        BY <1>2, <1>4, <1>7, <2>7 DEF LineTexts, l
    <2> QED
        BY <1>6, <2>8 DEF TextsInv
<1>8. CASE ~isOld
    <2> DEFINE s == Append(line.new, text)
    <2>1. line' = [old |-> line.old, new |-> s]
        BY <1>2, <1>8 DEF PushBack
    <2>2. Which(isOld) = Which(FALSE) /\ Column = Len(line.new) + 1
        BY <1>8 DEF Which, Column, Pushed
    <2>3. IsText(l + Which(FALSE), Len(line.new) + 1, text)
        BY <1>3, <2>2
    <2>4. /\ AreTexts(l + Which(FALSE), line.new)
          /\ cmd \in Updates => AreTexts(l + 1, line.old) /\ Len(line.old) = Len(columns)
          /\ cmd \notin Updates => line.old = Empty
        BY <1>1, <1>8 DEF LineTexts
    <2> HIDE DEF l, k
    <2>5. AreTexts(l + Which(FALSE), s)
        BY <1>2, <2>3, <2>4, MoreTexts
    <2> HIDE DEF s
    <2>6. line'.old = line.old /\ line'.new = s
        BY <2>1
    <2>7. AreTexts(l + Which(FALSE), line.new)'
        BY <1>4, <1>5, <2>5, <2>6 DEF l
    <2>8. cmd' \in Updates => AreTexts(l + 1, line.old)'
        BY <1>4, <2>4, <2>6 DEF l
    <2>9. LineTexts'
        <3>1. Len(line'.old) = Len(line.old)
            BY <2>6
        <3> HIDE DEF Empty
        <3> QED
            BY <1>4, <2>4, <2>6, <2>7, <2>8, <3>1 DEF LineTexts, l
    <2> QED
        BY <1>6, <2>9 DEF TextsInv
<1> QED
    BY <1>2, <1>7, <1>8

\* A column that an image does not contain or that is null has the empty text, and a value that is
\* read at its place has its own.
LEMMA PushTexts ==
    ASSUME EventInv, MetasInv, RowsInv, TextsInv, PushAbsent \/ PushNull \/ PushValue, UNCHANGED event
    PROVE  TextsInv'
<1> DEFINE k == Image
           i == Column
           value == ParseColumnValue(rowBuf, pos, types[i], metas[i])
<1>1. InImage /\ stage = "columns" /\ i <= Len(columns) /\ UNCHANGED <<isOld, lines>>
    BY DEF PushAbsent, PushNull, PushValue, HasValue, InImage
<1>2. /\ Present <=> i \in PresentIn(k)
      /\ i \in PresentIn(k) => (GetBit(nulls, presentPos) <=> IsNull(k, i))
    BY <1>1, NextColumn
<1>3. CASE PushAbsent \/ PushNull
    <2>1. i \notin PresentIn(k) \/ IsNull(k, i)
        BY <1>2, <1>3 DEF PushAbsent, PushNull
    <2>2. IsText(k, i, Empty) /\ PushBack(Empty)
        BY <1>3, <2>1 DEF IsText, PushAbsent, PushNull
    <2> QED
        BY <1>1, <2>2, TextPushed
<1>4. CASE PushValue
    <2>1. /\ Present /\ ~GetBit(nulls, presentPos) /\ PushBack(value.text)
          /\ stage' = IF Readable(columns[i]) THEN "columns" ELSE "lost"
        BY <1>4 DEF PushValue, HasValue, PushColumn
    <2>2. CASE Readable(columns[i])
        <3>1. i \in PresentIn(k) /\ ~IsNull(k, i)
            BY <1>2, <2>1
        <3> DEFINE column == columns[i]
                   v == images[k][i]
        <3>2. /\ Declared(column) /\ Storable(column, v)
              /\ types[i] = column.type /\ metas[i] = column.meta
              /\ Reads(rowBuf, pos, Encoded(column, v))
            BY <1>1, <3>1, NextValue
        <3>3. IsRead(column, v, value.text)
            <4>1. Readable(column)
                BY <2>2
            <4> HIDE DEF column, v
            <4>2. IsRead(column, v, ParseColumnValue(rowBuf, pos, column.type, column.meta).text)
                BY <3>2, <4>1, ValueRead
            <4> QED
                BY <3>2, <4>2
        <3>4. IsText(k, i, value.text)
            BY <3>1, <3>3 DEF IsText
        <3> HIDE DEF value
        <3> QED
            BY <1>1, <2>1, <3>4, TextPushed
    <2>3. CASE ~Readable(columns[i])
        <3>1. stage' = "lost" /\ UNCHANGED <<event, lines>>
            BY <1>1, <2>1, <2>3
        <3>2. TextsMatch'
            BY <3>1, SameLines DEF TextsInv
        <3> QED
            BY <3>1, <3>2 DEF TextsInv
    <2> QED
        BY <2>2, <2>3
<1> QED
    BY <1>3, <1>4

\* A row begins without texts, and the new image of an update behind a complete old one.
LEMMA BeginTexts ==
    ASSUME EventInv, RowsInv, TextsInv, BeginRow \/ EndOld, UNCHANGED event
    PROVE  TextsInv'
<1>1. /\ cmd' = cmd /\ columns' = columns /\ PerRow' = PerRow
      /\ \A q, texts : AreTexts(q, texts)' <=> AreTexts(q, texts)
    BY SamePlaces, SameTexts
<1>2. Which(FALSE)' = Which(FALSE)
    BY <1>1 DEF Which
<1> DEFINE l == Len(lines) * PerRow
<1>3. CASE BeginRow
    <2>1. /\ UNCHANGED lines /\ isOld' = (cmd \in Updates)
          /\ line' = [old |-> Empty, new |-> Empty]
        BY <1>3 DEF BeginRow, BeginImage
    <2>2. TextsMatch'
        BY <2>1, SameLines DEF TextsInv
    <2>3. line'.old = Empty /\ line'.new = Empty
        BY <2>1
    <2>4. AreTexts(l + 1, Empty) /\ AreTexts(l + Which(FALSE), Empty)
        BY NoTexts DEF Empty
    <2> HIDE DEF l, Empty
    <2>5. AreTexts(l + 1, line.old)' /\ AreTexts(l + Which(FALSE), line.new)'
        BY <1>1, <1>2, <2>1, <2>3, <2>4 DEF l
    <2>6. LineTexts'
        BY <1>1, <2>1, <2>3, <2>5 DEF LineTexts, l
    <2> QED
        BY <2>2, <2>6 DEF TextsInv
<1>4. CASE EndOld
    <2>1. stage = "columns" /\ Column > Len(columns) /\ isOld /\ isOld' = FALSE /\ UNCHANGED <<line, lines>>
        BY <1>4 DEF EndOld, BeginImage
    <2>2. LineInv /\ Len(Pushed) = Len(columns)
        BY <2>1, ImageEnd
    <2>3. cmd \in Updates /\ Len(line.old) = Len(columns)
        BY <2>1, <2>2 DEF LineInv, Pushed
    <2>4. TextsMatch'
        BY <2>1, SameLines DEF TextsInv
    <2>5. AreTexts(l + 1, line.old) /\ AreTexts(l + Which(FALSE), line.new)
        BY <2>1, <2>3 DEF TextsInv, LineTexts
    <2> HIDE DEF l
    <2>6. AreTexts(l + 1, line.old)' /\ AreTexts(l + Which(FALSE), line.new)'
        BY <1>1, <1>2, <2>1, <2>5 DEF l
    <2>7. LineTexts'
        BY <1>1, <2>1, <2>3, <2>6 DEF LineTexts, l
    <2> QED
        BY <2>4, <2>7 DEF TextsInv
<1> QED
    BY <1>3, <1>4

\* A line is finished with the texts of its row.
LEMMA EndTexts ==
    ASSUME EventInv, RowsInv, TextsInv, EndRow, UNCHANGED event
    PROVE  TextsInv'
<1>1. /\ stage = "columns" /\ Column > Len(columns) /\ ~isOld
      /\ lines' = Append(lines, line) /\ stage' = "rows"
    BY DEF EndRow
<1>2. LineInv /\ IsSeq(lines) /\ Len(Pushed) = Len(columns)
    BY <1>1, ImageEnd
<1>3. TextsMatch /\ LineTexts /\ Len(line.new) = Len(columns) /\ IsSeq(columns)
    BY <1>1, <1>2 DEF TextsInv, Pushed, EventInv
<1>4. ASSUME NEW k, NEW texts, AreTexts(k, texts), Len(texts) = Len(columns)
      PROVE  IsImage(k, texts)
    <2>1. DOMAIN columns = 1..Len(texts)
        BY <1>3, <1>4, SeqFacts
    <2> QED
        BY <1>4, <2>1 DEF IsImage, AreTexts
<1>5. cmd' = cmd /\ \A k, texts : IsImage(k, texts)' <=> IsImage(k, texts)
    BY SamePlaces, SameTexts
<1> DEFINE s == Append(lines, line)
           n == Len(lines)
<1>6. /\ IsSeq(s) /\ Len(s) = n + 1 /\ n \in Nat
      /\ \A r \in 1..n : s[r] = lines[r]
      /\ s[n + 1] = line
    BY <1>2, AppendIs
<1>7. DOMAIN lines = 1..n /\ DOMAIN s = 1..n + 1
    BY <1>2, <1>6, SeqFacts
<1> HIDE DEF s
<1>8. ASSUME NEW r \in 1..n + 1
      PROVE  IF cmd \in Updates
             THEN IsImage(2 * r - 1, s[r].old) /\ IsImage(2 * r, s[r].new)
             ELSE s[r].old = Empty /\ IsImage(r, s[r].new)
    <2>1. CASE r \in 1..n
        BY <1>3, <1>6, <1>7, <2>1 DEF TextsMatch
    <2>2. CASE r \notin 1..n
        <3>1. r = n + 1 /\ s[r] = line
            BY <1>6, <1>8, <2>2
        <3>2. CASE cmd \in Updates
            <4>1. /\ AreTexts(n * PerRow + 1, line.old) /\ Len(line.old) = Len(columns)
                  /\ AreTexts(n * PerRow + Which(FALSE), line.new)
                BY <1>1, <1>3, <3>2 DEF LineTexts
            <4>2. PerRow = 2 /\ Which(FALSE) = 2
                BY <3>2 DEF PerRow, Which
            <4>3. n * PerRow + 1 = 2 * r - 1 /\ n * PerRow + Which(FALSE) = 2 * r
                <5>1. n * 2 + 1 = 2 * (n + 1) - 1 /\ n * 2 + 2 = 2 * (n + 1)
                    BY <1>6
                <5> QED
                    BY <3>1, <4>2, <5>1
            <4>4. AreTexts(2 * r - 1, line.old) /\ AreTexts(2 * r, line.new)
                BY <4>1, <4>3
            <4>5. IsImage(2 * r - 1, line.old) /\ IsImage(2 * r, line.new)
                BY <1>3, <1>4, <4>1, <4>4
            <4> QED
                BY <3>1, <3>2, <4>5
        <3>3. CASE cmd \notin Updates
            <4>1. line.old = Empty /\ AreTexts(n * PerRow + Which(FALSE), line.new)
                BY <1>3, <3>3 DEF LineTexts
            <4>2. PerRow = 1 /\ Which(FALSE) = 1
                BY <3>3 DEF PerRow, Which
            <4>3. n * PerRow + Which(FALSE) = r
                <5>1. n * 1 + 1 = n + 1
                    BY <1>6
                <5> QED
                    BY <3>1, <4>2, <5>1
            <4>4. AreTexts(r, line.new)
                BY <4>1, <4>3
            <4>5. IsImage(r, line.new)
                BY <1>3, <1>4, <4>4
            <4> QED
                BY <3>1, <3>3, <4>1, <4>5
        <3> QED
            BY <3>2, <3>3
    <2> QED
        BY <2>1, <2>2
<1>9. TextsMatch'
    <2>1. lines' = s
        BY <1>1 DEF s
    <2>2. \A r : /\ IsImage(2 * r - 1, lines[r].old)' <=> IsImage(2 * r - 1, s[r].old)
                 /\ IsImage(2 * r, lines[r].new)' <=> IsImage(2 * r, s[r].new)
                 /\ IsImage(r, lines[r].new)' <=> IsImage(r, s[r].new)
        BY <1>5, <2>1
    <2>3. DOMAIN lines' = 1..n + 1
        BY <1>7, <2>1
    <2> HIDE DEF n, Empty
    <2> QED
        BY <1>5, <1>8, <2>1, <2>2, <2>3 DEF TextsMatch
<1> QED
    BY <1>1, <1>9 DEF TextsInv

\* So every step keeps the texts.
LEMMA TextsStep ==
    ASSUME [Next]_vars, EventInv, MetasInv, RowsInv, TextsInv
    PROVE  TextsInv'
<1>1. UNCHANGED event
    BY EventStep
<1>2. CASE UNCHANGED vars
    <2>1. UNCHANGED <<stage, isOld, line, lines>>
        BY <1>2 DEF vars, image
    <2>2. TextsMatch' <=> TextsMatch
        BY <1>1, <2>1, SameLines
    <2>3. /\ cmd' = cmd /\ columns' = columns /\ PerRow' = PerRow
          /\ \A q, texts : AreTexts(q, texts)' <=> AreTexts(q, texts)
        BY <1>1, SamePlaces, SameTexts
    <2>4. Which(FALSE)' = Which(FALSE)
        BY <2>3 DEF Which
    <2>5. /\ AreTexts(Len(lines) * PerRow + 1, line.old)' <=> AreTexts(Len(lines) * PerRow + 1, line.old)
          /\ AreTexts(Len(lines) * PerRow + Which(FALSE), line.new)'
                 <=> AreTexts(Len(lines) * PerRow + Which(FALSE), line.new)
        BY <2>1, <2>3, <2>4
    <2>6. LineTexts' <=> LineTexts
        <3> HIDE DEF Empty
        <3> QED
            BY <2>1, <2>3, <2>5 DEF LineTexts
    <2> QED
        BY <2>1, <2>2, <2>6 DEF TextsInv
<1>3. CASE ParseTablemap \/ ReadMeta \/ EndTablemap \/ ParseRowHead \/ StopImage \/ Abort
    <2>1. UNCHANGED lines /\ stage' \in {"meta", "head", "rows", "lost", "aborted", stage}
          /\ (stage' = stage => stage # "columns")
        BY <1>3 DEF ParseTablemap, ReadMeta, EndTablemap, ParseRowHead, StopImage, Abort
    <2>2. TextsMatch'
        BY <1>1, <2>1, SameLines DEF TextsInv
    <2> QED
        BY <2>1, <2>2 DEF TextsInv
<1>4. CASE BeginRow \/ EndOld
    BY <1>1, <1>4, BeginTexts
<1>5. CASE EndRow
    BY <1>1, <1>5, EndTexts
<1>6. CASE PushAbsent \/ PushNull \/ PushValue
    BY <1>1, <1>6, PushTexts
<1> QED
    BY <1>2, <1>3, <1>4, <1>5, <1>6 DEF Next

\* A finished line has the text of every column of every image of its row, each its own: what
\* ParseColumnValue makes of the bytes is what the server stored, but for the parts that
\* WrongParts names, and ParseRow pushes it to the right one of the line's images, whatever
\* nulls and left out columns are in front of it.
THEOREM TextsAreMatched == Spec => []TextsMatch
<1>1. Init => EventInv /\ MetasInv /\ RowsInv /\ TextsInv
    BY InitEvent, MetasInit, RowsInit, TextsInit
<1>2. EventInv /\ MetasInv /\ RowsInv /\ TextsInv /\ [Next]_vars => (EventInv /\ MetasInv /\ RowsInv /\ TextsInv)'
    BY EventStep, MetasStep, RowsStep, TextsStep
<1>3. TextsInv => TextsMatch
    BY DEF TextsInv
<1> QED
    BY <1>1, <1>2, <1>3, PTL DEF Spec

-----------------------------------------------------------------------------
(* DECIMALs.                                                               *)

\* The powers of ten.
LEMMA PowersOfTen ==
    /\ Powers10[1] = 1
    /\ \A i \in 1..9 : Powers10[i] \in Nat /\ Powers10[i + 1] = 10 * Powers10[i]
    /\ \A i \in 1..10 : Powers10[i] \in Nat \ {0}
<1>1. /\ Powers10[1] = 1 /\ Powers10[2] = 10 /\ Powers10[3] = 100 /\ Powers10[4] = 1000
      /\ Powers10[5] = 10000 /\ Powers10[6] = 100000 /\ Powers10[7] = 1000000
      /\ Powers10[8] = 10000000 /\ Powers10[9] = 100000000 /\ Powers10[10] = 1000000000
    BY DEF Powers10
<1>2. ASSUME NEW i \in 1..9 PROVE Powers10[i] \in Nat /\ Powers10[i + 1] = 10 * Powers10[i]
    <2>1. i \in {1, 2, 3, 4, 5, 6, 7, 8, 9}
        OBVIOUS
    <2> QED
        BY <1>1, <2>1
<1>3. ASSUME NEW i \in 1..10 PROVE Powers10[i] \in Nat \ {0}
    <2>1. i \in {1, 2, 3, 4, 5, 6, 7, 8, 9, 10}
        OBVIOUS
    <2> QED
        BY <1>1, <2>1
<1> QED
    BY <1>1, <1>2, <1>3

\* Digits.
AreDigits(s) == IsSeq(s) /\ \A i \in 1..Len(s) : s[i] \in 0..9

\* A number of digits is less than the power of ten behind them.
LEMMA NumberBound ==
    ASSUME NEW s, AreDigits(s), Len(s) <= 9
    PROVE  Number(s) \in Nat /\ Number(s) < Powers10[Len(s) + 1]
<1> DEFINE n == Len(s)
<1>1. IsSeq(s) /\ \A i \in 1..n : s[i] \in 0..9
    BY DEF AreDigits
<1>2. n \in Nat /\ n <= 9
    BY <1>1, SeqFacts
<1>3. PICK f : Places(f, s, 10, n) /\ Number(s) = f[n]
    BY <1>1, NumberIs
<1> HIDE DEF n
<1> DEFINE N == {j \in 0..n : f[j] \in Nat /\ f[j] < Powers10[j + 1]}
<1>4. 0 \in N
    <2>1. 0 \in 0..n
        BY <1>2
    <2>2. f[0] = 0
        BY <1>3, <2>1, PlacesAt
    <2>3. Powers10[0 + 1] = 1
        BY PowersOfTen
    <2> QED
        BY <2>1, <2>2, <2>3
<1>5. ASSUME NEW j \in 0..n - 1, j \in N PROVE j + 1 \in N
    <2>1. /\ j \in Nat /\ j + 1 \in 0..n /\ j + 1 \in 1..n /\ j + 1 \in 1..9 /\ (j + 1) - 1 = j /\ j + 1 # 0
          /\ (j + 1) + 1 = j + 2
        BY <1>2
    <2>2. f[j + 1] = f[j] * 10 + s[j + 1]
        <3>1. f[j + 1] = IF j + 1 = 0 THEN 0 ELSE f[(j + 1) - 1] * 10 + s[j + 1]
            BY <1>3, <2>1, PlacesAt
        <3> QED
            BY <2>1, <3>1
    <2>3. s[j + 1] \in 0..9 /\ f[j] \in Nat /\ f[j] < Powers10[j + 1]
        BY <1>1, <1>5, <2>1 DEF n
    <2>4. Powers10[j + 1] \in Nat /\ Powers10[j + 2] = 10 * Powers10[j + 1]
        BY <2>1, PowersOfTen
    <2> DEFINE x == f[j]
               y == s[j + 1]
               p == Powers10[j + 1]
    <2>5. x \in Nat /\ y \in 0..9 /\ p \in Nat /\ x < p
        BY <2>3, <2>4
    <2>6. f[j + 1] = x * 10 + y /\ Powers10[(j + 1) + 1] = 10 * p
        BY <2>1, <2>2, <2>4
    <2> HIDE DEF x, y, p
    <2>7. x * 10 + y \in Nat /\ x * 10 + y < 10 * p
        BY <2>5
    <2> QED
        BY <2>1, <2>6, <2>7
<1> HIDE DEF N
<1>6. 0..n \subseteq N
    BY <1>2, <1>4, <1>5, UpTo
<1>7. n \in N
    BY <1>2, <1>6
<1> QED
    BY <1>3, <1>7 DEF N, n

\* z zeros in front of digits.
HasZerosInFront(w, s, z) ==
    /\ AreDigits(w) /\ AreDigits(s) /\ z \in Nat /\ Len(w) = z + Len(s)
    /\ \A i \in 1..z : w[i] = 0
    /\ \A i \in 1..Len(s) : w[z + i] = s[i]

\* They do not change their number.
LEMMA ZerosInFront ==
    ASSUME NEW w, NEW s, NEW z, HasZerosInFront(w, s, z)
    PROVE  Number(w) = Number(s)
<1> /\ AreDigits(w) /\ AreDigits(s) /\ z \in Nat /\ Len(w) = z + Len(s)
    /\ \A i \in 1..z : w[i] = 0
    /\ \A i \in 1..Len(s) : w[z + i] = s[i]
    BY DEF HasZerosInFront
<1> DEFINE n == Len(s)
<1>1. IsSeq(s) /\ IsSeq(w) /\ n \in Nat /\ \A i \in 1..n : s[i] \in Int
    <2>1. IsSeq(s) /\ IsSeq(w) /\ \A i \in 1..n : s[i] \in 0..9
        BY DEF AreDigits
    <2> QED
        BY <2>1, SeqFacts
<1>2. PICK f : Places(f, w, 10, z + n) /\ Number(w) = f[z + n]
    BY <1>1, NumberIs
<1>3. PICK g : Places(g, s, 10, n) /\ Number(s) = g[n]
    BY <1>1, NumberIs
<1>4. /\ \A i \in 1..z : w[i] = 0
      /\ \A i \in 1..n : w[z + i] = s[i]
    OBVIOUS
<1> HIDE DEF n
<1> DEFINE Z == {j \in 0..z : f[j] = 0}
           N == {j \in 0..n : f[z + j] = g[j]}
<1>5. 0 \in Z
    <2>1. 0 \in 0..z + n /\ 0 \in 0..z
        BY <1>1
    <2> QED
        BY <1>2, <2>1, PlacesAt
<1>6. ASSUME NEW j \in 0..z - 1, j \in Z PROVE j + 1 \in Z
    <2>1. j + 1 \in 0..z + n /\ j + 1 \in 1..z /\ j + 1 \in 0..z /\ (j + 1) - 1 = j /\ j + 1 # 0
        BY <1>1
    <2>2. f[j + 1] = IF j + 1 = 0 THEN 0 ELSE f[(j + 1) - 1] * 10 + w[j + 1]
        BY <1>2, <2>1, PlacesAt
    <2>3. f[j + 1] = 0 * 10 + 0
        BY <1>4, <1>6, <2>1, <2>2
    <2> QED
        BY <2>1, <2>3
<1> HIDE DEF Z
<1>7. z \in Z
    <2>1. 0..z \subseteq Z
        BY <1>5, <1>6, UpTo
    <2> QED
        BY <2>1
<1>8. 0 \in N
    <2>1. 0 \in 0..n /\ z + 0 = z
        BY <1>1
    <2>2. g[0] = 0
        BY <1>3, <2>1, PlacesAt
    <2> QED
        BY <1>7, <2>1, <2>2 DEF Z
<1>9. ASSUME NEW j \in 0..n - 1, j \in N PROVE j + 1 \in N
    <2>1. /\ j + 1 \in 0..n /\ j + 1 \in 1..n /\ (j + 1) - 1 = j /\ j + 1 # 0
          /\ z + (j + 1) \in 0..z + n /\ (z + (j + 1)) - 1 = z + j /\ z + (j + 1) # 0
        BY <1>1
    <2>2. f[z + (j + 1)] = f[z + j] * 10 + w[z + (j + 1)]
        <3>1. f[z + (j + 1)] = IF z + (j + 1) = 0 THEN 0 ELSE f[(z + (j + 1)) - 1] * 10 + w[z + (j + 1)]
            BY <1>2, <2>1, PlacesAt
        <3> QED
            BY <2>1, <3>1
    <2>3. g[j + 1] = g[j] * 10 + s[j + 1]
        <3>1. g[j + 1] = IF j + 1 = 0 THEN 0 ELSE g[(j + 1) - 1] * 10 + s[j + 1]
            BY <1>3, <2>1, PlacesAt
        <3> QED
            BY <2>1, <3>1
    <2> QED
        BY <1>4, <1>9, <2>1, <2>2, <2>3
<1> HIDE DEF N
<1>10. n \in N
    <2>1. 0..n \subseteq N
        BY <1>1, <1>8, <1>9, UpTo
    <2> QED
        BY <1>1, <2>1
<1> QED
    BY <1>2, <1>3, <1>10 DEF N

\* z zeros behind digits.
HasZerosBehind(w, s, z) ==
    /\ AreDigits(w) /\ AreDigits(s) /\ z \in 0..9 /\ Len(w) = Len(s) + z /\ Len(s) <= 9
    /\ \A i \in 1..z : w[Len(s) + i] = 0
    /\ \A i \in 1..Len(s) : w[i] = s[i]

\* They multiply their number.
LEMMA ZerosBehind ==
    ASSUME NEW w, NEW s, NEW z, HasZerosBehind(w, s, z)
    PROVE  Number(w) = Number(s) * Powers10[z + 1]
<1> /\ AreDigits(w) /\ AreDigits(s) /\ z \in 0..9 /\ Len(w) = Len(s) + z /\ Len(s) <= 9
    /\ \A i \in 1..z : w[Len(s) + i] = 0
    /\ \A i \in 1..Len(s) : w[i] = s[i]
    BY DEF HasZerosBehind
<1> DEFINE n == Len(s)
           x == Number(s)
<1>1. IsSeq(s) /\ IsSeq(w) /\ n \in Nat /\ x \in Nat
    <2>1. IsSeq(s) /\ IsSeq(w)
        BY DEF AreDigits
    <2> QED
        BY <2>1, SeqFacts, NumberBound
<1>2. PICK f : Places(f, w, 10, n + z) /\ Number(w) = f[n + z]
    BY <1>1, NumberIs
<1>3. PICK g : Places(g, s, 10, n) /\ x = g[n]
    BY <1>1, NumberIs
<1>4. /\ \A i \in 1..n : w[i] = s[i]
      /\ \A i \in 1..z : w[n + i] = 0
    OBVIOUS
<1> HIDE DEF n, x
<1> DEFINE N == {j \in 0..n : f[j] = g[j]}
           Z == {j \in 0..z : f[n + j] = x * Powers10[j + 1]}
<1>5. 0 \in N
    <2>1. 0 \in 0..n + z /\ 0 \in 0..n
        BY <1>1
    <2> QED
        BY <1>2, <1>3, <2>1, PlacesAt
<1>6. ASSUME NEW j \in 0..n - 1, j \in N PROVE j + 1 \in N
    <2>1. j + 1 \in 0..n + z /\ j + 1 \in 1..n /\ j + 1 \in 0..n /\ (j + 1) - 1 = j /\ j + 1 # 0
        BY <1>1
    <2>2. f[j + 1] = f[j] * 10 + w[j + 1]
        <3>1. f[j + 1] = IF j + 1 = 0 THEN 0 ELSE f[(j + 1) - 1] * 10 + w[j + 1]
            BY <1>2, <2>1, PlacesAt
        <3> QED
            BY <2>1, <3>1
    <2>3. g[j + 1] = g[j] * 10 + s[j + 1]
        <3>1. g[j + 1] = IF j + 1 = 0 THEN 0 ELSE g[(j + 1) - 1] * 10 + s[j + 1]
            BY <1>3, <2>1, PlacesAt
        <3> QED
            BY <2>1, <3>1
    <2> QED
        BY <1>4, <1>6, <2>1, <2>2, <2>3
<1> HIDE DEF N
<1>7. n \in N
    <2>1. 0..n \subseteq N
        BY <1>1, <1>5, <1>6, UpTo
    <2> QED
        BY <1>1, <2>1
<1>8. 0 \in Z
    <2>1. 0 \in 0..z /\ n + 0 = n /\ 0 + 1 = 1 /\ x * 1 = x
        BY <1>1
    <2> QED
        BY <1>3, <1>7, <2>1, PowersOfTen DEF N
<1>9. ASSUME NEW j \in 0..z - 1, j \in Z PROVE j + 1 \in Z
    <2>1. /\ j \in 0..8 /\ j + 1 \in 1..9 /\ j + 1 \in 1..z /\ j + 1 \in 0..z /\ (j + 1) + 1 = j + 2
          /\ n + (j + 1) \in 0..n + z /\ (n + (j + 1)) - 1 = n + j /\ n + (j + 1) # 0
        BY <1>1
    <2>2. f[n + (j + 1)] = f[n + j] * 10 + 0
        <3>1. f[n + (j + 1)] = IF n + (j + 1) = 0 THEN 0 ELSE f[(n + (j + 1)) - 1] * 10 + w[n + (j + 1)]
            BY <1>2, <2>1, PlacesAt
        <3> QED
            BY <1>4, <2>1, <3>1
    <2> DEFINE p == Powers10[j + 1]
    <2>3. p \in Nat /\ Powers10[j + 2] = 10 * p /\ f[n + j] = x * p
        BY <1>9, <2>1, PowersOfTen
    <2> HIDE DEF p
    <2>4. (x * p) * 10 + 0 = x * (10 * p)
        BY <1>1, <2>3
    <2> QED
        BY <2>1, <2>2, <2>3, <2>4
<1> HIDE DEF Z
<1>10. z \in Z
    <2>1. 0..z \subseteq Z
        BY <1>8, <1>9, UpTo, SMTT(30)
    <2> QED
        BY <2>1
<1> QED
    BY <1>2, <1>10 DEF Z, x, n

\* The bytes for a number of digits are enough, and the first bit of them is not needed.
LEMMA DigitsFit ==
    ASSUME NEW n \in 0..9, NEW x \in Nat, x < Powers10[n + 1]
    PROVE  /\ Dig2Bytes(n) \in 0..4 /\ FitsInto(x, Dig2Bytes(n))
           /\ n # 0 => Dig2Bytes(n) \in 1..4 /\ HighBytes(x, Dig2Bytes(n))[1] < 128
<1> DEFINE size == Dig2Bytes(n)
<1>1. /\ Powers10[1] = 1 /\ Powers10[2] = 10 /\ Powers10[3] = 100 /\ Powers10[4] = 1000
      /\ Powers10[5] = 10000 /\ Powers10[6] = 100000 /\ Powers10[7] = 1000000
      /\ Powers10[8] = 10000000 /\ Powers10[9] = 100000000 /\ Powers10[10] = 1000000000
    BY DEF Powers10
<1>2. /\ Powers256[1] = 1 /\ Powers256[2] = 256 /\ Powers256[3] = 65536 /\ Powers256[4] = 16777216
    BY DEF Powers256
<1>3. ASSUME NEW s \in 1..4 PROVE HighBytes(x, s)[1] = (x \div Powers256[s]) % 256
    <2>1. 1 \in 1..s /\ (s - 1) + 1 = s
        OBVIOUS
    <2> QED
        BY <2>1 DEF HighBytes
<1>4. CASE n = 0
    <2>1. size = 0
        BY <1>4 DEF Dig2Bytes
    <2>2. x = 0
        BY <1>1, <1>4
    <2> HIDE DEF size
    <2>3. FitsInto(x, 0)
        BY <2>2 DEF FitsInto
    <2> QED
        BY <1>4, <2>1, <2>3 DEF size
<1>5. CASE n \in {1, 2}
    <2>1. size = 1 /\ n # 0
        BY <1>5 DEF Dig2Bytes
    <2>2. x < 100
        BY <1>1, <1>5
    <2>3. FitsInto(x, 1)
        BY <2>2 DEF FitsInto
    <2>4. (x \div 1) % 256 < 128
        BY <2>2
    <2>5. HighBytes(x, 1)[1] < 128
        BY <1>2, <1>3, <2>4
    <2> HIDE DEF size
    <2> QED
        BY <2>1, <2>3, <2>5 DEF size
<1>6. CASE n \in {3, 4}
    <2>1. size = 2 /\ n # 0
        BY <1>6 DEF Dig2Bytes
    <2>2. x < 10000
        BY <1>1, <1>6
    <2>3. FitsInto(x, 2)
        BY <2>2 DEF FitsInto
    <2>4. (x \div 256) % 256 < 128
        BY <2>2
    <2>5. HighBytes(x, 2)[1] < 128
        BY <1>2, <1>3, <2>4
    <2> HIDE DEF size
    <2> QED
        BY <2>1, <2>3, <2>5 DEF size
<1>7. CASE n \in {5, 6}
    <2>1. size = 3 /\ n # 0
        BY <1>7 DEF Dig2Bytes
    <2>2. x < 1000000
        BY <1>1, <1>7
    <2>3. FitsInto(x, 3)
        BY <2>2 DEF FitsInto
    <2>4. (x \div 65536) % 256 < 128
        BY <2>2
    <2>5. HighBytes(x, 3)[1] < 128
        BY <1>2, <1>3, <2>4
    <2> HIDE DEF size
    <2> QED
        BY <2>1, <2>3, <2>5 DEF size
<1>8. CASE n \in {7, 8, 9}
    <2>1. size = 4 /\ n # 0
        BY <1>8 DEF Dig2Bytes
    <2>2. x < 1000000000
        BY <1>1, <1>8
    <2>3. FitsInto(x, 4)
        BY <2>2 DEF FitsInto
    <2>4. (x \div 16777216) % 256 < 128
        BY <2>2
    <2>5. HighBytes(x, 4)[1] < 128
        BY <1>2, <1>3, <2>4
    <2> HIDE DEF size
    <2> QED
        BY <2>1, <2>3, <2>5 DEF size
<1> QED
    BY <1>4, <1>5, <1>6, <1>7, <1>8

\* How decimal2bin stores a sign, and how bin2decimal takes it off.
Inverted(plain, negative) ==
    [[i \in DOMAIN plain |-> IF negative THEN 255 - plain[i] ELSE plain[i]] EXCEPT ![1] = (@ + 128) % 256]
Plain(from) ==
    [i \in DOMAIN from |->
        IF from[1] < 128 THEN 255 - [from EXCEPT ![1] = (@ + 128) % 256][i]
                         ELSE [from EXCEPT ![1] = (@ + 128) % 256][i]]

\* The sign is taken off as it was stored.
LEMMA SignRead ==
    ASSUME NEW plain, IsSeq(plain), Len(plain) # 0, \A i \in 1..Len(plain) : plain[i] \in 0..255,
           plain[1] < 128, NEW negative \in BOOLEAN
    PROVE  /\ Inverted(plain, negative)[1] < 128 <=> negative
           /\ Plain(Inverted(plain, negative)) = plain
<1> DEFINE n == Len(plain)
           bytes == Inverted(plain, negative)
           flipped == [bytes EXCEPT ![1] = (@ + 128) % 256]
<1>1. /\ n \in Nat \ {0} /\ DOMAIN plain = 1..n
      /\ \A i \in 1..n : plain[i] \in 0..255
    BY SeqFacts
<1> HIDE DEF n
<1>2. bytes = [i \in 1..n |-> IF i = 1
                              THEN ((IF negative THEN 255 - plain[1] ELSE plain[1]) + 128) % 256
                              ELSE IF negative THEN 255 - plain[i] ELSE plain[i]]
    BY <1>1 DEF Inverted
<1>3. Plain(bytes) = [i \in DOMAIN bytes |-> IF bytes[1] < 128 THEN 255 - flipped[i] ELSE flipped[i]]
    BY DEF Plain
<1> HIDE DEF bytes
<1>4. /\ DOMAIN bytes = 1..n
      /\ bytes[1] = ((IF negative THEN 255 - plain[1] ELSE plain[1]) + 128) % 256
      /\ \A i \in 2..n : bytes[i] = IF negative THEN 255 - plain[i] ELSE plain[i]
    <2>1. 1 \in 1..n /\ \A i \in 2..n : i \in 1..n /\ i # 1
        BY <1>1
    <2> QED
        BY <1>2, <2>1
<1>5. flipped = [i \in 1..n |-> IF i = 1 THEN (bytes[1] + 128) % 256 ELSE bytes[i]]
    BY <1>4
<1>6. /\ flipped[1] = (bytes[1] + 128) % 256
      /\ \A i \in 2..n : flipped[i] = bytes[i]
    <2>1. 1 \in 1..n /\ \A i \in 2..n : i \in 1..n /\ i # 1
        BY <1>1
    <2> DEFINE c == (bytes[1] + 128) % 256
    <2>2. flipped = [i \in 1..n |-> IF i = 1 THEN c ELSE bytes[i]]
        BY <1>5
    <2> HIDE DEF flipped, c
    <2>3. flipped[1] = c /\ \A i \in 2..n : flipped[i] = bytes[i]
        BY <2>1, <2>2
    <2> QED
        BY <2>3 DEF c
<1> HIDE DEF flipped
<1>7. plain[1] \in Int /\ plain[1] >= 0 /\ plain[1] < 128
    <2>1. 1 \in 1..n
        BY <1>1
    <2>2. plain[1] \in 0..255
        BY <1>1, <2>1, Zenon
    <2>3. plain[1] < 128
        OBVIOUS
    <2>4. \A p \in 0..255 : p \in Int /\ p >= 0
        OBVIOUS
    <2> QED
        BY <2>2, <2>3, <2>4, Zenon
<1>8. plain = [i \in 1..n |-> plain[i]]
    BY SeqFacts DEF n
<1>9. CASE negative
    <2>1. bytes[1] = 127 - plain[1]
        BY <1>4, <1>7, <1>9
    <2>2. flipped[1] = 255 - plain[1]
        BY <1>6, <1>7, <2>1
    <2>3. bytes[1] < 128
        BY <1>7, <2>1
    <2>4. ASSUME NEW i \in 1..n PROVE 255 - flipped[i] = plain[i]
        <3>1. CASE i = 1
            BY <1>7, <2>2, <3>1
        <3>2. CASE i # 1
            <4>1. i \in 2..n /\ plain[i] \in Int
                <5>1. plain[i] \in 0..255
                    BY <1>1, Zenon
                <5>2. i \in 2..n
                    BY <1>1, <3>2
                <5>3. \A p \in 0..255 : p \in Int
                    OBVIOUS
                <5> QED
                    BY <5>1, <5>2, <5>3, Zenon
            <4>2. flipped[i] = 255 - plain[i]
                BY <1>4, <1>6, <1>9, <4>1
            <4> QED
                BY <4>1, <4>2
        <3> QED
            BY <3>1, <3>2
    <2>5. Plain(bytes) = [i \in 1..n |-> plain[i]]
        BY <1>3, <1>4, <2>3, <2>4
    <2> QED
        BY <1>8, <1>9, <2>3, <2>5 DEF bytes
<1>10. CASE ~negative
    <2>1. bytes[1] = plain[1] + 128
        BY <1>4, <1>7, <1>10
    <2>2. flipped[1] = plain[1]
        <3>1. \A p \in Int : p >= 0 /\ p < 128 => ((p + 128) + 128) % 256 = p
            OBVIOUS
        <3> QED
            BY <1>6, <1>7, <2>1, <3>1
    <2>3. ~(bytes[1] < 128)
        BY <1>7, <2>1
    <2>4. ASSUME NEW i \in 1..n PROVE flipped[i] = plain[i]
        <3>1. CASE i = 1
            BY <2>2, <3>1
        <3>2. CASE i # 1
            <4>1. i \in 2..n
                BY <1>1, <3>2
            <4> QED
                BY <1>4, <1>6, <1>10, <4>1
        <3> QED
            BY <3>1, <3>2
    <2>5. Plain(bytes) = [i \in 1..n |-> plain[i]]
        BY <1>3, <1>4, <2>3, <2>4
    <2> QED
        BY <1>8, <1>10, <2>3, <2>5 DEF bytes
<1> QED
    BY <1>9, <1>10

\* Bytes.
AreBytes(s) == IsSeq(s) /\ \A i \in 1..Len(s) : s[i] \in 0..255

\* Bytes put together are bytes.
LEMMA FlattenBytes ==
    ASSUME NEW seqs, NEW n \in Nat, \A i \in 1..n : AreBytes(seqs[i])
    PROVE  AreBytes(FlattenSeq(Prefix(seqs, n)))
<1> DEFINE N == {k \in 0..n : AreBytes(FlattenSeq(Prefix(seqs, k)))}
<1>1. 0 \in N
    <2>1. FlattenSeq(Prefix(seqs, 0)) = << >>
        BY FlattenEmpty
    <2>2. AreBytes(<< >>)
        BY EmptyIsSeq DEF AreBytes
    <2> QED
        BY <2>1, <2>2
<1>2. ASSUME NEW k \in 0..n - 1, k \in N PROVE k + 1 \in N
    <2> DEFINE s == FlattenSeq(Prefix(seqs, k))
               t == seqs[k + 1]
    <2>1. /\ k \in Nat /\ k + 1 \in Nat \ {0} /\ k + 1 \in 0..n /\ k + 1 \in 1..n /\ (k + 1) - 1 = k
          /\ \A j \in 1..k + 1 : j \in 1..n
        OBVIOUS
    <2>2. \A j \in 1..k + 1 : IsSeq(seqs[j])
        BY <2>1 DEF AreBytes
    <2>3. FlattenSeq(Prefix(seqs, k + 1)) = s \o t
        BY <2>1, <2>2, FlattenStep
    <2>4. AreBytes(s) /\ AreBytes(t)
        BY <1>2, <2>1
    <2> HIDE DEF s, t
    <2>5. /\ IsSeq(s) /\ IsSeq(t) /\ Len(s) \in Nat /\ Len(t) \in Nat
          /\ \A i \in 1..Len(s) : s[i] \in 0..255
          /\ \A i \in 1..Len(t) : t[i] \in 0..255
        BY <2>4, SeqFacts DEF AreBytes
    <2>6. /\ IsSeq(s \o t) /\ Len(s \o t) = Len(s) + Len(t)
          /\ \A i \in 1..Len(s) : (s \o t)[i] = s[i]
          /\ \A i \in 1..Len(t) : (s \o t)[Len(s) + i] = t[i]
        BY <2>5, ConcatIsSeq
    <2>7. ASSUME NEW i \in 1..Len(s \o t) PROVE (s \o t)[i] \in 0..255
        <3>1. CASE i <= Len(s)
            <4>1. i \in 1..Len(s)
                BY <2>5, <2>6, <3>1
            <4> QED
                BY <2>5, <2>6, <4>1, Zenon
        <3>2. CASE ~(i <= Len(s))
            <4>1. i - Len(s) \in 1..Len(t) /\ Len(s) + (i - Len(s)) = i
                BY <2>5, <2>6, <3>2
            <4>2. (s \o t)[Len(s) + (i - Len(s))] = t[i - Len(s)] /\ t[i - Len(s)] \in 0..255
                BY <2>5, <2>6, <4>1, Zenon
            <4> QED
                BY <4>1, <4>2, Zenon
        <3> QED
            BY <3>1, <3>2
    <2>8. AreBytes(s \o t)
        BY <2>6, <2>7 DEF AreBytes
    <2> QED
        BY <2>1, <2>3, <2>8
<1> HIDE DEF N
<1>3. 0..n \subseteq N
    BY <1>1, <1>2, UpTo
<1>4. n \in 0..n
    OBVIOUS
<1> QED
    BY <1>3, <1>4 DEF N

\* The DECIMALs that the server declares.
IsDecimal(precision, scale) == precision \in 1..65 /\ scale \in 0..30 /\ scale <= precision

\* All digits are read.
LayoutHas(precision, scale, a, m, k, b) ==
    Layout(precision, scale) = [skip |-> 0, intg0x |-> a, intg0 |-> m, frac0 |-> k, frac0x |-> b]

\* No DECIMAL of the server is too long for the buffer of bin2decimal.
LEMMA LayoutIs ==
    ASSUME NEW precision, NEW scale, IsDecimal(precision, scale),
           NEW a, NEW b, NEW m, NEW k, NEW a1, NEW b1, Shape(precision, scale, a, b, m, k, a1, b1)
    PROVE  LayoutHas(precision, scale, a, m, k, b)
<1>1. precision \in 1..65 /\ scale \in 0..30 /\ scale <= precision
    BY DEF IsDecimal
<1>2. ((precision - scale) + 9 - 1) \div 9 + (scale + 9 - 1) \div 9 <= 9
    <2> DEFINE x == ((precision - scale) + 9 - 1) \div 9
               y == (scale + 9 - 1) \div 9
    <2>1. x \in Int /\ 9 * x <= (precision - scale) + 8
        BY <1>1
    <2>2. y \in Int /\ 9 * y <= scale + 8
        BY <1>1
    <2> HIDE DEF x, y
    <2>3. x + y <= 9
        BY <1>1, <2>1, <2>2
    <2> QED
        BY <2>3 DEF x, y
<1> QED
    BY <1>2 DEF LayoutHas, Layout, Shape, DigPerDec1, DecimalBuffLength

\* What decimal2bin writes before it stores the sign.
PlainOf(precision, scale, digits) == FlattenSeq(PiecesOf(Groups(precision, scale, digits)))

\* A value is that with its sign.
LEMMA WrittenIs ==
    ASSUME NEW precision, NEW scale, NEW value
    PROVE  DecimalBytes(precision, scale, value) = Inverted(PlainOf(precision, scale, Tail(value)), value[1] = 1)
BY DEF DecimalBytes, Inverted, PlainOf, PiecesOf

\* A slice of digits is digits.
LEMMA DigitSlice ==
    ASSUME NEW s, AreDigits(s), NEW from \in Nat, NEW n \in Nat, from + n <= Len(s)
    PROVE  /\ AreDigits(Slice(s, from, n)) /\ Len(Slice(s, from, n)) = n
           /\ \A i \in 1..n : Slice(s, from, n)[i] = s[from + i]
<1>1. IsSeq(s) /\ Len(s) \in Nat /\ \A i \in 1..Len(s) : s[i] \in 0..9
    BY SeqFacts DEF AreDigits
<1>2. IsSeq(Slice(s, from, n)) /\ Len(Slice(s, from, n)) = n
    BY <1>1, SliceIsSeq
<1>3. ASSUME NEW i \in 1..n PROVE Slice(s, from, n)[i] = s[from + i] /\ s[from + i] \in 0..9
    <2>1. i + (from + 1) - 1 = from + i /\ from + i \in 1..Len(s) /\ i \in 1..(from + n) - (from + 1) + 1
        BY <1>1
    <2>2. SubSeq(s, from + 1, from + n)[i] = s[i + (from + 1) - 1]
        BY <2>1
    <2> QED
        BY <1>1, <2>1, <2>2, Zenon DEF Slice
<1> QED
    BY <1>2, <1>3 DEF AreDigits

\* The digits in front of a group.
FirstDigit(precision, a, b, m, k, a1, i) ==
    IF i <= a1 THEN 0 ELSE IF i <= a1 + m + k THEN a + 9 * ((i - a1) - 1) ELSE precision - b

\* The i-th group is the digits from there on, as many as are left for it.
IsGroup(group, i, precision, digits, a, b, m, k, a1) ==
    /\ AreDigits(group) /\ Len(group) \in 1..9
    /\ Len(group) = IF i <= a1 THEN a ELSE IF i <= a1 + m + k THEN 9 ELSE b
    /\ \A j \in 1..Len(group) : group[j] = digits[FirstDigit(precision, a, b, m, k, a1, i) + j]

\* Groups cuts the digits into such groups.
LEMMA GroupIs ==
    ASSUME NEW precision \in Nat \ {0}, NEW scale \in Nat, scale <= precision,
           NEW digits, AreDigits(digits), Len(digits) = precision,
           NEW a, NEW b, NEW m, NEW k, NEW a1, NEW b1, Shape(precision, scale, a, b, m, k, a1, b1),
           NEW groups, groups = Groups(precision, scale, digits)
    PROVE  /\ IsSeq(groups) /\ Len(groups) = a1 + m + k + b1
           /\ \A i \in 1..a1 + m + k + b1 : IsGroup(groups[i], i, precision, digits, a, b, m, k, a1)
<1> DEFINE n == a1 + m + k + b1
           Start(i) == FirstDigit(precision, a, b, m, k, a1, i)
           Size(i) == IF i <= a1 THEN a ELSE IF i <= a1 + m + k THEN 9 ELSE b
<1>1. /\ a \in Nat /\ a < 9 /\ m \in Nat /\ b \in Nat /\ b < 9 /\ k \in Nat
      /\ a1 \in {0, 1} /\ b1 \in {0, 1} /\ (a1 = 0 <=> a = 0) /\ (b1 = 0 <=> b = 0)
      /\ precision - scale = a + 9 * m /\ scale = b + 9 * k /\ n \in Nat \ {0}
    BY ShapeIs
<1>2. IsSeq(digits)
    BY DEF AreDigits
<1>3. /\ IsSeq(groups) /\ Len(groups) = n
      /\ \A i \in 1..n : groups[i] = IF i <= a1 THEN Slice(digits, 0, a)
                             ELSE IF i <= a1 + m + k THEN Slice(digits, a + 9 * ((i - a1) - 1), 9)
                             ELSE Slice(digits, precision - b, b)
    <2>1. AreGroups(Groups(precision, scale, digits), digits, precision, scale)
        BY <1>2, GroupsAre
    <2> QED
        BY <2>1 DEF AreGroups, Shape
<1>4. ASSUME NEW i \in 1..n
      PROVE  /\ groups[i] = Slice(digits, Start(i), Size(i))
             /\ Start(i) \in Nat /\ Size(i) \in 1..9 /\ Start(i) + Size(i) <= precision
    <2>1. groups[i] = Slice(digits, Start(i), Size(i))
        BY <1>3 DEF FirstDigit
    <2>2. CASE i <= a1
        BY <1>1, <2>1, <2>2 DEF FirstDigit
    <2>3. CASE ~(i <= a1) /\ i <= a1 + m + k
        BY <1>1, <2>1, <2>3 DEF FirstDigit
    <2>4. CASE ~(i <= a1) /\ ~(i <= a1 + m + k)
        BY <1>1, <2>1, <2>4 DEF FirstDigit
    <2> QED
        BY <2>2, <2>3, <2>4
<1> HIDE DEF Start, Size, n
<1>5. ASSUME NEW i \in 1..n
      PROVE  /\ AreDigits(groups[i]) /\ Len(groups[i]) = Size(i) /\ Len(groups[i]) \in 1..9
             /\ \A j \in 1..Len(groups[i]) : groups[i][j] = digits[Start(i) + j]
    <2> DEFINE from == Start(i)
               size == Size(i)
    <2>1. from \in Nat /\ size \in Nat /\ size \in 1..9 /\ from + size <= Len(digits) /\ groups[i] = Slice(digits, from, size)
        BY <1>4
    <2> HIDE DEF from, size
    <2>2. /\ AreDigits(Slice(digits, from, size)) /\ Len(Slice(digits, from, size)) = size
          /\ \A j \in 1..size : Slice(digits, from, size)[j] = digits[from + j]
        BY <2>1, DigitSlice
    <2> QED
        BY <2>1, <2>2 DEF from, size
<1>6. ASSUME NEW i \in 1..n PROVE IsGroup(groups[i], i, precision, digits, a, b, m, k, a1)
    BY <1>5 DEF IsGroup, Start, Size
<1> QED
    BY <1>3, <1>6 DEF n

\* The number of a group fits into nine digits and into its bytes, whose first bit it does not need.
LEMMA GroupRead ==
    ASSUME NEW s, AreDigits(s), Len(s) \in 1..9
    PROVE  /\ Number(s) \in Nat /\ Number(s) < Powers10[Len(s) + 1]
           /\ Dig2Bytes(Len(s)) \in 1..4
           /\ AreBytes(HighBytes(Number(s), Dig2Bytes(Len(s))))
           /\ Len(HighBytes(Number(s), Dig2Bytes(Len(s)))) = Dig2Bytes(Len(s))
           /\ HighBytes(Number(s), Dig2Bytes(Len(s)))[1] < 128
           /\ High(HighBytes(Number(s), Dig2Bytes(Len(s)))) = Number(s)
<1> DEFINE x == Number(s)
           n == Len(s)
           size == Dig2Bytes(n)
<1>1. x \in Nat /\ x < Powers10[n + 1] /\ n \in 0..9 /\ n # 0
    <2>1. \A l \in 1..9 : l <= 9 /\ l \in 0..9 /\ l # 0
        OBVIOUS
    <2>2. Len(s) <= 9 /\ Len(s) \in 0..9 /\ Len(s) # 0
        BY <2>1, Zenon
    <2> QED
        BY <2>2, NumberBound
<1> HIDE DEF x, n
<1>2. size \in 1..4 /\ FitsInto(x, size) /\ HighBytes(x, size)[1] < 128
    BY <1>1, DigitsFit
<1> HIDE DEF size
<1>3. size \in Nat /\ size \in 0..4 /\ x \in Int
    BY <1>1, <1>2
<1>4. High(HighBytes(x, size)) = x
    BY <1>1, <1>2, <1>3, HighOfHighBytes
<1>5. IsSeq(HighBytes(x, size)) /\ Len(HighBytes(x, size)) = size
    BY <1>3, HighBytesIsSeq
<1>6. \A i \in 1..size : HighBytes(x, size)[i] \in 0..255
    BY <1>2, <1>3, HighBytesAreBytes, Zenon
<1>7. AreBytes(HighBytes(x, size))
    BY <1>5, <1>6, Zenon DEF AreBytes
<1> QED
    BY <1>1, <1>2, <1>4, <1>5, <1>7 DEF x, n, size

\* What is written of the groups is bytes, the first of them without the first bit, and each group
\* is read where it begins.
LEMMA PlainIs ==
    ASSUME NEW precision \in Nat \ {0}, NEW scale \in Nat, scale <= precision,
           NEW digits, AreDigits(digits), Len(digits) = precision,
           NEW a, NEW b, NEW m, NEW k, NEW a1, NEW b1, Shape(precision, scale, a, b, m, k, a1, b1),
           NEW groups, groups = Groups(precision, scale, digits),
           NEW plain, plain = PlainOf(precision, scale, digits)
    PROVE  /\ AreBytes(plain) /\ Len(plain) # 0 /\ plain[1] < 128
           /\ \A i \in 1..a1 + m + k + b1 :
                  High(Slice(plain, PieceStart(a, m, k, a1, i), Dig2Bytes(Len(groups[i])))) = Number(groups[i])
<1> DEFINE n == a1 + m + k + b1
           pieces == PiecesOf(groups)
           Piece(i) == HighBytes(Number(groups[i]), Dig2Bytes(Len(groups[i])))
<1>1. plain = FlattenSeq(pieces)
    BY DEF PlainOf
<1>2. /\ a1 \in {0, 1} /\ (a1 = 0 <=> a = 0) /\ n \in Nat \ {0} /\ m \in Nat /\ k \in Nat
      /\ a \in Nat /\ b \in Nat /\ a < 9 /\ b < 9
    BY ShapeIs
<1>3. IsSeq(groups) /\ Len(groups) = n /\ \A i \in 1..n : AreDigits(groups[i]) /\ Len(groups[i]) \in 1..9
    <2>1. /\ IsSeq(groups) /\ Len(groups) = a1 + m + k + b1
          /\ \A i \in 1..a1 + m + k + b1 : IsGroup(groups[i], i, precision, digits, a, b, m, k, a1)
        BY GroupIs
    <2> QED
        BY <2>1 DEF IsGroup
<1>4. \A i \in 1..n : Reads(plain, PieceStart(a, m, k, a1, i), Piece(i))
    <2>1. IsSeq(digits)
        BY DEF AreDigits
    <2>2. \A i \in 1..n : Reads(FlattenSeq(PiecesOf(groups)), PieceStart(a, m, k, a1, i), Piece(i))
        BY <2>1, PiecesAre
    <2> QED
        BY <1>1, <2>2
<1> HIDE DEF n
<1>5. ASSUME NEW i \in 1..n
      PROVE  /\ Dig2Bytes(Len(groups[i])) \in 1..4
             /\ AreBytes(Piece(i)) /\ Len(Piece(i)) = Dig2Bytes(Len(groups[i]))
             /\ Piece(i)[1] < 128 /\ High(Piece(i)) = Number(groups[i])
    BY <1>3, GroupRead
<1>6. DOMAIN groups = 1..n
    BY <1>3, SeqFacts
<1>7. Prefix(pieces, n) = pieces /\ \A i \in 1..n : pieces[i] = Piece(i)
    BY <1>6 DEF Prefix, PiecesOf
<1> HIDE DEF Piece, pieces
<1>8. AreBytes(plain)
    <2>1. \A i \in 1..n : AreBytes(pieces[i])
        BY <1>5, <1>7
    <2>2. AreBytes(FlattenSeq(Prefix(pieces, n)))
        BY <1>2, <2>1, FlattenBytes
    <2> QED
        BY <1>1, <1>7, <2>2
<1>9. ASSUME NEW i \in 1..n
      PROVE  High(Slice(plain, PieceStart(a, m, k, a1, i), Dig2Bytes(Len(groups[i])))) = Number(groups[i])
    <2>1. Slice(plain, PieceStart(a, m, k, a1, i), Len(Piece(i))) = Piece(i)
        BY <1>4, ReadsSlice
    <2> QED
        BY <1>5, <2>1
<1>10. Len(plain) # 0 /\ plain[1] < 128
    <2>1. 1 \in 1..n
        BY <1>2
    <2>2. PieceStart(a, m, k, a1, 1) = 0
        <3>1. CASE a1 = 1
            BY <3>1 DEF PieceStart
        <3>2. CASE a1 = 0
            <4>1. a = 0 /\ Dig2Bytes(0) = 0
                BY <1>2, <3>2, RestBytes
            <4>2. CASE 1 <= m + k
                <5>1. ~(1 <= a1) /\ 1 <= a1 + m + k /\ 0 + 4 * ((1 - a1) - 1) = 0
                    BY <1>2, <3>2, <4>2
                <5> QED
                    BY <4>1, <5>1 DEF PieceStart
            <4>3. CASE ~(1 <= m + k)
                <5>1. ~(1 <= a1) /\ ~(1 <= a1 + m + k) /\ 0 + 4 * (m + k) = 0
                    BY <1>2, <3>2, <4>3
                <5> QED
                    BY <4>1, <5>1 DEF PieceStart
            <4> QED
                BY <4>2, <4>3
        <3> QED
            BY <1>2, <3>1, <3>2
    <2>3. Reads(plain, 0, Piece(1))
        BY <1>4, <2>1, <2>2
    <2>4. 1 \in 1..Len(Piece(1)) /\ Piece(1)[1] < 128
        BY <1>5, <2>1
    <2>5. plain[0 + 1] = Piece(1)[1] /\ 0 + Len(Piece(1)) <= Len(plain) /\ Len(Piece(1)) \in Nat /\ Len(plain) \in Nat
        BY <2>3, <2>4, ReadsAt, ReadsFacts
    <2>6. 0 + 1 = 1
        OBVIOUS
    <2> QED
        BY <2>4, <2>5, <2>6
<1> QED
    BY <1>8, <1>9, <1>10 DEF n

\* The zeros that fill digits up to nines.
ZerosFor(a) == (9 - a) % 9
Zeros(n) == [i \in 1..((9 - (n % 9)) % 9) |-> 0]
Filled(precision, scale, digits) == Zeros(precision - scale) \o digits \o Zeros(scale)

\* The digits, and zeros on both sides.
LEMMA FilledIs ==
    ASSUME NEW precision \in Nat \ {0}, NEW scale \in Nat, scale <= precision,
           NEW digits, AreDigits(digits), Len(digits) = precision,
           NEW a, NEW b, NEW m, NEW k, NEW a1, NEW b1, Shape(precision, scale, a, b, m, k, a1, b1),
           NEW filled, filled = Filled(precision, scale, digits)
    PROVE  /\ ZerosFor(a) \in Nat /\ ZerosFor(a) + a = 9 * a1
           /\ ZerosFor(b) \in Nat /\ ZerosFor(b) + b = 9 * b1
           /\ AreDigits(filled) /\ Len(filled) = 9 * (a1 + m + k + b1)
           /\ \A j \in 1..ZerosFor(a) : filled[j] = 0
           /\ \A j \in 1..precision : filled[ZerosFor(a) + j] = digits[j]
           /\ \A j \in 1..ZerosFor(b) : filled[ZerosFor(a) + precision + j] = 0
<1> DEFINE z == ZerosFor(a)
           y == ZerosFor(b)
           front == Zeros(precision - scale)
           back == Zeros(scale)
           n == a1 + m + k + b1
<1>1. /\ a \in Nat /\ a < 9 /\ m \in Nat /\ b \in Nat /\ b < 9 /\ k \in Nat
      /\ a1 \in {0, 1} /\ b1 \in {0, 1} /\ (a1 = 0 <=> a = 0) /\ (b1 = 0 <=> b = 0)
      /\ precision - scale = a + 9 * m /\ scale = b + 9 * k
    BY ShapeIs
<1>2. /\ z \in Nat /\ z + a = 9 * a1
      /\ y \in Nat /\ y + b = 9 * b1
    BY <1>1 DEF ZerosFor
<1>3. front = [i \in 1..z |-> 0] /\ back = [i \in 1..y |-> 0]
    BY DEF Zeros, Shape, ZerosFor
<1>4. filled = front \o digits \o back
    BY DEF Filled
<1> HIDE DEF z, y, front, back
<1>5. /\ IsSeq(front) /\ Len(front) = z /\ \A i \in 1..z : front[i] = 0
      /\ IsSeq(back) /\ Len(back) = y /\ \A i \in 1..y : back[i] = 0
    <2>1. front = [i \in 1..z |-> front[i]] /\ back = [i \in 1..y |-> back[i]]
        BY <1>3
    <2>2. IsSeq(front) /\ Len(front) = z
        BY <1>2, <2>1, FunctionIsSeq
    <2>3. IsSeq(back) /\ Len(back) = y
        BY <1>2, <2>1, FunctionIsSeq
    <2> QED
        BY <1>3, <2>2, <2>3
<1>6. IsSeq(digits) /\ \A i \in 1..precision : digits[i] \in 0..9
    BY DEF AreDigits
<1>7. /\ IsSeq(front \o digits) /\ Len(front \o digits) = z + precision
      /\ \A i \in 1..z : (front \o digits)[i] = 0
      /\ \A i \in 1..precision : (front \o digits)[z + i] = digits[i]
    <2>1. IsSeq(front) /\ IsSeq(digits)
        BY <1>5, <1>6
    <2>2. /\ IsSeq(front \o digits) /\ Len(front \o digits) = Len(front) + Len(digits)
          /\ \A i \in 1..Len(front) : (front \o digits)[i] = front[i]
          /\ \A i \in 1..Len(digits) : (front \o digits)[Len(front) + i] = digits[i]
        BY <2>1, ConcatIsSeq
    <2> QED
        BY <2>2, <1>5
<1>8. /\ IsSeq(filled) /\ Len(filled) = z + precision + y
      /\ \A i \in 1..z + precision : filled[i] = (front \o digits)[i]
      /\ \A i \in 1..y : filled[z + precision + i] = back[i]
    <2>1. IsSeq(front \o digits) /\ IsSeq(back)
        BY <1>5, <1>7
    <2>2. /\ IsSeq(front \o digits \o back) /\ Len(front \o digits \o back) = Len(front \o digits) + Len(back)
          /\ \A i \in 1..Len(front \o digits) : (front \o digits \o back)[i] = (front \o digits)[i]
          /\ \A i \in 1..Len(back) : (front \o digits \o back)[Len(front \o digits) + i] = back[i]
        BY <2>1, ConcatIsSeq
    <2>3. Len(front \o digits) = z + precision /\ Len(back) = y
        BY <1>5, <1>7
    <2> QED
        BY <2>2, <2>3, <1>4
<1>9. /\ \A j \in 1..z : filled[j] = 0
      /\ \A j \in 1..precision : filled[z + j] = digits[j]
      /\ \A j \in 1..y : filled[z + precision + j] = 0
    <2>1. \A j \in 1..z : j \in 1..z + precision
        BY <1>2
    <2>2. \A j \in 1..precision : z + j \in 1..z + precision
        BY <1>2
    <2>3. \A j \in 1..z : filled[j] = 0
        BY Zenon, <2>1, <1>7, <1>8
    <2>4. \A j \in 1..precision : filled[z + j] = digits[j]
        BY Zenon, <2>2, <1>7, <1>8
    <2>5. \A j \in 1..y : filled[z + precision + j] = 0
        BY <1>5, <1>8
    <2> QED
        BY <2>3, <2>4, <2>5
<1>10. AreDigits(filled)
    <2>1. ASSUME NEW i \in 1..Len(filled) PROVE filled[i] \in 0..9
        <3>1. 0 \in 0..9
            OBVIOUS
        <3>2. CASE i <= z
            <4>1. i \in 1..z
                BY <1>2, <1>8, <3>2
            <4> QED
                BY <1>9, <3>1, <4>1, Zenon
        <3>3. CASE ~(i <= z) /\ i <= z + precision
            <4>1. i - z \in 1..precision /\ z + (i - z) = i
                BY <1>2, <1>8, <3>3
            <4>2. filled[z + (i - z)] \in 0..9
                BY <1>6, <1>9, <4>1, Zenon
            <4> QED
                BY <4>1, <4>2, Zenon
        <3>4. CASE ~(i <= z + precision)
            <4>1. i - (z + precision) \in 1..y /\ z + precision + (i - (z + precision)) = i
                BY <1>2, <1>8, <3>4
            <4>2. filled[z + precision + (i - (z + precision))] \in 0..9
                BY <1>9, <3>1, <4>1, Zenon
            <4> QED
                BY <4>1, <4>2, Zenon
        <3> QED
            BY <3>2, <3>3, <3>4
    <2> QED
        BY <1>8, <2>1 DEF AreDigits
<1>11. Len(filled) = 9 * n
    BY <1>1, <1>2, <1>8
<1> QED
    BY <1>2, <1>9, <1>10, <1>11 DEF z, y

\* A word of filled digits is the number of its group, moved up to the point if it is the last.
WordOfGroup(a, b, m, k, a1, group, i) ==
    IF i <= a1 + m + k THEN Number(group) ELSE Number(group) * Powers10[9 - b + 1]

\* Each word of the filled digits is the one of its group.
LEMMA FilledWord ==
    ASSUME NEW precision \in Nat \ {0}, NEW scale \in Nat, scale <= precision,
           NEW digits, AreDigits(digits), Len(digits) = precision,
           NEW a, NEW b, NEW m, NEW k, NEW a1, NEW b1, Shape(precision, scale, a, b, m, k, a1, b1),
           NEW groups, groups = Groups(precision, scale, digits),
           NEW filled, filled = Filled(precision, scale, digits), NEW i \in 1..a1 + m + k + b1
    PROVE  Number(Slice(filled, 9 * (i - 1), 9)) = WordOfGroup(a, b, m, k, a1, groups[i], i)
<1> DEFINE n == a1 + m + k + b1
           z == ZerosFor(a)
           y == ZerosFor(b)
           at == 9 * (i - 1)
           w == Slice(filled, at, 9)
           g == groups[i]
           from == FirstDigit(precision, a, b, m, k, a1, i)
<1>1. /\ a \in Nat /\ a < 9 /\ m \in Nat /\ b \in Nat /\ b < 9 /\ k \in Nat
      /\ a1 \in {0, 1} /\ b1 \in {0, 1} /\ (a1 = 0 <=> a = 0) /\ (b1 = 0 <=> b = 0)
      /\ precision - scale = a + 9 * m /\ scale = b + 9 * k
    BY ShapeIs
<1>2. /\ z \in Nat /\ z + a = 9 * a1 /\ y \in Nat /\ y + b = 9 * b1
      /\ AreDigits(filled) /\ Len(filled) = 9 * n
      /\ \A j \in 1..z : filled[j] = 0
      /\ \A j \in 1..precision : filled[z + j] = digits[j]
      /\ \A j \in 1..y : filled[z + precision + j] = 0
    BY FilledIs
<1>3. /\ AreDigits(g) /\ Len(g) \in 1..9
      /\ Len(g) = IF i <= a1 THEN a ELSE IF i <= a1 + m + k THEN 9 ELSE b
      /\ \A j \in 1..Len(g) : g[j] = digits[from + j]
    <2>1. IsGroup(g, i, precision, digits, a, b, m, k, a1)
        BY GroupIs
    <2> QED
        BY <2>1 DEF IsGroup
<1>4. /\ AreDigits(w) /\ Len(w) = 9
      /\ \A j \in 1..9 : w[j] = filled[at + j]
    <2>1. AreDigits(filled) /\ at \in Nat /\ 9 \in Nat /\ at + 9 <= Len(filled)
        BY <1>1, <1>2, SMTT(30)
    <2> HIDE DEF at, n
    <2>2. /\ AreDigits(Slice(filled, at, 9)) /\ Len(Slice(filled, at, 9)) = 9
          /\ \A j \in 1..9 : Slice(filled, at, 9)[j] = filled[at + j]
        BY <2>1, DigitSlice, ZenonT(90)
    <2> QED
        BY <2>2
<1> SUFFICES Number(w) = WordOfGroup(a, b, m, k, a1, g, i)
    OBVIOUS
<1>5. /\ i \in 1..n /\ n = a1 + m + k + b1 /\ at = 9 * (i - 1)
      /\ from = IF i <= a1 THEN 0 ELSE IF i <= a1 + m + k THEN a + 9 * ((i - a1) - 1) ELSE precision - b
    BY DEF FirstDigit
<1> HIDE DEF z, y, w, g, from, at, n
<1>6. CASE i <= a1
    <2>1. i = 1 /\ a1 = 1 /\ i <= a1 + m + k /\ at = 0 /\ from = 0 /\ Len(g) = a /\ z + a = 9
        BY <1>1, <1>2, <1>3, <1>5, <1>6
    <2>2. ASSUME NEW j \in 1..z PROVE w[j] = 0
        <3>1. j \in 1..9 /\ at + j = j
            BY <1>1, <1>2, <2>1
        <3> QED
            BY <1>2, <1>4, <3>1
    <2>3. ASSUME NEW j \in 1..a PROVE w[z + j] = g[j]
        <3>1. z + j \in 1..9 /\ at + (z + j) = z + j /\ j \in 1..precision /\ j \in 1..Len(g) /\ from + j = j
            BY <1>1, <1>2, <2>1
        <3>2. w[z + j] = filled[z + j] /\ g[j] = digits[j]
            BY <1>3, <1>4, <3>1
        <3> QED
            BY <1>2, <3>1, <3>2
    <2>4. Len(w) = z + Len(g) /\ (\A j \in 1..Len(g) : w[z + j] = g[j])
        BY <1>4, <2>1, <2>3
    <2>5. Number(w) = Number(g)
        <3>1. AreDigits(w) /\ AreDigits(g) /\ z \in Nat /\ \A j \in 1..z : w[j] = 0
            BY <1>2, <1>3, <1>4, <2>2
        <3>2. HasZerosInFront(w, g, z)
            BY <2>4, <3>1 DEF HasZerosInFront
        <3> QED
            BY Zenon, <3>2, ZerosInFront
    <2> QED
        BY <2>1, <2>5 DEF WordOfGroup
<1>7. CASE ~(i <= a1) /\ i <= a1 + m + k
    <2>1. Len(g) = 9 /\ at = z + from /\ from \in Nat /\ from + 9 <= precision
        BY <1>1, <1>2, <1>3, <1>5, <1>7, SMTT(30)
    <2>2. ASSUME NEW j \in 1..9 PROVE w[j] = g[j]
        <3>1. at + j = z + (from + j) /\ from + j \in 1..precision /\ j \in 1..Len(g)
            BY <1>1, <1>2, <2>1
        <3>2. w[j] = filled[z + (from + j)] /\ g[j] = digits[from + j]
            BY <1>3, <1>4, <3>1
        <3> QED
            BY <1>2, <3>1, <3>2
    <2>3. w = g
        <3>1. IsSeq(w) /\ IsSeq(g) /\ Len(w) = Len(g) /\ \A j \in 1..Len(w) : w[j] = g[j]
            BY <1>3, <1>4, <2>1, <2>2 DEF AreDigits
        <3> QED
            BY <3>1, SameSeq
    <2> QED
        BY <1>7, <2>3 DEF WordOfGroup
<1>8. CASE ~(i <= a1 + m + k)
    <2>1. /\ i = n /\ b1 = 1 /\ ~(i <= a1) /\ Len(g) = b /\ y = 9 - b /\ y \in 0..9 /\ b <= 9
          /\ from = precision - b /\ from \in Nat /\ at = z + from
        <3>1. i = n /\ b1 = 1 /\ ~(i <= a1)
            BY <1>1, <1>5, <1>8
        <3>2. Len(g) = b /\ from = precision - b
            BY <1>3, <1>5, <1>8, <3>1
        <3>3. y = 9 - b /\ y \in 0..9 /\ b <= 9 /\ from \in Nat
            BY <1>1, <1>2, <3>1, <3>2
        <3>4. n = a1 + m + k + 1 /\ at = 9 * (a1 + m + k)
            BY <1>1, <1>5, <3>1
        <3>5. at = z + from
            BY <1>1, <1>2, <3>2, <3>4
        <3> QED
            BY <3>1, <3>2, <3>3, <3>5
    <2>2. ASSUME NEW j \in 1..b PROVE w[j] = g[j]
        <3>1. at + j = z + (from + j) /\ from + j \in 1..precision /\ j \in 1..Len(g) /\ j \in 1..9
            BY <1>1, <1>2, <2>1
        <3>2. w[j] = filled[z + (from + j)] /\ g[j] = digits[from + j]
            BY <1>3, <1>4, <3>1
        <3> QED
            BY <1>2, <3>1, <3>2
    <2>3. ASSUME NEW j \in 1..y PROVE w[b + j] = 0
        <3>1. b + j \in 1..9 /\ at + (b + j) = z + precision + j
            BY <1>1, <1>2, <2>1
        <3>2. w[b + j] = filled[at + (b + j)]
            BY Zenon, <1>4, <3>1
        <3>3. filled[z + precision + j] = 0
            BY Zenon, <1>2
        <3> QED
            BY Zenon, <3>1, <3>2, <3>3
    <2>4. /\ Len(w) = Len(g) + y /\ Len(g) <= 9
          /\ \A j \in 1..Len(g) : w[j] = g[j]
          /\ \A j \in 1..y : w[Len(g) + j] = 0
        BY <1>1, <1>4, <2>1, <2>2, <2>3
    <2>5. Number(w) = Number(g) * Powers10[y + 1]
        <3>1. AreDigits(w) /\ AreDigits(g) /\ y \in 0..9
            BY <1>3, <1>4, <2>1
        <3>2. HasZerosBehind(w, g, y)
            BY <2>4, <3>1 DEF HasZerosBehind
        <3> QED
            BY Zenon, <3>2, ZerosBehind
    <2> QED
        BY <1>8, <2>1, <2>5 DEF WordOfGroup
<1> QED
    BY <1>6, <1>7, <1>8

\* Where the words begin that are printed of the integer part, and what is printed of it.
Lead(words) == SelectInSeq(words, LAMBDA word : word # 0)
Leading(words) == IF Lead(words) = 0 THEN << >> ELSE SubSeq(words, Lead(words), Len(words))

\* The words in front of the lead are zeros.
LEMMA LeadIs ==
    ASSUME NEW words, IsSeq(words)
    PROVE  \/ Lead(words) = 0 /\ \A i \in 1..Len(words) : words[i] = 0
           \/ /\ Lead(words) \in 1..Len(words) /\ words[Lead(words)] # 0
              /\ \A i \in 1..Lead(words) - 1 : words[i] = 0
<1> DEFINE n == Len(words)
           I == {i \in 1..n : words[i] # 0}
<1>1. n \in Nat
    BY SeqFacts
<1>2. Lead(words) = IF I # {} THEN Min(I) ELSE 0
    BY DEF Lead, SelectInSeq
<1> HIDE DEF n
<1>3. CASE I = {}
    <2>1. \A i \in 1..n : words[i] = 0
        BY <1>3
    <2> QED
        BY <1>2, <1>3, <2>1 DEF n
<1>4. CASE I # {}
    <2> DEFINE l == Lead(words)
    <2>1. l = CHOOSE x \in I : \A y \in I : x <= y
        BY <1>2, <1>4 DEF Min
    <2>2. \E x \in I : \A y \in I : x <= y
        <3>1. I \in SUBSET Nat
            BY <1>1
        <3> QED
            BY <1>4, <3>1, LeastNumber
    <2> HIDE DEF I, l
    <2>3. l \in I /\ \A y \in I : l <= y
        BY <2>1, <2>2
    <2>4. l \in 1..n /\ words[l] # 0
        BY <2>3 DEF I
    <2>5. ASSUME NEW i \in 1..l - 1, words[i] # 0 PROVE FALSE
        <3>1. i \in 1..n /\ i < l
            BY <1>1, <2>4
        <3>2. i \in I
            BY <2>5, <3>1 DEF I
        <3> QED
            BY <2>3, <2>4, <3>1, <3>2
    <2> QED
        BY <2>4, <2>5 DEF l, n
<1> QED
    BY <1>3, <1>4

\* The first word that is printed, of the words and those up to the point.
FirstPrinted(words, point) ==
    CHOOSE i \in 1..point + 1 :
        /\ i > point \/ words[i] # 0
        /\ \A j \in 1..i - 1 : words[j] = 0
AreParts(intg, frac, words, point) ==
    /\ IsSeq(words) /\ point \in Nat /\ point <= Len(words)
    /\ intg = [i \in 1..point |-> words[i]]
    /\ frac = [i \in 1..Len(words) - point |-> words[point + i]]

\* The words from the first one that is printed on are those of the two parts that are kept.
ArePrinted(intg, frac, words, point) ==
    Leading(intg) \o frac = SubSeq(words, FirstPrinted(words, point), Len(words))

\* So it is with the words of the integer part without their zeros in front, and all others.
LEMMA PrintedIs ==
    ASSUME NEW words, NEW point, NEW intg, NEW frac, AreParts(intg, frac, words, point)
    PROVE  ArePrinted(intg, frac, words, point)
<1> SUFFICES Leading(intg) \o frac = SubSeq(words, FirstPrinted(words, point), Len(words))
    BY DEF ArePrinted
<1> IsSeq(words) /\ point \in Nat /\ point <= Len(words)
    BY DEF AreParts
<1> DEFINE n == Len(words)
           lead == Lead(intg)
           first == FirstPrinted(words, point)
           IsFirst(i) == (i > point \/ words[i] # 0) /\ \A j \in 1..i - 1 : words[j] = 0
<1>1. n \in Nat /\ point <= n /\ n - point \in Nat
    BY SeqFacts
<1>2. IsSeq(intg) /\ Len(intg) = point /\ \A i \in 1..point : intg[i] = words[i]
    <2>1. intg = [i \in 1..point |-> intg[i]] /\ \A i \in 1..point : intg[i] = words[i]
        BY DEF AreParts
    <2> QED
        BY <2>1, FunctionIsSeq
<1>3. IsSeq(frac) /\ Len(frac) = n - point /\ \A i \in 1..n - point : frac[i] = words[point + i]
    <2>1. frac = [i \in 1..n - point |-> frac[i]] /\ \A i \in 1..n - point : frac[i] = words[point + i]
        BY DEF AreParts
    <2> QED
        BY <1>1, <2>1, FunctionIsSeq
<1>4. \/ lead = 0 /\ \A i \in 1..point : intg[i] = 0
      \/ lead \in 1..point /\ intg[lead] # 0 /\ \A i \in 1..lead - 1 : intg[i] = 0
    BY <1>2, LeadIs
<1>5. first = CHOOSE i \in 1..point + 1 : IsFirst(i)
    BY DEF FirstPrinted
<1> HIDE DEF n, lead, first
<1>6. ASSUME NEW i \in 1..point + 1, NEW j \in 1..point + 1, IsFirst(i), IsFirst(j) PROVE i = j
    <2>1. CASE i < j
        <3>1. i \in 1..j - 1 /\ i <= point
            BY <2>1
        <3> QED
            BY <1>6, <3>1
    <2>2. CASE j < i
        <3>1. j \in 1..i - 1 /\ j <= point
            BY <2>2
        <3> QED
            BY <1>6, <3>1
    <2> QED
        BY <2>1, <2>2
<1>7. SUFFICES Leading(intg) \o frac = SubSeq(words, first, n)
    BY DEF first, n
<1>8. CASE lead = 0 /\ \A i \in 1..point : intg[i] = 0
    <2>1. point + 1 \in 1..point + 1 /\ IsFirst(point + 1)
        BY <1>2, <1>8
    <2>2. first = point + 1
        <3> HIDE DEF IsFirst
        <3> QED
            BY <1>5, <1>6, <2>1
    <2>3. Leading(intg) = << >>
        BY <1>8 DEF Leading, lead
    <2>4. << >> \o frac = frac
        BY <1>3, ConcatEmptySeq DEF IsSeq
    <2>5. SubSeq(words, point + 1, n) = Slice(words, point, n - point)
        BY <1>1 DEF Slice
    <2>6. Reads(words, point, frac)
        BY <1>1, <1>3 DEF Reads, n
    <2>7. Slice(words, point, n - point) = frac
        BY <1>3, <2>6, ReadsSlice
    <2> QED
        BY <2>2, <2>3, <2>4, <2>5, <2>7
<1>9. CASE lead \in 1..point /\ intg[lead] # 0 /\ \A i \in 1..lead - 1 : intg[i] = 0
    <2> DEFINE from == lead - 1
               front == Slice(intg, from, point - from)
               t == front \o frac
    <2>1. lead \in 1..point + 1 /\ IsFirst(lead)
        <3>1. \A j \in 1..lead - 1 : j \in 1..point
            BY <1>9
        <3>2. \A j \in 1..lead - 1 : words[j] = 0
            BY <1>2, <1>9, <3>1
        <3>3. words[lead] # 0 /\ lead \in 1..point + 1
            BY <1>2, <1>9
        <3> QED
            BY <3>2, <3>3
    <2>2. first = lead
        <3> HIDE DEF IsFirst
        <3> QED
            BY <1>5, <1>6, <2>1
    <2>3. /\ from \in Nat /\ point - from \in Nat /\ from + (point - from) = point /\ from + 1 = lead
          /\ lead # 0 /\ n - from \in Nat /\ from + (n - from) = n /\ (point - from) + (n - point) = n - from
        BY <1>1, <1>9
    <2> HIDE DEF from
    <2>4. Leading(intg) = front
        BY <1>2, <2>3 DEF Leading, lead, Slice
    <2>5. /\ IsSeq(front) /\ Len(front) = point - from
          /\ \A i \in 1..point - from : front[i] = intg[from + i]
        <3>1. from + (point - from) <= Len(intg)
            BY <1>2, <2>3
        <3>2. IsSeq(front) /\ Len(front) = point - from
            BY <1>2, <2>3, <3>1, SliceIsSeq
        <3>3. front = [i \in 1..point - from |-> intg[from + i]]
            <4>1. SubSeq(intg, from + 1, from + (point - from)) = [i \in 1..point - from |-> intg[i + (from + 1) - 1]]
                BY <2>3
            <4>2. \A i \in 1..point - from : i + (from + 1) - 1 = from + i
                BY <2>3
            <4> QED
                BY <4>1, <4>2 DEF Slice
        <3> HIDE DEF front
        <3> QED
            BY <3>2, <3>3
    <2> HIDE DEF front
    <2>6. /\ IsSeq(t) /\ Len(t) = Len(front) + Len(frac)
          /\ \A i \in 1..Len(front) : t[i] = front[i]
          /\ \A i \in 1..Len(frac) : t[Len(front) + i] = frac[i]
        <3>1. IsSeq(front) /\ IsSeq(frac)
            BY <1>3, <2>5
        <3> QED
            BY <3>1, ConcatIsSeq
    <2> HIDE DEF t
    <2>7. Len(t) = n - from
        BY <1>3, <2>3, <2>5, <2>6
    <2>8. ASSUME NEW i \in 1..n - from PROVE words[from + i] = t[i]
        <3>1. CASE i <= point - from
            <4>1. i \in 1..point - from /\ from + i \in 1..point
                BY <2>3, <3>1
            <4> QED
                BY <1>2, <2>5, <2>6, <4>1
        <3>2. CASE ~(i <= point - from)
            <4>1. /\ i - (point - from) \in 1..n - point /\ (point - from) + (i - (point - from)) = i
                  /\ point + (i - (point - from)) = from + i
                BY <1>1, <2>3, <3>2
            <4>2. t[(point - from) + (i - (point - from))] = frac[i - (point - from)]
                BY <1>3, <2>5, <2>6, <4>1
            <4> QED
                BY <1>3, <4>1, <4>2
        <3> QED
            BY <3>1, <3>2
    <2>9. Reads(words, from, t)
        <3>1. from + Len(t) <= Len(words)
            BY <1>1, <2>3, <2>7 DEF n
        <3>2. \A i \in 1..Len(t) : words[from + i] = t[i]
            BY <2>7, <2>8
        <3> QED
            BY <2>3, <2>6, <3>1, <3>2 DEF Reads
    <2>10. Slice(words, from, n - from) = t
        BY <2>7, <2>9, ReadsSlice
    <2>11. SubSeq(words, lead, n) = t
        BY <2>3, <2>10 DEF Slice
    <2> QED
        BY <2>2, <2>4, <2>11 DEF t
<1> QED
    BY <1>4, <1>8, <1>9

\* The words that bin2decimal reads.
FirstWord(bytes, a) == IF a = 0 THEN << >> ELSE <<High(Slice(bytes, 0, Dig2Bytes(a)))>>
WholeWords(bytes, at, n) == [i \in 1..n |-> High(Slice(bytes, at + 4 * (i - 1), 4))]
FracWords(bytes, at, k, b) ==
    WholeWords(bytes, at, k) \o
    IF b = 0 THEN << >> ELSE <<LastWord(High(Slice(bytes, at + 4 * k, Dig2Bytes(b))), b)>>
AreWords(bytes, a, m, k, b, first, whole, frac) ==
    /\ first = FirstWord(bytes, a)
    /\ whole = WholeWords(bytes, 0 + Dig2Bytes(a), m)
    /\ frac = FracWords(bytes, 0 + Dig2Bytes(a) + 4 * m, k, b)
FitDigits(first, whole, frac, a) ==
    /\ \A word \in ToSet(first) : ~(word >= Powers10[a + 2])
    /\ \A word \in ToSet(whole \o frac) : ~(word > DigMax)

\* What bin2decimal makes of them, if they are numbers of nine digits.
LEMMA Bin2DecimalIs ==
    ASSUME NEW from, NEW precision, NEW scale, NEW a, NEW m, NEW k, NEW b,
           LayoutHas(precision, scale, a, m, k, b),
           NEW bytes, bytes = Plain(from),
           NEW first, NEW whole, NEW frac, AreWords(bytes, a, m, k, b, first, whole, frac),
           FitDigits(first, whole, frac, a)
    PROVE  Bin2Decimal(from, precision, scale)
               = [sign |-> from[1] < 128, buf |-> Leading(first \o whole) \o frac]
<1> DEFINE to == Layout(precision, scale)
           first1 == IF to.intg0x = 0 THEN << >> ELSE <<High(Slice(bytes, to.skip, Dig2Bytes(to.intg0x)))>>
           whole1 == [i \in 1..to.intg0 |-> High(Slice(bytes, to.skip + Dig2Bytes(to.intg0x) + 4 * (i - 1), 4))]
           fracAt == to.skip + Dig2Bytes(to.intg0x) + 4 * to.intg0
           frac1 == [i \in 1..to.frac0 |-> High(Slice(bytes, fracAt + 4 * (i - 1), 4))] \o
                    IF to.frac0x = 0 THEN << >>
                    ELSE <<LastWord(High(Slice(bytes, fracAt + 4 * to.frac0, Dig2Bytes(to.frac0x))), to.frac0x)>>
<1>1. Bin2Decimal(from, precision, scale) =
          IF \/ \E word \in ToSet(first1) : word >= Powers10[to.intg0x + 2]
             \/ \E word \in ToSet(whole1 \o frac1) : word > DigMax
          THEN [sign |-> FALSE, buf |-> <<0>>]
          ELSE [sign |-> from[1] < 128, buf |-> Leading(first1 \o whole1) \o frac1]
    BY DEF Bin2Decimal, Plain, Leading, Lead
<1>2. to.skip = 0 /\ to.intg0x = a /\ to.intg0 = m /\ to.frac0 = k /\ to.frac0x = b
    BY DEF LayoutHas
<1> HIDE DEF to
<1>3. first1 = first
    BY <1>2 DEF AreWords, FirstWord
<1>4. whole1 = whole
    BY <1>2 DEF AreWords, WholeWords
<1>5. frac1 = frac
    BY <1>2 DEF AreWords, FracWords, WholeWords
<1> HIDE DEF first1, whole1, frac1
<1>6. /\ ~\E word \in ToSet(first1) : word >= Powers10[to.intg0x + 2]
      /\ ~\E word \in ToSet(whole1 \o frac1) : word > DigMax
    BY <1>2, <1>3, <1>4, <1>5 DEF FitDigits
<1> QED
    BY <1>1, <1>3, <1>4, <1>5, <1>6

\* The words of the groups.
DecimalWords(a, b, m, k, a1, b1, groups) ==
    [i \in 1..a1 + m + k + b1 |-> WordOfGroup(a, b, m, k, a1, groups[i], i)]

\* A word is a number of nine digits, the first of no more digits than it has.
LEMMA WordBound ==
    ASSUME NEW precision \in Nat \ {0}, NEW scale \in Nat, scale <= precision,
           NEW digits, AreDigits(digits), Len(digits) = precision,
           NEW a, NEW b, NEW m, NEW k, NEW a1, NEW b1, Shape(precision, scale, a, b, m, k, a1, b1),
           NEW groups, groups = Groups(precision, scale, digits), NEW i \in 1..a1 + m + k + b1
    PROVE  LET word == WordOfGroup(a, b, m, k, a1, groups[i], i)
           IN word \in Nat /\ ~(word > DigMax) /\ (i <= a1 => ~(word >= Powers10[a + 2]))
<1> DEFINE x == Number(groups[i])
           size == Len(groups[i])
<1>1. /\ a \in Nat /\ a < 9 /\ m \in Nat /\ b \in Nat /\ b < 9 /\ k \in Nat
      /\ a1 \in {0, 1} /\ b1 \in {0, 1} /\ (a1 = 0 <=> a = 0) /\ (b1 = 0 <=> b = 0)
    BY ShapeIs
<1>2. AreDigits(groups[i]) /\ size \in 1..9 /\ size = IF i <= a1 THEN a ELSE IF i <= a1 + m + k THEN 9 ELSE b
    <2>1. IsGroup(groups[i], i, precision, digits, a, b, m, k, a1)
        BY GroupIs
    <2> QED
        BY <2>1 DEF IsGroup
<1>3. x \in Nat /\ x < Powers10[size + 1]
    BY <1>2, GroupRead
<1> HIDE DEF x, size
<1>4. /\ Powers10[1] = 1 /\ Powers10[2] = 10 /\ Powers10[3] = 100 /\ Powers10[4] = 1000
      /\ Powers10[5] = 10000 /\ Powers10[6] = 100000 /\ Powers10[7] = 1000000
      /\ Powers10[8] = 10000000 /\ Powers10[9] = 100000000 /\ Powers10[10] = 1000000000
    BY DEF Powers10
<1>5. DigMax = 999999999
    BY <1>4 DEF DigMax
<1>6. x < 1000000000
    <2>1. size \in {1, 2, 3, 4, 5, 6, 7, 8, 9}
        BY <1>2
    <2> QED
        BY <1>3, <1>4, <2>1
<1>7. CASE i <= a1 + m + k
    <2>1. WordOfGroup(a, b, m, k, a1, groups[i], i) = x
        BY <1>7 DEF WordOfGroup, x
    <2>2. i <= a1 => x < Powers10[a + 2]
        <3> SUFFICES ASSUME i <= a1 PROVE x < Powers10[a + 2]
            OBVIOUS
        <3>1. size = a /\ a \in {1, 2, 3, 4, 5, 6, 7, 8}
            BY <1>1, <1>2
        <3>2. x \in Nat /\ x < Powers10[a + 1]
            BY Zenon, <1>3, <3>1
        <3> QED
            BY <1>4, <3>1, <3>2, SMTT(30)
    <2>3. Powers10[a + 2] \in Int
        <3>1. a + 2 \in 1..10
            BY <1>1
        <3>2. Powers10[a + 2] \in Nat \ {0}
            BY <3>1, PowersOfTen, Zenon
        <3> QED
            BY <3>2
    <2> QED
        BY <1>3, <1>5, <1>6, <2>1, <2>2, <2>3
<1>8. CASE ~(i <= a1 + m + k)
    <2> DEFINE p == Powers10[9 - b + 1]
    <2>1. WordOfGroup(a, b, m, k, a1, groups[i], i) = x * p /\ ~(i <= a1)
        BY <1>1, <1>8 DEF WordOfGroup, x
    <2>2. size = b /\ b \in {1, 2, 3, 4, 5, 6, 7, 8}
        BY <1>1, <1>2, <1>8
    <2>3. x * p \in Nat /\ x * p < 1000000000
        <3>1. CASE b = 1
            <4>1. x < 10 /\ p = 100000000
                BY <1>3, <1>4, <2>2, <3>1
            <4> HIDE DEF p
            <4> QED
                BY <1>3, <4>1
        <3>2. CASE b = 2
            <4>1. x < 100 /\ p = 10000000
                BY <1>3, <1>4, <2>2, <3>2
            <4> HIDE DEF p
            <4> QED
                BY <1>3, <4>1
        <3>3. CASE b = 3
            <4>1. x < 1000 /\ p = 1000000
                BY <1>3, <1>4, <2>2, <3>3
            <4> HIDE DEF p
            <4> QED
                BY <1>3, <4>1
        <3>4. CASE b = 4
            <4>1. x < 10000 /\ p = 100000
                BY <1>3, <1>4, <2>2, <3>4
            <4> HIDE DEF p
            <4> QED
                BY <1>3, <4>1
        <3>5. CASE b = 5
            <4>1. x < 100000 /\ p = 10000
                BY <1>3, <1>4, <2>2, <3>5
            <4> HIDE DEF p
            <4> QED
                BY <1>3, <4>1
        <3>6. CASE b = 6
            <4>1. x < 1000000 /\ p = 1000
                BY <1>3, <1>4, <2>2, <3>6
            <4> HIDE DEF p
            <4> QED
                BY <1>3, <4>1
        <3>7. CASE b = 7
            <4>1. x < 10000000 /\ p = 100
                BY <1>3, <1>4, <2>2, <3>7
            <4> HIDE DEF p
            <4> QED
                BY <1>3, <4>1
        <3>8. CASE b = 8
            <4>1. x < 100000000 /\ p = 10
                BY <1>3, <1>4, <2>2, <3>8
            <4> HIDE DEF p
            <4> QED
                BY <1>3, <4>1
        <3> QED
            BY <2>2, <3>1, <3>2, <3>3, <3>4, <3>5, <3>6, <3>7, <3>8
    <2> HIDE DEF p
    <2> QED
        BY <1>5, <2>1, <2>3
<1> QED
    BY <1>7, <1>8

\* The words that are read are those of the groups.
LEMMA WordsRead ==
    ASSUME NEW precision \in Nat \ {0}, NEW scale \in Nat, scale <= precision,
           NEW digits, AreDigits(digits), Len(digits) = precision,
           NEW a, NEW b, NEW m, NEW k, NEW a1, NEW b1, Shape(precision, scale, a, b, m, k, a1, b1),
           NEW groups, groups = Groups(precision, scale, digits),
           NEW plain, plain = PlainOf(precision, scale, digits),
           NEW words, words = DecimalWords(a, b, m, k, a1, b1, groups),
           NEW first, first = FirstWord(plain, a),
           NEW whole, whole = WholeWords(plain, 0 + Dig2Bytes(a), m),
           NEW frac, frac = FracWords(plain, 0 + Dig2Bytes(a) + 4 * m, k, b)
    PROVE  /\ IsSeq(first) /\ Len(first) = a1 /\ \A i \in 1..a1 : first[i] = words[i]
           /\ IsSeq(whole) /\ Len(whole) = m /\ \A i \in 1..m : whole[i] = words[a1 + i]
           /\ IsSeq(frac) /\ Len(frac) = k + b1 /\ \A i \in 1..k + b1 : frac[i] = words[a1 + m + i]
<1> DEFINE n == a1 + m + k + b1
           da == Dig2Bytes(a)
           Word(i) == High(Slice(plain, PieceStart(a, m, k, a1, i), Dig2Bytes(Len(groups[i]))))
<1>1. /\ a \in Nat /\ a < 9 /\ m \in Nat /\ b \in Nat /\ b < 9 /\ k \in Nat
      /\ a1 \in {0, 1} /\ b1 \in {0, 1} /\ (a1 = 0 <=> a = 0) /\ (b1 = 0 <=> b = 0)
    BY ShapeIs
<1>2. \A i \in 1..n : Len(groups[i]) = IF i <= a1 THEN a ELSE IF i <= a1 + m + k THEN 9 ELSE b
    <2>1. \A i \in 1..a1 + m + k + b1 : IsGroup(groups[i], i, precision, digits, a, b, m, k, a1)
        BY GroupIs
    <2> QED
        BY <2>1 DEF IsGroup
<1>3. \A i \in 1..n : Word(i) = Number(groups[i])
    <2>1. /\ AreBytes(plain) /\ Len(plain) # 0 /\ plain[1] < 128
          /\ \A i \in 1..a1 + m + k + b1 :
                 High(Slice(plain, PieceStart(a, m, k, a1, i), Dig2Bytes(Len(groups[i])))) = Number(groups[i])
        BY PlainIs
    <2> QED
        BY <2>1
<1>4. \A i \in 1..n : words[i] = WordOfGroup(a, b, m, k, a1, groups[i], i)
    BY DEF DecimalWords
<1>5. da \in Nat /\ Dig2Bytes(9) = 4
    BY <1>1, RestBytes
<1>6. n = a1 + m + k + b1
    OBVIOUS
<1> HIDE DEF n, da
<1>7. IsSeq(first) /\ Len(first) = a1 /\ \A i \in 1..a1 : first[i] = words[i]
    <2>1. CASE a = 0
        <3>1. first = << >> /\ a1 = 0
            BY <1>1, <2>1 DEF FirstWord
        <3> QED
            BY <3>1, EmptyIsSeq
    <2>2. CASE a # 0
        <3>1. a1 = 1 /\ 1 \in 1..n /\ 1 <= a1 /\ 1 <= a1 + m + k
            BY <1>1, <1>6, <2>2
        <3>2. PieceStart(a, m, k, a1, 1) = 0 /\ Len(groups[1]) = a
            BY <1>2, <3>1 DEF PieceStart
        <3>3. words[1] = Number(groups[1])
            BY <1>4, <3>1 DEF WordOfGroup
        <3>4. High(Slice(plain, 0, Dig2Bytes(a))) = words[1]
            BY <1>3, <3>1, <3>2, <3>3
        <3>5. first = <<words[1]>>
            BY <2>2, <3>4 DEF FirstWord
        <3>6. IsSeq(first) /\ Len(first) = 1 /\ first[1] = words[1]
            BY <3>5, SingleIsSeq
        <3> QED
            BY <3>1, <3>6
    <2> QED
        BY <2>1, <2>2
<1>8. ASSUME NEW i \in 1..m + k
      PROVE  words[a1 + i] = High(Slice(plain, 0 + da + 4 * (i - 1), 4))
    <2>1. /\ a1 + i \in 1..n /\ ~(a1 + i <= a1) /\ a1 + i <= a1 + m + k
          /\ da + 4 * (((a1 + i) - a1) - 1) = 0 + da + 4 * (i - 1)
        BY <1>1, <1>5, <1>6
    <2>2. PieceStart(a, m, k, a1, a1 + i) = 0 + da + 4 * (i - 1)
        BY <2>1 DEF PieceStart, da
    <2>3. Len(groups[a1 + i]) = 9 /\ words[a1 + i] = Number(groups[a1 + i])
        BY <1>2, <1>4, <2>1 DEF WordOfGroup
    <2>4. Word(a1 + i) = Number(groups[a1 + i])
        BY <1>3, <2>1
    <2> QED
        BY <1>5, <2>2, <2>3, <2>4
<1> HIDE DEF Word
<1>9. IsSeq(whole) /\ Len(whole) = m /\ \A i \in 1..m : whole[i] = words[a1 + i]
    <2>1. whole = [i \in 1..m |-> whole[i]]
        BY DEF WholeWords
    <2>2. ASSUME NEW i \in 1..m PROVE whole[i] = words[a1 + i]
        <3>1. i \in 1..m + k
            BY <1>1
        <3>2. whole[i] = High(Slice(plain, 0 + da + 4 * (i - 1), 4))
            BY DEF WholeWords, da
        <3> QED
            BY <1>8, <3>1, <3>2
    <2>3. IsSeq(whole) /\ Len(whole) = m
        BY <1>1, <2>1, FunctionIsSeq
    <2> QED
        BY <2>2, <2>3
<1> DEFINE nines == WholeWords(plain, 0 + da + 4 * m, k)
           rest == IF b = 0 THEN << >> ELSE <<LastWord(High(Slice(plain, 0 + da + 4 * m + 4 * k, Dig2Bytes(b))), b)>>
<1>10. frac = nines \o rest
    BY DEF FracWords, da
<1>11. IsSeq(nines) /\ Len(nines) = k /\ \A i \in 1..k : nines[i] = words[a1 + m + i]
    <2>1. nines = [i \in 1..k |-> nines[i]]
        BY DEF WholeWords
    <2>2. ASSUME NEW i \in 1..k PROVE nines[i] = words[a1 + m + i]
        <3>1. m + i \in 1..m + k /\ a1 + (m + i) = a1 + m + i /\ 0 + da + 4 * ((m + i) - 1) = 0 + da + 4 * m + 4 * (i - 1)
            BY <1>1, <1>5
        <3>2. nines[i] = High(Slice(plain, 0 + da + 4 * m + 4 * (i - 1), 4))
            BY DEF WholeWords
        <3>3. words[a1 + (m + i)] = High(Slice(plain, 0 + da + 4 * ((m + i) - 1), 4))
            BY <1>8, <3>1
        <3> HIDE DEF nines
        <3> QED
            BY <3>1, <3>2, <3>3
    <2>3. IsSeq(nines) /\ Len(nines) = k
        BY <1>1, <2>1, FunctionIsSeq
    <2> QED
        BY <2>2, <2>3
<1>12. IsSeq(rest) /\ Len(rest) = b1 /\ \A i \in 1..b1 : rest[i] = words[a1 + m + k + i]
    <2>1. CASE b = 0
        <3>1. rest = << >> /\ b1 = 0
            BY <1>1, <2>1
        <3> QED
            BY <3>1, EmptyIsSeq
    <2>2. CASE b # 0
        <3>1. b1 = 1 /\ n = a1 + m + k + 1 /\ n \in 1..n /\ ~(n <= a1) /\ ~(n <= a1 + m + k)
            BY <1>1, <1>6, <2>2
        <3>2. PieceStart(a, m, k, a1, n) = da + 4 * (m + k) /\ Len(groups[n]) = b
            BY <1>2, <3>1 DEF PieceStart, da
        <3>3. da + 4 * (m + k) = 0 + da + 4 * m + 4 * k
            BY <1>1, <1>5
        <3>4. Word(n) = Number(groups[n]) /\ Word(n) = High(Slice(plain, 0 + da + 4 * m + 4 * k, Dig2Bytes(b)))
            BY <1>3, <3>1, <3>2, <3>3 DEF Word
        <3>5. words[n] = Number(groups[n]) * Powers10[9 - b + 1]
            BY <1>4, <3>1 DEF WordOfGroup
        <3>6. LastWord(Number(groups[n]), b) = Number(groups[n]) * Powers10[9 - b + 1]
            BY DEF LastWord, DigPerDec1
        <3>7. rest = <<words[n]>>
            BY <2>2, <3>4, <3>5, <3>6
        <3> HIDE DEF rest
        <3>8. IsSeq(rest) /\ Len(rest) = 1 /\ rest[1] = words[n]
            BY <3>7, SingleIsSeq
        <3> QED
            BY <3>1, <3>8
    <2> QED
        BY <2>1, <2>2
<1> HIDE DEF nines, rest
<1>13. IsSeq(frac) /\ Len(frac) = k + b1 /\ \A i \in 1..k + b1 : frac[i] = words[a1 + m + i]
    <2>1. IsSeq(nines) /\ IsSeq(rest)
        BY <1>11, <1>12
    <2>2. /\ IsSeq(nines \o rest) /\ Len(nines \o rest) = Len(nines) + Len(rest)
          /\ \A i \in 1..Len(nines) : (nines \o rest)[i] = nines[i]
          /\ \A i \in 1..Len(rest) : (nines \o rest)[Len(nines) + i] = rest[i]
        BY <2>1, ConcatIsSeq
    <2>3. /\ IsSeq(frac) /\ Len(frac) = k + b1
          /\ \A i \in 1..k : frac[i] = nines[i]
          /\ \A i \in 1..b1 : frac[k + i] = rest[i]
        BY <1>10, <1>11, <1>12, <2>2
    <2>4. ASSUME NEW i \in 1..k + b1 PROVE frac[i] = words[a1 + m + i]
        <3>1. CASE i <= k
            <4>1. i \in 1..k
                BY <1>1, <3>1
            <4> QED
                BY <1>11, <2>3, <4>1
        <3>2. CASE ~(i <= k)
            <4>1. i - k \in 1..b1 /\ k + (i - k) = i /\ a1 + m + k + (i - k) = a1 + m + i
                BY <1>1, <3>2
            <4>2. frac[k + (i - k)] = words[a1 + m + k + (i - k)]
                BY <1>12, <2>3, <4>1
            <4> QED
                BY <4>1, <4>2
        <3> QED
            BY <3>1, <3>2
    <2> QED
        BY <2>3, <2>4
<1> QED
    BY <1>7, <1>9, <1>13

\* What is in the buffer of bin2decimal.
PrintedWords(words, point) == SubSeq(words, FirstPrinted(words, point), Len(words))

\* The words of the groups are put into the buffer, without the zeros in front of the point.
LEMMA BufferIs ==
    ASSUME NEW precision, NEW scale, IsDecimal(precision, scale),
           NEW digits, AreDigits(digits), Len(digits) = precision,
           NEW a, NEW b, NEW m, NEW k, NEW a1, NEW b1, Shape(precision, scale, a, b, m, k, a1, b1),
           NEW groups, groups = Groups(precision, scale, digits),
           NEW words, words = DecimalWords(a, b, m, k, a1, b1, groups),
           NEW from, Plain(from) = PlainOf(precision, scale, digits)
    PROVE  Bin2Decimal(from, precision, scale)
               = [sign |-> from[1] < 128, buf |-> PrintedWords(words, a1 + m)]
<1> DEFINE n == a1 + m + k + b1
           plain == PlainOf(precision, scale, digits)
           first == FirstWord(plain, a)
           whole == WholeWords(plain, 0 + Dig2Bytes(a), m)
           frac == FracWords(plain, 0 + Dig2Bytes(a) + 4 * m, k, b)
           intg == first \o whole
           point == a1 + m
<1>1. precision \in Nat \ {0} /\ scale \in Nat /\ scale <= precision
    BY DEF IsDecimal
<1>2. /\ m \in Nat /\ k \in Nat /\ a1 \in {0, 1} /\ b1 \in {0, 1} /\ n \in Nat
    BY <1>1, ShapeIs
<1>3. /\ IsSeq(first) /\ Len(first) = a1 /\ \A i \in 1..a1 : first[i] = words[i]
      /\ IsSeq(whole) /\ Len(whole) = m /\ \A i \in 1..m : whole[i] = words[a1 + i]
      /\ IsSeq(frac) /\ Len(frac) = k + b1 /\ \A i \in 1..k + b1 : frac[i] = words[a1 + m + i]
    BY <1>1, WordsRead
<1>4. /\ IsSeq(words) /\ Len(words) = n
      /\ \A i \in 1..n : words[i] = WordOfGroup(a, b, m, k, a1, groups[i], i)
    <2>1. words = [i \in 1..n |-> words[i]] /\ \A i \in 1..n : words[i] = WordOfGroup(a, b, m, k, a1, groups[i], i)
        BY DEF DecimalWords
    <2>2. IsSeq(words) /\ Len(words) = n
        BY <1>2, <2>1, FunctionIsSeq
    <2> QED
        BY <2>1, <2>2
<1>5. ASSUME NEW i \in 1..n
      PROVE  ~(words[i] > DigMax) /\ (i <= a1 => ~(words[i] >= Powers10[a + 2]))
    <2>1. LET word == WordOfGroup(a, b, m, k, a1, groups[i], i)
          IN word \in Nat /\ ~(word > DigMax) /\ (i <= a1 => ~(word >= Powers10[a + 2]))
        BY <1>1, WordBound
    <2> QED
        BY <1>4, <2>1
<1>6. LayoutHas(precision, scale, a, m, k, b)
    BY LayoutIs
<1> HIDE DEF plain, first, whole, frac, n
<1>7. /\ IsSeq(intg) /\ Len(intg) = point
      /\ \A i \in 1..point : intg[i] = words[i]
    <2>1. IsSeq(first) /\ IsSeq(whole)
        BY <1>3
    <2>2. /\ IsSeq(first \o whole) /\ Len(first \o whole) = Len(first) + Len(whole)
          /\ \A i \in 1..Len(first) : (first \o whole)[i] = first[i]
          /\ \A i \in 1..Len(whole) : (first \o whole)[Len(first) + i] = whole[i]
        BY <2>1, ConcatIsSeq
    <2>3. /\ IsSeq(intg) /\ Len(intg) = point
          /\ \A i \in 1..a1 : intg[i] = words[i]
          /\ \A i \in 1..m : intg[a1 + i] = words[a1 + i]
        <3>1. IsSeq(intg) /\ Len(intg) = point
            BY <1>3, <2>2
        <3>2. \A i \in 1..a1 : intg[i] = words[i]
            BY Zenon, <1>3, <2>2
        <3>3. \A i \in 1..m : intg[a1 + i] = words[a1 + i]
            BY <1>3, <2>2, SMTT(30)
        <3> QED
            BY <3>1, <3>2, <3>3
    <2>4. ASSUME NEW i \in 1..point PROVE intg[i] = words[i]
        <3>1. CASE i <= a1
            <4>1. i \in 1..a1
                BY <1>2, <3>1
            <4> QED
                BY <2>3, <4>1
        <3>2. CASE ~(i <= a1)
            <4>1. i - a1 \in 1..m /\ a1 + (i - a1) = i
                BY <1>2, <3>2
            <4> QED
                BY <2>3, <4>1
        <3> QED
            BY <3>1, <3>2
    <2> QED
        BY <2>3, <2>4
<1>8. \A word \in ToSet(first) : ~(word >= Powers10[a + 2])
    <2>1. ASSUME NEW i \in 1..a1 PROVE ~(first[i] >= Powers10[a + 2])
        <3>1. i \in 1..n /\ i <= a1 /\ first[i] = words[i]
            BY <1>2, <1>3 DEF n
        <3> QED
            BY <1>5, <3>1
    <2>2. DOMAIN first = 1..a1
        BY <1>3, SeqFacts
    <2> QED
        BY <2>1, <2>2 DEF ToSet
<1>9. \A word \in ToSet(whole \o frac) : ~(word > DigMax)
    <2> DEFINE t == whole \o frac
    <2>1. IsSeq(whole) /\ IsSeq(frac)
        BY <1>3
    <2>2. /\ IsSeq(whole \o frac) /\ Len(whole \o frac) = Len(whole) + Len(frac)
          /\ \A i \in 1..Len(whole) : (whole \o frac)[i] = whole[i]
          /\ \A i \in 1..Len(frac) : (whole \o frac)[Len(whole) + i] = frac[i]
        BY <2>1, ConcatIsSeq
    <2>3. /\ IsSeq(t) /\ Len(t) = m + (k + b1)
          /\ \A i \in 1..m : t[i] = words[a1 + i]
          /\ \A i \in 1..k + b1 : t[m + i] = words[a1 + m + i]
        <3>1. /\ IsSeq(t) /\ Len(t) = m + (k + b1)
              /\ \A i \in 1..m : t[i] = whole[i]
              /\ \A i \in 1..k + b1 : t[m + i] = frac[i]
            BY <1>3, <2>2
        <3>2. ASSUME NEW i \in 1..m PROVE t[i] = words[a1 + i]
            BY <1>3, <3>1
        <3>3. ASSUME NEW i \in 1..k + b1 PROVE t[m + i] = words[a1 + m + i]
            <4>1. t[m + i] = frac[i] /\ frac[i] = words[a1 + m + i]
                BY <1>3, <3>1
            <4> QED
                BY <4>1
        <3> QED
            BY <3>1, <3>2, <3>3
    <2> HIDE DEF t
    <2>4. ASSUME NEW i \in 1..m + (k + b1) PROVE ~(t[i] > DigMax)
        <3>1. a1 + i \in 1..n
            BY <1>2 DEF n
        <3>2. t[i] = words[a1 + i]
            <4>1. CASE i <= m
                <5>1. i \in 1..m
                    BY <1>2, <4>1
                <5> QED
                    BY <2>3, <5>1
            <4>2. CASE ~(i <= m)
                <5>1. i - m \in 1..k + b1 /\ m + (i - m) = i /\ a1 + m + (i - m) = a1 + i
                    BY <1>2, <4>2
                <5>2. t[m + (i - m)] = words[a1 + m + (i - m)]
                    BY <2>3, <5>1
                <5> QED
                    BY <5>1, <5>2
            <4> QED
                BY <4>1, <4>2
        <3> QED
            BY <1>5, <3>1, <3>2
    <2>5. DOMAIN t = 1..m + (k + b1)
        BY <2>3, SeqFacts
    <2> QED
        BY <2>4, <2>5 DEF ToSet, t
<1>10. Bin2Decimal(from, precision, scale) = [sign |-> from[1] < 128, buf |-> Leading(intg) \o frac]
    <2>1. plain = Plain(from)
        BY DEF plain
    <2>2. AreWords(plain, a, m, k, b, first, whole, frac)
        BY DEF AreWords, first, whole, frac
    <2>3. FitDigits(first, whole, frac, a)
        BY <1>8, <1>9 DEF FitDigits
    <2> QED
        BY <1>6, <2>1, <2>2, <2>3, Bin2DecimalIs
<1>11. Leading(intg) \o frac = PrintedWords(words, point)
    <2>1. /\ point \in Nat /\ point <= Len(words) /\ Len(words) - point = k + b1
        BY <1>2, <1>4 DEF n
    <2> HIDE DEF point, intg
    <2>2. intg = [i \in 1..point |-> intg[i]]
        <3>1. IsSeq(intg)
            BY <1>7
        <3>2. intg = [i \in 1..Len(intg) |-> intg[i]]
            BY <3>1, SeqFacts
        <3> QED
            BY <1>7, <3>2
    <2>3. intg = [i \in 1..point |-> words[i]]
        BY <1>7, <2>2
    <2>4. frac = [i \in 1..k + b1 |-> frac[i]]
        <3>1. IsSeq(frac)
            BY <1>3
        <3>2. frac = [i \in 1..Len(frac) |-> frac[i]]
            BY <3>1, SeqFacts
        <3> QED
            BY <1>3, <3>2
    <2>5. frac = [i \in 1..k + b1 |-> words[point + i]]
        BY <1>3, <2>4 DEF point
    <2>6. frac = [i \in 1..Len(words) - point |-> words[point + i]]
        BY <2>1, <2>5
    <2>7. Leading(intg) \o frac = SubSeq(words, FirstPrinted(words, point), Len(words))
        <3>1. AreParts(intg, frac, words, point)
            BY <1>4, <2>1, <2>3, <2>6 DEF AreParts
        <3>2. ArePrinted(intg, frac, words, point)
            BY Zenon, <3>1, PrintedIs
        <3> QED
            BY <3>2 DEF ArePrinted
    <2> QED
        BY <2>7 DEF PrintedWords
<1> QED
    BY <1>10, <1>11

\* A DECIMAL with its digits, their groups and the words of those.
Written(precision, scale, digits, a, b, m, k, a1, b1, groups, words) ==
    /\ IsDecimal(precision, scale) /\ AreDigits(digits) /\ Len(digits) = precision
    /\ Shape(precision, scale, a, b, m, k, a1, b1)
    /\ groups = Groups(precision, scale, digits)
    /\ words = DecimalWords(a, b, m, k, a1, b1, groups)
SpelledWords(filled) == [i \in 1..Len(filled) \div 9 |-> Number(Slice(filled, 9 * (i - 1), 9))]

\* The nines of the filled digits are these words.
LEMMA SpelledWordsAre ==
    ASSUME NEW precision, NEW scale, NEW digits, NEW a, NEW b, NEW m, NEW k, NEW a1, NEW b1, NEW groups, NEW words,
           Written(precision, scale, digits, a, b, m, k, a1, b1, groups, words)
    PROVE  /\ SpelledWords(Filled(precision, scale, digits)) = words
           /\ Len(words) - (scale + 8) \div 9 = a1 + m
<1> DEFINE n == a1 + m + k + b1
<1>1. /\ precision \in Nat \ {0} /\ scale \in Nat /\ scale <= precision
      /\ AreDigits(digits) /\ Len(digits) = precision
      /\ Shape(precision, scale, a, b, m, k, a1, b1)
      /\ groups = Groups(precision, scale, digits)
    BY DEF Written, IsDecimal
<1>2. /\ m \in Nat /\ k \in Nat /\ b \in Nat /\ b < 9 /\ scale = b + 9 * k
      /\ a1 \in {0, 1} /\ b1 \in {0, 1} /\ (b1 = 0 <=> b = 0) /\ n \in Nat
    BY <1>1, ShapeIs
<1>3. PICK filled : filled = Filled(precision, scale, digits)
    OBVIOUS
<1>4. Len(filled) = 9 * n
    <2>1. /\ ZerosFor(a) \in Nat /\ ZerosFor(a) + a = 9 * a1
          /\ ZerosFor(b) \in Nat /\ ZerosFor(b) + b = 9 * b1
          /\ AreDigits(filled) /\ Len(filled) = 9 * (a1 + m + k + b1)
          /\ \A j \in 1..ZerosFor(a) : filled[j] = 0
          /\ \A j \in 1..precision : filled[ZerosFor(a) + j] = digits[j]
          /\ \A j \in 1..ZerosFor(b) : filled[ZerosFor(a) + precision + j] = 0
        BY <1>1, <1>3, FilledIs
    <2> QED
        BY <2>1
<1>5. ASSUME NEW i \in 1..n
      PROVE  Number(Slice(filled, 9 * (i - 1), 9)) = WordOfGroup(a, b, m, k, a1, groups[i], i)
    BY <1>1, <1>3, FilledWord
<1>6. words = [i \in 1..n |-> WordOfGroup(a, b, m, k, a1, groups[i], i)]
    BY DEF Written, DecimalWords
<1> HIDE DEF n
<1>7. Len(filled) \div 9 = n
    BY <1>2, <1>4
<1>8. SpelledWords(filled) = words
    BY <1>5, <1>6, <1>7 DEF SpelledWords
<1>9. Len(words) = n
    BY <1>2, <1>6
<1>10. (scale + 8) \div 9 = k + b1
    BY <1>2
<1> QED
    BY <1>2, <1>3, <1>8, <1>9, <1>10 DEF n

\* A slice has the elements behind its place.
LEMMA SliceAt ==
    ASSUME NEW s, IsSeq(s), NEW from \in Nat, NEW n \in Nat, from + n <= Len(s)
    PROVE  /\ IsSeq(Slice(s, from, n)) /\ Len(Slice(s, from, n)) = n
           /\ \A i \in 1..n : Slice(s, from, n)[i] = s[from + i]
<1>1. IsSeq(Slice(s, from, n)) /\ Len(Slice(s, from, n)) = n
    BY SliceIsSeq
<1>2. SubSeq(s, from + 1, from + n) = [i \in 1..n |-> s[i + (from + 1) - 1]]
    OBVIOUS
<1>3. \A i \in 1..n : i + (from + 1) - 1 = from + i
    OBVIOUS
<1>4. Slice(s, from, n) = [i \in 1..n |-> s[from + i]]
    BY <1>2, <1>3 DEF Slice
<1> QED
    BY <1>1, <1>4

\* The first word that is printed is one up to the point or the next.
LEMMA FirstIs ==
    ASSUME NEW words, NEW point \in Nat
    PROVE  FirstPrinted(words, point) \in 1..point + 1
<1> DEFINE IsFirst(i) == (i > point \/ words[i] # 0) /\ \A j \in 1..i - 1 : words[j] = 0
           I == {i \in 1..point : words[i] # 0}
<1>1. \E i \in 1..point + 1 : IsFirst(i)
    <2>1. CASE I = {}
        <3>1. point + 1 \in 1..point + 1 /\ point + 1 > point /\ 1..(point + 1) - 1 = 1..point
            OBVIOUS
        <3>2. \A j \in 1..point : words[j] = 0
            BY <2>1
        <3>3. IsFirst(point + 1)
            BY <3>1, <3>2
        <3> HIDE DEF IsFirst
        <3> QED
            BY <3>1, <3>3
    <2>2. CASE I # {}
        <3>1. I \in SUBSET Nat
            OBVIOUS
        <3> HIDE DEF I
        <3>2. PICK l \in I : \A k \in I : l <= k
            BY <2>2, <3>1, LeastNumber
        <3>3. l \in 1..point /\ words[l] # 0
            BY <3>2 DEF I
        <3>4. ASSUME NEW j \in 1..l - 1, words[j] # 0 PROVE FALSE
            <4>1. j \in 1..point /\ j < l
                BY <3>3
            <4>2. j \in I
                BY <3>4, <4>1 DEF I
            <4> QED
                BY <3>2, <3>3, <4>1, <4>2
        <3> QED
            BY <3>3, <3>4
    <2> QED
        BY <2>1, <2>2
<1>2. FirstPrinted(words, point) = CHOOSE i \in 1..point + 1 : IsFirst(i)
    BY DEF FirstPrinted
<1> HIDE DEF IsFirst
<1> QED
    BY <1>1, <1>2

\* The words that are printed, in front of the point and behind it.
InFront(words, point) == SubSeq(words, FirstPrinted(words, point), point)
Behind(words, point) == SubSeq(words, point + 1, Len(words))

\* They are all that are printed.
LEMMA BothSides ==
    ASSUME NEW words, IsSeq(words), NEW point \in Nat, point <= Len(words)
    PROVE  /\ IsSeq(InFront(words, point)) /\ IsSeq(Behind(words, point)) /\ IsSeq(PrintedWords(words, point))
           /\ InFront(words, point) \o Behind(words, point) = PrintedWords(words, point)
<1> DEFINE n == Len(words)
           from == FirstPrinted(words, point) - 1
           front == Slice(words, from, point - from)
           back == Slice(words, point, n - point)
           all == Slice(words, from, n - from)
           t == front \o back
<1>1. /\ n \in Nat /\ from \in Nat /\ from <= point /\ from + 1 = FirstPrinted(words, point)
      /\ point - from \in Nat /\ n - point \in Nat /\ n - from \in Nat
      /\ from + (point - from) = point /\ point + (n - point) = n /\ from + (n - from) = n
      /\ (point - from) + (n - point) = n - from
    <2>1. n \in Nat /\ FirstPrinted(words, point) \in 1..point + 1
        BY FirstIs, SeqFacts
    <2> HIDE DEF n
    <2>2. from \in Nat /\ from <= point /\ from + 1 = FirstPrinted(words, point) /\ point <= n
        BY <2>1 DEF n
    <2> HIDE DEF from
    <2> QED
        BY <2>1, <2>2
<1>2. front = InFront(words, point) /\ back = Behind(words, point) /\ all = PrintedWords(words, point)
    BY <1>1 DEF Slice, InFront, Behind, PrintedWords
<1> HIDE DEF from
<1>3. /\ IsSeq(front) /\ Len(front) = point - from /\ \A i \in 1..point - from : front[i] = words[from + i]
    <2> DEFINE l == point - from
    <2>1. l \in Nat /\ from + l <= Len(words)
        BY <1>1
    <2> HIDE DEF l
    <2>2. /\ IsSeq(Slice(words, from, l)) /\ Len(Slice(words, from, l)) = l
          /\ \A i \in 1..l : Slice(words, from, l)[i] = words[from + i]
        BY <1>1, <2>1, SliceAt
    <2> QED
        BY <2>2 DEF l
<1>4. /\ IsSeq(back) /\ Len(back) = n - point /\ \A i \in 1..n - point : back[i] = words[point + i]
    <2> DEFINE l == n - point
    <2>1. l \in Nat /\ point + l <= Len(words)
        BY <1>1
    <2> HIDE DEF l
    <2>2. /\ IsSeq(Slice(words, point, l)) /\ Len(Slice(words, point, l)) = l
          /\ \A i \in 1..l : Slice(words, point, l)[i] = words[point + i]
        BY <2>1, SliceAt
    <2> QED
        BY <2>2 DEF l
<1>5. /\ IsSeq(all) /\ Len(all) = n - from /\ \A i \in 1..n - from : all[i] = words[from + i]
    <2> DEFINE l == n - from
    <2>1. l \in Nat /\ from + l <= Len(words)
        BY <1>1
    <2> HIDE DEF l
    <2>2. /\ IsSeq(Slice(words, from, l)) /\ Len(Slice(words, from, l)) = l
          /\ \A i \in 1..l : Slice(words, from, l)[i] = words[from + i]
        BY <1>1, <2>1, SliceAt
    <2> QED
        BY <2>2 DEF l
<1> HIDE DEF front, back, all, n
<1>6. /\ IsSeq(t) /\ Len(t) = n - from
      /\ \A i \in 1..point - from : t[i] = front[i]
      /\ \A i \in 1..n - point : t[(point - from) + i] = back[i]
    <2>1. /\ IsSeq(front \o back) /\ Len(front \o back) = Len(front) + Len(back)
          /\ \A i \in 1..Len(front) : (front \o back)[i] = front[i]
          /\ \A i \in 1..Len(back) : (front \o back)[Len(front) + i] = back[i]
        <3>1. IsSeq(front) /\ IsSeq(back)
            BY <1>3, <1>4
        <3> QED
            BY <3>1, ConcatIsSeq
    <2> QED
        BY <1>1, <1>3, <1>4, <2>1
<1> HIDE DEF t
<1>7. ASSUME NEW i \in 1..n - from PROVE t[i] = all[i]
    <2>1. CASE i <= point - from
        <3>1. i \in 1..point - from
            BY <1>1, <2>1
        <3> QED
            BY <1>3, <1>5, <1>6, <3>1
    <2>2. CASE ~(i <= point - from)
        <3> DEFINE j == i - (point - from)
        <3>1. j \in 1..n - point /\ (point - from) + j = i /\ point + j = from + i
            BY <1>1, <2>2
        <3> HIDE DEF j
        <3>2. t[(point - from) + j] = back[j] /\ back[j] = words[point + j]
            BY <1>4, <1>6, <3>1
        <3> QED
            BY <1>5, <3>1, <3>2
    <2> QED
        BY <2>1, <2>2
<1>8. t = all
    BY <1>5, <1>6, <1>7, SameSeq
<1> QED
    BY <1>2, <1>3, <1>4, <1>5, <1>8 DEF t

\* The nines of the digits, by the words of their groups.
LEMMA NinesAre ==
    ASSUME NEW precision, NEW scale, NEW value, NEW words, NEW point,
           SpelledWords(Filled(precision, scale, Tail(value))) = words,
           Len(words) - (scale + 8) \div 9 = point
    PROVE  Nines(precision, scale, value) = [intg |-> InFront(words, point), frac |-> Behind(words, point)]
<1> DEFINE spelled == SpelledWords(Filled(precision, scale, Tail(value)))
           point1 == Len(spelled) - (scale + 8) \div 9
<1>1. Nines(precision, scale, value) = [intg |-> InFront(spelled, point1), frac |-> Behind(spelled, point1)]
    BY DEF Nines, SpelledWords, Filled, Zeros, InFront, Behind, FirstPrinted
<1>2. spelled = words
    OBVIOUS
<1> HIDE DEF spelled
<1> QED
    BY <1>1, <1>2

\* The text that is printed of words.
Shown(words) == IF words = << >> THEN <<0>> ELSE words
Pointed(sign, words) ==
    <<sign>> \o [i \in 1..2 * Len(words) - 1 |-> IF i % 2 = 1 THEN words[(i + 1) \div 2] ELSE Point]

\* It has the words at every other place.
LEMMA PointedIs ==
    ASSUME NEW sign, NEW words, IsSeq(words), Len(words) # 0, NEW text, text = Pointed(sign, words)
    PROVE  /\ text[1] = sign /\ [i \in 1..Len(text) \div 2 |-> text[2 * i]] = words
           /\ Len(words) = 1 => text = <<sign, words[1]>>
           /\ Len(words) = 2 => text = <<sign, words[1], Point, words[2]>>
<1> DEFINE n == Len(words)
           t == [i \in 1..2 * n - 1 |-> IF i % 2 = 1 THEN words[(i + 1) \div 2] ELSE Point]
<1>1. n \in Nat /\ n # 0 /\ words = [i \in 1..n |-> words[i]]
    BY SeqFacts
<1>2. text = <<sign>> \o t
    BY DEF Pointed
<1> HIDE DEF n
<1>3. /\ IsSeq(t) /\ Len(t) = 2 * n - 1
      /\ \A i \in 1..2 * n - 1 : t[i] = IF i % 2 = 1 THEN words[(i + 1) \div 2] ELSE Point
    <2>1. \A i \in 1..2 * n - 1 : t[i] = IF i % 2 = 1 THEN words[(i + 1) \div 2] ELSE Point
        OBVIOUS
    <2>2. t = [i \in 1..2 * n - 1 |-> t[i]]
        OBVIOUS
    <2>3. 2 * n - 1 \in Nat
        BY <1>1
    <2> HIDE DEF t
    <2> QED
        BY <2>1, <2>2, <2>3, FunctionIsSeq
<1> HIDE DEF t
<1>4. /\ IsSeq(text) /\ Len(text) = 2 * n /\ text[1] = sign
      /\ \A i \in 1..2 * n - 1 : text[1 + i] = t[i]
    <2> DEFINE s == <<sign>>
    <2>1. IsSeq(s) /\ Len(s) = 1 /\ s[1] = sign
        BY SingleIsSeq
    <2> HIDE DEF s
    <2>2. /\ IsSeq(s \o t) /\ Len(s \o t) = Len(s) + Len(t)
          /\ \A i \in 1..Len(s) : (s \o t)[i] = s[i]
          /\ \A i \in 1..Len(t) : (s \o t)[Len(s) + i] = t[i]
        <3>1. IsSeq(s) /\ IsSeq(t)
            BY <1>3, <2>1
        <3> QED
            BY <3>1, ConcatIsSeq
    <2>3. text = s \o t
        BY <1>2 DEF s
    <2>4. /\ IsSeq(text) /\ Len(text) = 1 + (2 * n - 1)
          /\ \A i \in 1..1 : text[i] = s[i]
          /\ \A i \in 1..2 * n - 1 : text[1 + i] = t[i]
        BY <1>3, <2>1, <2>2, <2>3
    <2> QED
        BY <1>1, <2>1, <2>4
<1>5. ASSUME NEW i \in 1..n PROVE text[2 * i] = words[i]
    <2>1. /\ 2 * i - 1 \in 1..2 * n - 1 /\ 1 + (2 * i - 1) = 2 * i
          /\ (2 * i - 1) % 2 = 1 /\ ((2 * i - 1) + 1) \div 2 = i
        BY <1>1
    <2> QED
        BY <1>3, <1>4, <2>1
<1>6. [i \in 1..Len(text) \div 2 |-> text[2 * i]] = words
    <2>1. Len(text) \div 2 = n
        BY <1>1, <1>4
    <2> QED
        BY <1>1, <1>5, <2>1
<1>7. text = [i \in 1..2 * n |-> text[i]]
    BY <1>4, SeqFacts
<1>8. CASE n = 1
    <2>1. text[2 * 1] = words[1]
        BY <1>5, <1>8
    <2>2. text = [i \in 1..2 |-> text[i]]
        BY <1>7, <1>8
    <2>3. text = <<text[1], text[2]>>
        BY <2>2
    <2> QED
        BY <1>4, <1>6, <1>8, <2>1, <2>3 DEF n
<1>9. CASE n = 2
    <2>1. text[2 * 1] = words[1] /\ text[2 * 2] = words[2]
        BY <1>5, <1>9
    <2>2. text[1 + 2] = t[2] /\ t[2] = Point
        BY <1>3, <1>4, <1>9
    <2>3. text = [i \in 1..4 |-> text[i]]
        BY <1>7, <1>9
    <2>4. text = <<text[1], text[2], text[3], text[4]>>
        BY <2>3
    <2> QED
        BY <1>4, <1>6, <1>9, <2>1, <2>2, <2>4 DEF n
<1>10. CASE n # 1 /\ n # 2
    BY <1>4, <1>6, <1>10 DEF n
<1> QED
    BY <1>8, <1>9, <1>10

\* Nothing, one element and three elements behind a sequence.
LEMMA NoneBehind ==
    ASSUME NEW s, IsSeq(s)
    PROVE  s \o << >> = s
<1> DEFINE t == << >>
<1>1. IsSeq(t) /\ Len(t) = 0
    BY EmptyIsSeq
<1> HIDE DEF t
<1>2. IsSeq(t)
    BY <1>1
<1>3. IsSeq(s \o t) /\ Len(s \o t) = Len(s) + Len(t) /\ \A i \in 1..Len(s) : (s \o t)[i] = s[i]
    BY <1>2, ConcatIsSeq
<1>4. Len(s \o t) = Len(s)
    BY <1>1, <1>3, SeqFacts
<1>5. s \o t = s
    BY <1>3, <1>4, SameSeq
<1> QED
    BY <1>5 DEF t

LEMMA TwoAre ==
    ASSUME NEW a, NEW b
    PROVE  <<a>> \o <<b>> = <<a, b>> /\ IsSeq(<<a, b>>) /\ Len(<<a, b>>) = 2
<1>1. <<a>> \o <<b>> = <<a, b>>
    <2> DEFINE s == <<a>>
               t == <<b>>
               u == s \o t
    <2>1. IsSeq(s) /\ IsSeq(t) /\ Len(s) = 1 /\ Len(t) = 1 /\ s[1] = a /\ t[1] = b
        BY SingleIsSeq
    <2> HIDE DEF s, t
    <2>2. /\ IsSeq(u) /\ Len(u) = Len(s) + Len(t)
          /\ \A i \in 1..Len(s) : u[i] = s[i]
          /\ \A i \in 1..Len(t) : u[Len(s) + i] = t[i]
        <3>1. IsSeq(s) /\ IsSeq(t)
            BY <2>1
        <3> QED
            BY <3>1, ConcatIsSeq
    <2> HIDE DEF u
    <2>3. IsSeq(u) /\ Len(u) = 2 /\ u[1] = a /\ u[1 + 1] = b
        BY <2>1, <2>2
    <2>4. u = [i \in 1..2 |-> u[i]]
        BY <2>3, SeqFacts
    <2>5. u = <<u[1], u[2]>>
        BY <2>4
    <2>6. u[2] = b
        BY <2>3
    <2>7. u = <<a, b>>
        BY <2>3, <2>5, <2>6
    <2> QED
        BY <2>7 DEF u, s, t
<1>2. <<a, b>> = [i \in 1..2 |-> <<a, b>>[i]]
    OBVIOUS
<1>3. IsSeq(<<a, b>>) /\ Len(<<a, b>>) = 2
    BY <1>2, FunctionIsSeq
<1> QED
    BY <1>1, <1>3

LEMMA FourAre ==
    ASSUME NEW a, NEW b, NEW c, NEW d
    PROVE  <<a>> \o <<b>> \o (<<c>> \o <<d>>) = <<a, b, c, d>>
<1> DEFINE s == <<a, b>>
           t == <<c, d>>
           u == s \o t
<1>1. <<a>> \o <<b>> = s /\ <<c>> \o <<d>> = t
    BY TwoAre
<1>2. IsSeq(s) /\ IsSeq(t) /\ Len(s) = 2 /\ Len(t) = 2
    BY TwoAre
<1>3. s[1] = a /\ s[2] = b /\ t[1] = c /\ t[2] = d
    OBVIOUS
<1>4. <<a>> \o <<b>> \o (<<c>> \o <<d>>) = u
    BY <1>1
<1> HIDE DEF s, t
<1>5. /\ IsSeq(u) /\ Len(u) = Len(s) + Len(t)
      /\ \A i \in 1..Len(s) : u[i] = s[i]
      /\ \A i \in 1..Len(t) : u[Len(s) + i] = t[i]
    <2>1. IsSeq(s) /\ IsSeq(t)
        BY <1>2
    <2> QED
        BY <2>1, ConcatIsSeq
<1> HIDE DEF u
<1>6. Len(u) = 4 /\ u[1] = a /\ u[2] = b /\ u[2 + 1] = c /\ u[2 + 2] = d
    <2>1. \A i \in 1..2 : u[i] = s[i] /\ u[2 + i] = t[i]
        BY <1>2, <1>5
    <2> QED
        BY <1>2, <1>3, <1>5, <2>1
<1>7. u = [i \in 1..4 |-> u[i]]
    BY <1>5, <1>6, SeqFacts
<1>8. u = <<u[1], u[2], u[3], u[4]>>
    BY <1>7
<1>9. u[3] = c /\ u[4] = d
    BY <1>6
<1>10. u = <<a, b, c, d>>
    BY <1>6, <1>8, <1>9
<1> QED
    BY <1>4, <1>10 DEF u

\* So the words are read, and the whole text if no other point is in it.
LEMMA PointedIsRead ==
    ASSUME NEW sign, NEW intg, IsSeq(intg), NEW frac, IsSeq(frac), IsSeq(intg \o frac),
           NEW text, text = Pointed(sign, Shown(intg \o frac))
    PROVE  /\ text[1] = sign
           /\ [i \in 1..Len(text) \div 2 |-> text[2 * i]] = Shown(intg \o frac)
           /\ ((Len(intg) <= 1 /\ Len(frac) = 0) \/ (Len(intg) = 1 /\ Len(frac) = 1))
              => text = DecimalSpelled(sign, [intg |-> intg, frac |-> frac])
<1> DEFINE words == intg \o frac
           shown == Shown(words)
<1>1. /\ Len(words) = Len(intg) + Len(frac)
      /\ \A i \in 1..Len(intg) : words[i] = intg[i]
      /\ \A i \in 1..Len(frac) : words[Len(intg) + i] = frac[i]
      /\ Len(intg) \in Nat /\ Len(frac) \in Nat
    BY ConcatIsSeq, SeqFacts
<1>2. \A s : IsSeq(s) => (Len(s) = 0 <=> s = << >>)
    BY EmptyIsSeq, SameSeq
<1>3. IsSeq(words)
    OBVIOUS
<1> HIDE DEF words
<1>4. IsSeq(shown) /\ Len(shown) # 0
    <2>1. IsSeq(<<0>>) /\ Len(<<0>>) = 1
        BY SingleIsSeq
    <2> QED
        BY <1>2, <1>3, <2>1 DEF Shown
<1>5. text = Pointed(sign, shown)
    BY DEF words
<1> HIDE DEF shown
<1>6. /\ text[1] = sign /\ [i \in 1..Len(text) \div 2 |-> text[2 * i]] = shown
      /\ Len(shown) = 1 => text = <<sign, shown[1]>>
      /\ Len(shown) = 2 => text = <<sign, shown[1], Point, shown[2]>>
    BY <1>4, <1>5, PointedIs
<1> DEFINE spelled == DecimalSpelled(sign, [intg |-> intg, frac |-> frac])
<1>7. spelled = <<sign>> \o (IF intg = << >> THEN <<0>> ELSE intg)
                         \o (IF frac = << >> THEN << >> ELSE <<Point>> \o frac)
    BY DEF DecimalSpelled
<1> HIDE DEF spelled
<1>8. CASE Len(intg) = 0 /\ Len(frac) = 0
    <2>1. intg = << >> /\ frac = << >> /\ words = << >>
        BY <1>1, <1>2, <1>3, <1>8
    <2>2. shown = <<0>>
        BY <2>1 DEF shown, Shown
    <2>3. text = <<sign, 0>>
        BY <1>6, <2>2
    <2>4. spelled = <<sign>> \o <<0>> \o << >>
        BY <1>7, <2>1
    <2>5. spelled = <<sign, 0>>
        BY <2>4, TwoAre, NoneBehind
    <2> QED
        BY <1>6, <2>3, <2>5 DEF spelled, shown, words
<1>9. CASE Len(intg) = 1 /\ Len(frac) = 0
    <2>1. frac = << >> /\ intg # << >> /\ words # << >> /\ Len(words) = 1 /\ words[1] = intg[1]
        BY <1>1, <1>2, <1>3, <1>9, EmptyIsSeq
    <2>2. shown = words
        BY <2>1 DEF shown, Shown
    <2>3. text = <<sign, intg[1]>>
        BY <1>6, <2>1, <2>2
    <2>4. intg = <<intg[1]>>
        BY <1>9, OneNumber
    <2>5. spelled = <<sign>> \o intg \o << >>
        BY <1>7, <2>1
    <2>6. spelled = <<sign>> \o <<intg[1]>> \o << >>
        BY <2>4, <2>5
    <2>7. spelled = <<sign, intg[1]>>
        BY <2>6, TwoAre, NoneBehind
    <2> QED
        BY <1>6, <2>3, <2>7 DEF spelled, shown, words
<1>10. CASE Len(intg) = 1 /\ Len(frac) = 1
    <2>1. /\ frac # << >> /\ intg # << >> /\ words # << >> /\ Len(words) = 2
          /\ words[1] = intg[1] /\ words[1 + 1] = frac[1]
        BY <1>1, <1>2, <1>3, <1>10, EmptyIsSeq
    <2>2. shown = words
        BY <2>1 DEF shown, Shown
    <2>3. text = <<sign, intg[1], Point, frac[1]>>
        BY <1>6, <2>1, <2>2
    <2>4. intg = <<intg[1]>> /\ frac = <<frac[1]>>
        BY <1>10, OneNumber
    <2>5. spelled = <<sign>> \o intg \o (<<Point>> \o frac)
        BY <1>7, <2>1
    <2>6. spelled = <<sign>> \o <<intg[1]>> \o (<<Point>> \o <<frac[1]>>)
        BY <2>4, <2>5
    <2>7. spelled = <<sign, intg[1], Point, frac[1]>>
        BY <2>6, FourAre
    <2> QED
        BY <1>6, <2>3, <2>7 DEF spelled, shown, words
<1>11. CASE ~((Len(intg) <= 1 /\ Len(frac) = 0) \/ (Len(intg) = 1 /\ Len(frac) = 1))
    <2>1. text[1] = sign /\ [i \in 1..Len(text) \div 2 |-> text[2 * i]] = shown
        BY <1>6
    <2>2. text[1] = sign /\ [i \in 1..Len(text) \div 2 |-> text[2 * i]] = Shown(intg \o frac)
        BY <2>1 DEF shown, words
    <2>3. ((Len(intg) <= 1 /\ Len(frac) = 0) \/ (Len(intg) = 1 /\ Len(frac) = 1))
          => text = DecimalSpelled(sign, [intg |-> intg, frac |-> frac])
        BY <1>11
    <2> QED
        BY <2>2, <2>3
<1>12. \/ Len(intg) = 0 /\ Len(frac) = 0
       \/ Len(intg) = 1 /\ Len(frac) = 0
       \/ Len(intg) = 1 /\ Len(frac) = 1
       \/ ~((Len(intg) <= 1 /\ Len(frac) = 0) \/ (Len(intg) = 1 /\ Len(frac) = 1))
    <2>1. Len(intg) \in Nat /\ Len(frac) \in Nat
        BY SeqFacts
    <2> QED
        BY <2>1
<1> QED
    BY <1>8, <1>9, <1>10, <1>11, <1>12

\* A sequence without its first element.
LEMMA TailIsSeq ==
    ASSUME NEW s, IsSeq(s), Len(s) # 0
    PROVE  /\ IsSeq(Tail(s)) /\ Len(Tail(s)) = Len(s) - 1
           /\ \A i \in 1..Len(s) - 1 : Tail(s)[i] = s[i + 1]
<1> DEFINE S == ToSet(s)
<1>1. s \in Seq(S) /\ s # << >>
    BY EmptyIsSeq DEF IsSeq
<1> HIDE DEF S
<1>2. /\ Tail(s) \in Seq(S) /\ Len(Tail(s)) = Len(s) - 1
      /\ \A i \in 1..Len(Tail(s)) : Tail(s)[i] = s[i + 1]
    BY <1>1, HeadTailProperties
<1>3. IsSeq(Tail(s))
    BY <1>2, SeqIsSeq
<1> QED
    BY <1>2, <1>3

\* The words of a DECIMAL are read, and its text where no point is wrong.
LEMMA DecimalRead ==
    ASSUME NEW precision, NEW scale, IsDecimal(precision, scale),
           NEW value, IsSeq(value), Len(value) = 1 + precision, value[1] \in {0, 1},
           \A i \in 2..Len(value) : value[i] \in 0..9
    PROVE  DecimalIsRead(precision, scale, value,
                         DecimalText(DecimalBytes(precision, scale, value), precision, scale))
<1> DEFINE digits == Tail(value)
           from == DecimalBytes(precision, scale, value)
           plain == PlainOf(precision, scale, digits)
           groups == Groups(precision, scale, digits)
<1>1. precision \in Nat \ {0} /\ scale \in Nat /\ scale <= precision
    BY DEF IsDecimal
<1>2. IsSeq(digits) /\ Len(digits) = precision /\ \A i \in 1..precision : digits[i] = value[i + 1]
    <2>1. Len(value) - 1 = precision /\ Len(value) # 0
        BY <1>1
    <2> HIDE DEF digits
    <2>2. /\ IsSeq(digits) /\ Len(digits) = Len(value) - 1
          /\ \A i \in 1..Len(value) - 1 : digits[i] = value[i + 1]
        BY <2>1, TailIsSeq DEF digits
    <2> QED
        BY <2>1, <2>2
<1> HIDE DEF digits
<1>3. AreDigits(digits)
    <2>1. ASSUME NEW i \in 1..precision PROVE digits[i] \in 0..9
        <3>1. i + 1 \in 2..Len(value)
            BY <1>1
        <3>2. value[i + 1] \in 0..9
            BY <3>1, Zenon
        <3> QED
            BY <1>2, <3>2, Zenon
    <2> QED
        BY <1>2, <2>1, Zenon DEF AreDigits
<1>4. PICK a, b, m, k, a1, b1 : Shape(precision, scale, a, b, m, k, a1, b1)
    BY DEF Shape
<1>5. AreBytes(plain) /\ Len(plain) # 0 /\ plain[1] < 128
    <2>1. groups = Groups(precision, scale, digits) /\ plain = PlainOf(precision, scale, digits)
        OBVIOUS
    <2> HIDE DEF groups, plain
    <2>2. /\ AreBytes(plain) /\ Len(plain) # 0 /\ plain[1] < 128
          /\ \A i \in 1..a1 + m + k + b1 :
                 High(Slice(plain, PieceStart(a, m, k, a1, i), Dig2Bytes(Len(groups[i])))) = Number(groups[i])
        BY <1>1, <1>2, <1>3, <1>4, <2>1, PlainIs
    <2> QED
        BY <2>2
<1>6. from = Inverted(plain, value[1] = 1)
    BY WrittenIs DEF digits
<1> HIDE DEF plain, from
<1>7. (from[1] < 128 <=> value[1] = 1) /\ Plain(from) = plain
    <2>1. IsSeq(plain) /\ \A i \in 1..Len(plain) : plain[i] \in 0..255
        BY <1>5 DEF AreBytes
    <2>2. (value[1] = 1) \in BOOLEAN
        OBVIOUS
    <2> DEFINE negative == value[1] = 1
    <2>3. negative \in BOOLEAN /\ from = Inverted(plain, negative)
        BY <1>6
    <2> HIDE DEF negative
    <2>4. /\ Inverted(plain, negative)[1] < 128 <=> negative
          /\ Plain(Inverted(plain, negative)) = plain
        BY <1>5, <2>1, <2>3, SignRead
    <2> QED
        BY <2>3, <2>4 DEF negative
<1> DEFINE words == DecimalWords(a, b, m, k, a1, b1, groups)
           printed == PrintedWords(words, a1 + m)
<1>8. Bin2Decimal(from, precision, scale) = [sign |-> from[1] < 128, buf |-> printed]
    <2>1. Plain(from) = PlainOf(precision, scale, digits)
        BY <1>7 DEF plain
    <2>2. groups = Groups(precision, scale, digits) /\ words = DecimalWords(a, b, m, k, a1, b1, groups)
        OBVIOUS
    <2> HIDE DEF groups, words
    <2> QED
        BY <1>1, <1>2, <1>3, <1>4, <2>1, <2>2, BufferIs
<1> DEFINE point == a1 + m
           intg == InFront(words, point)
           frac == Behind(words, point)
<1>9. /\ Nines(precision, scale, value) = [intg |-> intg, frac |-> frac]
      /\ IsSeq(intg) /\ IsSeq(frac) /\ IsSeq(intg \o frac) /\ intg \o frac = printed
    <2>1. Written(precision, scale, digits, a, b, m, k, a1, b1, groups, words)
        BY <1>2, <1>3, <1>4 DEF Written
    <2> DEFINE n == a1 + m + k + b1
    <2>2. m \in Nat /\ k \in Nat /\ a1 \in {0, 1} /\ b1 \in {0, 1}
        BY <1>1, <1>4, ShapeIs
    <2>3. n \in Nat /\ point \in Nat /\ point <= n
        BY <2>2
    <2>4. words = [i \in 1..n |-> words[i]]
        BY DEF DecimalWords
    <2> HIDE DEF groups, words, n
    <2>5. IsSeq(words) /\ Len(words) = n
        BY <2>3, <2>4, FunctionIsSeq
    <2>6. /\ SpelledWords(Filled(precision, scale, digits)) = words
          /\ Len(words) - (scale + 8) \div 9 = point
        BY <2>1, SpelledWordsAre
    <2> HIDE DEF point
    <2>7. Nines(precision, scale, value) = [intg |-> intg, frac |-> frac]
        BY <2>6, NinesAre DEF digits
    <2>8. IsSeq(intg) /\ IsSeq(frac) /\ IsSeq(PrintedWords(words, point))
          /\ intg \o frac = PrintedWords(words, point)
        BY <2>3, <2>5, BothSides
    <2> QED
        BY <2>7, <2>8 DEF point
<1> HIDE DEF printed, intg, frac
<1> DEFINE text == DecimalText(from, precision, scale)
<1>10. text = Pointed(IF from[1] < 128 THEN 1 ELSE 0, Shown(printed))
    <2> DEFINE dec == Bin2Decimal(from, precision, scale)
    <2>1. text = Pointed(IF dec.sign THEN 1 ELSE 0, Shown(dec.buf))
        BY DEF DecimalText, Pointed, Shown
    <2>2. dec.sign = (from[1] < 128) /\ dec.buf = printed
        BY <1>8
    <2> HIDE DEF dec, text
    <2> QED
        BY <2>1, <2>2, Zenon
<1>11. (IF from[1] < 128 THEN 1 ELSE 0) = value[1]
    BY <1>7
<1> HIDE DEF text
<1>12. text = Pointed(value[1], Shown(intg \o frac))
    BY <1>9, <1>10, <1>11
<1>13. /\ text[1] = value[1]
       /\ [i \in 1..Len(text) \div 2 |-> text[2 * i]] = Shown(intg \o frac)
       /\ ((Len(intg) <= 1 /\ Len(frac) = 0) \/ (Len(intg) = 1 /\ Len(frac) = 1))
          => text = DecimalSpelled(value[1], [intg |-> intg, frac |-> frac])
    <2>1. IsSeq(intg) /\ IsSeq(frac) /\ IsSeq(intg \o frac)
        BY <1>9
    <2> QED
        BY <1>12, <2>1, PointedIsRead
<1>14. DecimalIsRead(precision, scale, value, text)
    <2> DEFINE nines == Nines(precision, scale, value)
    <2>1. nines.intg = intg /\ nines.frac = frac /\ nines = [intg |-> intg, frac |-> frac]
        BY <1>9
    <2> HIDE DEF nines
    <2>2. /\ text[1] = value[1]
          /\ [i \in 1..Len(text) \div 2 |-> text[2 * i]] = Shown(nines.intg \o nines.frac)
          /\ ((Len(nines.intg) <= 1 /\ Len(nines.frac) = 0) \/ (Len(nines.intg) = 1 /\ Len(nines.frac) = 1))
             => text = DecimalSpelled(value[1], nines)
        BY <1>13, <2>1
    <2> QED
        BY <2>2 DEF DecimalIsRead, Shown, nines
<1> QED
    BY <1>14 DEF text, from

\* So it is where a DECIMAL was written.
LEMMA DecimalValueRead ==
    ASSUME NEW column, Declared(column), NEW v, Storable(column, v), column.type = T.NEWDECIMAL,
           NEW buf, NEW at, Reads(buf, at, Encoded(column, v))
    PROVE  IsRead(column, v, ParseColumnValue(buf, at, column.type, column.meta).text)
<1> DEFINE type == RealType(column.type, column.meta)
           high == column.meta \div 256
           low == column.meta % 256
           bytes == DecimalBytes(high, low, v)
<1>1. column.type = 246 /\ type = 246
    BY TypeCodes DEF RealType
<1>2. /\ high \in 1..65 /\ low \in 0..30 /\ low <= high
    BY DEF Declared
<1> HIDE DEF type, high, low
<1>3. type = RealType(column.type, column.meta) /\ high = column.meta \div 256 /\ low = column.meta % 256
    BY DEF type, high, low
<1>4. IsSeq(v) /\ Len(v) = 1 + high /\ v[1] \in {0, 1} /\ \A i \in 2..Len(v) : v[i] \in 0..9
    BY <1>1, <1>3, StorableIs
<1>5. IsDecimal(high, low) /\ high \in Nat \ {0} /\ low \in Nat
    BY <1>2 DEF IsDecimal
<1>6. DecimalIsRead(high, low, v, DecimalText(bytes, high, low))
    BY <1>4, <1>5, DecimalRead
<1>7. Len(bytes) = DecimalBinSize(high, low)
    BY <1>2, <1>4, <1>5, DecimalBytesSize
<1>8. Encoded(column, v) = bytes
    BY <1>1, <1>3, EncodedIs
<1>9. Slice(buf, at, DecimalBinSize(high, low)) = bytes
    <2>1. Slice(buf, at, Len(bytes)) = bytes
        BY <1>8, ReadsSlice
    <2> QED
        BY <1>7, <2>1
<1>10. ParseColumnValue(buf, at, column.type, column.meta).text
           = DecimalText(Slice(buf, at, DecimalBinSize(high, low)), high, low)
    BY <1>1, <1>3, ParsedText
<1> HIDE DEF bytes
<1>11. DecimalIsRead(high, low, v, ParseColumnValue(buf, at, column.type, column.meta).text)
    BY <1>6, <1>9, <1>10
<1> QED
    BY <1>3, <1>11 DEF IsRead

\* A DECIMAL is pushed with its text, and the parser is behind it.
LEMMA AbortReads ==
    ASSUME EventInv, MetasInv, RowsInv, Abort, UNCHANGED event
    PROVE  DecimalsRead'
<1> DEFINE k == Image
           i == Column
           value == ParseColumnValue(rowBuf, pos, types[i], metas[i])
           column == columns[i]
           v == images[k][i]
<1>1. /\ stage = "columns" /\ i <= Len(columns) /\ UNCHANGED <<isOld, lines>>
      /\ Present /\ ~GetBit(nulls, presentPos) /\ types[i] = T.NEWDECIMAL
      /\ pos' = pos + value.size /\ PushBack(value.text) /\ stage' = "aborted"
    BY DEF Abort, HasValue, InImage, PushColumn, Aborting
<1>2. i \in PresentIn(k) /\ ~IsNull(k, i)
    <2>1. /\ Present <=> i \in PresentIn(k)
          /\ i \in PresentIn(k) => (GetBit(nulls, presentPos) <=> IsNull(k, i))
        BY <1>1, NextColumn
    <2> QED
        BY <1>1, <2>1
<1>3. /\ Declared(column) /\ Storable(column, v)
      /\ types[i] = column.type /\ metas[i] = column.meta
      /\ Reads(rowBuf, pos, Encoded(column, v))
    BY <1>1, <1>2, NextValue
<1>4. column.type = T.NEWDECIMAL
    BY <1>1, <1>3
<1>5. pos' = ColumnStart(k, i + 1)
    BY <1>1, <1>2, <1>4, ValuePassed
<1>6. IsText(k, i, value.text)
    <2> HIDE DEF column, v
    <2>1. IsRead(column, v, ParseColumnValue(rowBuf, pos, column.type, column.meta).text)
        BY <1>3, <1>4, DecimalValueRead
    <2>2. IsRead(column, v, value.text)
        BY <1>3, <2>1
    <2> HIDE DEF value
    <2> QED
        BY <1>2, <2>2 DEF IsText, column, v
<1>7. LineInv /\ IsSeq(line.old) /\ IsSeq(line.new) /\ isOld \in BOOLEAN
      /\ line = [old |-> line.old, new |-> line.new]
    BY <1>1 DEF RowsInv, InColumns, LineInv
<1> HIDE DEF value
<1> DEFINE s == Append(Pushed, value.text)
<1>8. Pushed' = s
    <2>1. CASE isOld
        BY <1>1, <1>7, <2>1 DEF PushBack, Pushed
    <2>2. CASE ~isOld
        BY <1>1, <1>7, <2>2 DEF PushBack, Pushed
    <2> QED
        BY <2>1, <2>2
<1>9. Len(s) = i /\ s[i] = value.text
    <2> DEFINE p == Pushed
    <2>1. IsSeq(p) /\ i = Len(p) + 1
        BY <1>7 DEF Pushed, Column
    <2> HIDE DEF p, i
    <2>2. Len(Append(p, value.text)) = Len(p) + 1 /\ Append(p, value.text)[Len(p) + 1] = value.text
        BY <2>1, AppendIs
    <2> QED
        BY <2>1, <2>2 DEF p
<1>10. /\ cmd' = cmd /\ PerRow' = PerRow
       /\ \A q, j : ColumnStart(q, j)' = ColumnStart(q, j)
       /\ \A q, j, text : IsText(q, j, text)' <=> IsText(q, j, text)
    BY SamePlaces, SameTexts
<1>11. Image' = k
    BY <1>1, <1>10 DEF Image
<1> HIDE DEF s, k, i
<1>12. Len(Pushed') = i /\ Last(Pushed') = value.text
    BY <1>8, <1>9 DEF Last
<1>13. ColumnStart(Image, Len(Pushed) + 1)' = ColumnStart(k, i + 1)
    BY <1>10, <1>11, <1>12
<1>14. IsText(Image, Len(Pushed), Last(Pushed))' <=> IsText(k, i, value.text)
    BY <1>10, <1>11, <1>12
<1> QED
    BY <1>5, <1>6, <1>13, <1>14 DEF DecimalsRead

\* Nothing is read behind it.
LEMMA DecimalsStep ==
    ASSUME [Next]_vars, EventInv, MetasInv, RowsInv, DecimalsRead
    PROVE  DecimalsRead'
<1>1. UNCHANGED event
    BY EventStep
<1>2. CASE UNCHANGED vars
    <2>1. UNCHANGED <<stage, pos, isOld, line, lines>>
        BY <1>2 DEF vars, image
    <2>2. /\ cmd' = cmd /\ PerRow' = PerRow
          /\ \A q, j : ColumnStart(q, j)' = ColumnStart(q, j)
          /\ \A q, j, text : IsText(q, j, text)' <=> IsText(q, j, text)
        BY <1>1, SamePlaces, SameTexts
    <2>3. Image' = Image /\ Pushed' = Pushed
        BY <2>1, <2>2 DEF Image, Pushed
    <2>4. /\ ColumnStart(Image, Len(Pushed) + 1)' = ColumnStart(Image, Len(Pushed) + 1)
          /\ IsText(Image, Len(Pushed), Last(Pushed))' <=> IsText(Image, Len(Pushed), Last(Pushed))
        BY <2>2, <2>3
    <2> QED
        BY <2>1, <2>4 DEF DecimalsRead
<1>3. CASE Abort
    BY <1>1, <1>3, AbortReads
<1>4. CASE \/ ParseTablemap \/ ReadMeta \/ EndTablemap
           \/ ParseRowHead \/ BeginRow \/ EndOld \/ EndRow
           \/ PushAbsent \/ PushNull \/ PushValue \/ StopImage
    <2>1. stage' # "aborted"
        BY <1>4 DEF ParseTablemap, ReadMeta, EndTablemap, ParseRowHead, BeginRow, EndOld, EndRow,
                    PushAbsent, PushNull, PushValue, StopImage, BeginImage, HasValue, InImage
    <2> QED
        BY <2>1 DEF DecimalsRead
<1> QED
    BY <1>2, <1>3, <1>4 DEF Next

\* A DECIMAL of every precision and scale that the server declares, with any digits and either
\* sign, has its sign and its words in the text that ParseColumnValue makes of what bin2decimal
\* gives, the text is that of the value where it has no word or one in front of the point and none
\* behind it, or one and one, and the parser is behind its bytes when the missing break ends it.
THEOREM DecimalsAreRead == Spec => []DecimalsRead
<1>1. Init => EventInv /\ MetasInv /\ RowsInv /\ DecimalsRead
    BY InitEvent, MetasInit, RowsInit DEF Init, DecimalsRead
<1>2. EventInv /\ MetasInv /\ RowsInv /\ DecimalsRead /\ [Next]_vars
          => (EventInv /\ MetasInv /\ RowsInv /\ DecimalsRead)'
    BY EventStep, MetasStep, RowsStep, DecimalsStep
<1> QED
    BY <1>1, <1>2, PTL DEF Spec
=============================================================================
