----------------------------- MODULE ColumnValues -----------------------------
(***************************************************************************)
(* The bytes of one column in a row, and what the parser makes of them:     *)
(* RowEvent::ParseColumnValue (event.cpp) and the times of util.cpp.        *)
(*                                                                         *)
(* A value is a tuple of numbers, and so is the text it is formatted to     *)
(* ("%04d-%02d-%02d" as its three numbers):                                *)
(*   integers, YEAR, ENUM, TIMESTAMP   <<n>>                               *)
(*   DATE, NEWDATE       <<year, month, day>>                              *)
(*   TIME                <<negative, hour, minute, second>>                *)
(*   DATETIME            <<year, month, day, hour, minute, second>>        *)
(*   TIMESTAMP(n)        <<second, microsecond>>                           *)
(*   DATETIME(n)         <<year, month, day, hour, minute, second, micro>> *)
(*   TIME(n)             <<negative, hour, minute, second, microsecond>>   *)
(*   DECIMAL             see Decimal                                       *)
(*   others              their bytes; those of FLOAT and DOUBLE stand for  *)
(*                       their text                                        *)
(* The minus sign of a time is a part of its text, 1 where it is printed.   *)
(* Zeros in front of a number are not: of the microseconds 5 of a TIME(6)   *)
(* "%d" prints 5, which is the right number but not the right fraction.     *)
(* TLC checks integers of four and eight bytes within 32 bits only.        *)
(***************************************************************************)
EXTENDS Decimal

\* MYSQL_TYPE_...
T == [TINY |-> 1, SHORT |-> 2, LONG |-> 3, FLOAT |-> 4, DOUBLE |-> 5, TIMESTAMP |-> 7,
      LONGLONG |-> 8, INT24 |-> 9, DATE |-> 10, TIME |-> 11, DATETIME |-> 12, YEAR |-> 13,
      NEWDATE |-> 14, VARCHAR |-> 15, BIT |-> 16, TIMESTAMP2 |-> 17, DATETIME2 |-> 18,
      TIME2 |-> 19, NEWDECIMAL |-> 246, ENUM |-> 247, SET |-> 248, TINY_BLOB |-> 249,
      MEDIUM_BLOB |-> 250, LONG_BLOB |-> 251, BLOB |-> 252, VAR_STRING |-> 253,
      STRING |-> 254, GEOMETRY |-> 255]

\* uint2korr, uint3korr, uint4korr and uint8korr: the first byte is the lowest.
Low(bytes) == High(Reverse(bytes))

\* What is above the first k bytes of a number.
Above(n, k) == IF k < 4 THEN n \div Powers256[k + 1]
               ELSE ((n \div 16777216) \div 256) \div Powers256[k - 3]
LowBytes(n, size) == [i \in 1..size |-> Above(n, i - 1) % 256]

\* A char is signed, and with it what begins or ends with it.
Signed(byte) == IF byte > 127 THEN byte - 256 ELSE byte
SignedHigh(bytes) ==
    LET high[i \in 1..Len(bytes)] == IF i = 1 THEN Signed(bytes[1]) ELSE high[i - 1] * 256 + bytes[i]
    IN high[Len(bytes)]
SignedLow(bytes) == SignedHigh(Reverse(bytes))

IntegerTypes == {T.TINY, T.SHORT, T.INT24, T.LONG, T.LONGLONG}
IntegerSize(type) ==
    CASE type = T.TINY -> 1 [] type = T.SHORT -> 2 [] type = T.INT24 -> 3
      [] type = T.LONG -> 4 [] type = T.LONGLONG -> 8

\* MYSQL_TYPE_STRING stands for CHAR, ENUM and SET: the metadata say for which.
RealType(type, meta) ==
    IF type = T.STRING /\ meta \div 256 \in {T.SET, T.ENUM} THEN meta \div 256 ELSE type

-----------------------------------------------------------------------------
(* The server.                                                             *)

\* How many bytes give the length of a value.
LengthSize(column) ==
    CASE column.type \in {T.BLOB, T.GEOMETRY} -> column.meta
      [] column.type \in {T.VARCHAR, T.VAR_STRING} -> IF column.meta > 255 THEN 2 ELSE 1
      [] column.type = T.STRING /\ column.meta \div 256 = 254 -> 1
      [] column.type = T.STRING /\ column.meta \div 256 \in {238, 222, 206} -> 2  \* 256 bytes and more
      [] OTHER -> 0

\* The bytes of a fraction, and the microseconds its last digit stands for.
FracSize(meta) == (meta + 1) \div 2
FracUnit(meta) == Powers10[7 - 2 * FracSize(meta)]

TimefIntOfs == 8388608       \* 0x800000

\* my_datetime_packed_to_binary: 23 bits for the day, 17 for the time.
DatetimeBytes(v, meta) ==
    LET ymd == (v[1] * 13 + v[2]) * 32 + v[3]
        hms == v[4] * 4096 + v[5] * 64 + v[6]
    IN HighBytes(TimefIntOfs + 2 * ymd + hms \div 65536, 3) \o HighBytes(hms % 65536, 2)
       \o HighBytes(v[7] \div FracUnit(meta), FracSize(meta))

\* my_time_packed_to_binary: a negative time is the complement of a positive one.
TimeBytes(v, meta) ==
    LET hms == v[2] * 4096 + v[3] * 64 + v[4]
        frac == v[5] \div FracUnit(meta)
        borrow == IF v[1] = 1 /\ frac # 0 THEN 1 ELSE 0
    IN HighBytes(TimefIntOfs + (IF v[1] = 1 THEN -hms - borrow ELSE hms), 3)
       \o HighBytes(IF borrow = 1 THEN Powers256[FracSize(meta) + 1] - frac ELSE frac, FracSize(meta))

\* The old types: a decimal number of two digits for each part, a TIME's with its sign.
OldTimeBytes(v) ==
    LET hms == (v[2] * 100 + v[3]) * 100 + v[4]
    IN LowBytes(IF v[1] = 1 THEN -hms ELSE hms, 3)

\* date * 1000000 + time, added up from the low bytes on; 1000000 = 15 * 65536 + 16960.
OldDatetimeBytes(v) ==
    LET date == (v[1] * 100 + v[2]) * 100 + v[3]
        time == (v[4] * 100 + v[5]) * 100 + v[6]
        low == (date % 65536) * 16960 + time
        middle == low \div 65536 + (date % 65536) * 15 + (date \div 65536) * 16960
        high == middle \div 65536 + (date \div 65536) * 15
    IN LowBytes(low, 2) \o LowBytes(middle, 2) \o LowBytes(high, 4)

\* Field::pack.
Encoded(column, v) ==
    LET type == RealType(column.type, column.meta)
    IN CASE type \in IntegerTypes -> LowBytes(v[1], IntegerSize(type))
         [] type = T.YEAR -> <<IF v[1] = 0 THEN 0 ELSE v[1] - 1900>>
         [] type = T.ENUM -> LowBytes(v[1], column.meta % 256)
         [] type \in {T.DATE, T.NEWDATE} -> LowBytes((v[1] * 16 + v[2]) * 32 + v[3], 3)
         [] type = T.TIME -> OldTimeBytes(v)
         [] type = T.DATETIME -> OldDatetimeBytes(v)
         [] type = T.TIMESTAMP -> LowBytes(v[1], 4)
         [] type = T.TIMESTAMP2 ->
                HighBytes(v[1], 4) \o HighBytes(v[2] \div FracUnit(column.meta), FracSize(column.meta))
         [] type = T.DATETIME2 -> DatetimeBytes(v, column.meta)
         [] type = T.TIME2 -> TimeBytes(v, column.meta)
         [] type = T.NEWDECIMAL -> DecimalBytes(column.meta \div 256, column.meta % 256, v)
         [] OTHER -> LowBytes(Len(v), LengthSize(column)) \o v

-----------------------------------------------------------------------------
(* The parser.  Each operator gives, for the bytes behind pos, by how much  *)
(* pos moves on and the text that is pushed.                               *)

Value(size, text) == [size |-> size, text |-> text]

Bytes(buf, pos, size) == Value(size, Slice(buf, pos, size))

Prefixed(buf, pos, size) ==
    LET length == Low(Slice(buf, pos, size))
    IN Value(size + length, Slice(buf, pos + size, length))

\* The high bits of a CHAR's length are hidden in its type byte, inverted.
StringLength(meta) ==
    LET high == (meta \div 4096) % 4     \* (byte_0 & 0x30) >> 4
    IN IF meta < 256 THEN meta ELSE (meta % 256) + 256 * (3 - high)

\* Mutant: a VARCHAR of 256 bytes is taken for a short one.
ShortUpTo256(length) == IF length <= 256 THEN 1 ELSE 2

\* The size of the length in front of a CHAR or VARCHAR.
PrefixSize(length) == IF length < 256 THEN 1 ELSE 2

Year(buf, pos) == Value(1, <<buf[pos + 1] + 1900>>)

\* A byte of an ENUM is a char.
Enum(buf, pos, size) ==
    Value(size, <<IF size = 1 THEN Signed(buf[pos + 1]) ELSE Low(Slice(buf, pos, size))>>)

Date(buf, pos) ==
    LET n == Low(Slice(buf, pos, 3))
    IN Value(3, <<n \div 512, (n \div 32) % 16, n % 32>>)

\* The last part of a number ddhhmm or yyyymmdd is not taken from its last two digits.
Parts(n) == <<n \div 10000, (n % 10000) \div 100, n \div 100>>

\* uint3korr: a negative TIME is a large one.
Time(buf, pos) == Value(3, <<0>> \o Parts(Low(Slice(buf, pos, 3))))

\* The long division of eight bytes, the first the highest, by 1000000.
Rests(bytes) ==
    LET rest[i \in 0..8] == IF i = 0 THEN 0 ELSE (rest[i - 1] * 256 + bytes[i]) % 1000000
    IN rest
Division(bytes) ==
    LET rest == Rests(bytes)
    IN [quotient |-> [i \in 1..8 |-> (rest[i - 1] * 256 + bytes[i]) \div 1000000], rest |-> rest[8]]

\* uint8korr(buf) / 1000000, of which 32 bits are kept, is the date, and % 1000000 the time.
Datetime(buf, pos) ==
    LET ll == Division(Reverse(Slice(buf, pos, 8)))
    IN Value(8, Parts(High(SubSeq(ll.quotient, 5, 8))) \o Parts(ll.rest))

\* parse_timestamp_from_binary moves on by four bytes for one byte of fraction.
Timestamp2(buf, pos, meta) ==
    LET frac == Slice(buf, pos + 4, FracSize(meta))
    IN Value(CASE meta \in {1, 2} -> 8 [] meta \in {3, 4} -> 6 [] meta \in {5, 6} -> 7 [] OTHER -> 4,
             <<High(Slice(buf, pos, 4)), IF frac = << >> THEN 0 ELSE SignedHigh(frac) * FracUnit(meta)>>)

\* parse_datetime_packed_from_binary and the shifts that take it apart; a DATETIME
\* is not negative.
Datetime2(buf, pos, meta) ==
    LET top == High(Slice(buf, pos, 3)) - TimefIntOfs
        ymd == top \div 2
        hms == (top % 2) * 65536 + High(Slice(buf, pos + 3, 2))
        frac == Slice(buf, pos + 5, FracSize(meta))
    IN Value(5 + FracSize(meta),
             <<(ymd \div 32) \div 13, (ymd \div 32) % 13, ymd % 32,
               hms \div 4096, (hms \div 64) % 64, hms % 64,
               IF frac = << >> THEN 0 ELSE SignedHigh(frac) * FracUnit(meta)>>)

\* A packed time, int * 2^24 + frac, as its upper bits and its lower 24 bits.
Packed(int, frac) == <<int + (frac \div 16777216), frac % 16777216>>

\* Mutant: a negative time without a fraction is shifted too.
TimePackedShifted(bytes, meta) ==
    LET int == High(SubSeq(bytes, 1, 3)) - TimefIntOfs
        frac == High(SubSeq(bytes, 4, Len(bytes)))
    IN CASE meta = 0 -> Packed(int, 0)
         [] meta \in 1..4 /\ int < 0 -> Packed(int + 1, (frac - 65536) * 100)
         [] meta \in 1..4 -> Packed(int, frac * 100)
         [] OTHER -> Packed(int, frac)

\* parse_time_packed_from_binary.  (uint) ptr[3] extends the sign of the char.
TimePacked(bytes, meta) ==
    LET int == High(SubSeq(bytes, 1, 3)) - TimefIntOfs
        frac == IF meta \in {1, 2} THEN Signed(bytes[4]) ELSE High(SubSeq(bytes, 4, Len(bytes)))
        base == Powers256[FracSize(meta) + 1]
    IN IF meta \in 1..4 /\ int < 0 /\ frac # 0
       THEN Packed(int + 1, (frac - base) * FracUnit(meta))
       ELSE Packed(int, frac * FracUnit(meta))

\* if (packed < 0) packed = -packed, and the sign is gone.
Time2(buf, pos, meta) ==
    LET packed == TimePacked(Slice(buf, pos, 3 + FracSize(meta)), meta)
        abs == IF packed[1] >= 0 THEN packed ELSE Packed(-packed[1], -packed[2])
        hms == abs[1]
    IN Value(CASE meta \in {3, 4} -> 5 [] meta \in {5, 6} -> 6 [] OTHER -> 3,
             <<0, (hms \div 4096) % 1024, (hms \div 64) % 64, hms % 64, abs[2]>>)

NewDecimal(buf, pos, precision, decimals) ==
    LET size == DecimalBinSize(precision, decimals)
    IN Value(size, DecimalText(Slice(buf, pos, size), precision, decimals))

\* RowEvent::ParseColumnValue, up to the missing break of NEWDECIMAL.
ParseColumnValue(buf, pos, col_type, meta) ==
    LET type == RealType(col_type, meta)
    IN CASE type \in IntegerTypes ->
                Value(IntegerSize(type), <<SignedLow(Slice(buf, pos, IntegerSize(type)))>>)
         [] type = T.TIMESTAMP -> Value(4, <<Low(Slice(buf, pos, 4))>>)
         [] type = T.FLOAT -> Bytes(buf, pos, 4)
         [] type = T.DOUBLE -> Bytes(buf, pos, 8)
         [] type = T.DATETIME -> Datetime(buf, pos)
         [] type = T.TIME -> Time(buf, pos)
         [] type \in {T.NEWDATE, T.DATE} -> Date(buf, pos)
         [] type = T.YEAR -> Year(buf, pos)
         [] type = T.ENUM -> Enum(buf, pos, meta % 256)
         [] type = T.SET -> Bytes(buf, pos, meta % 256)
         [] type = T.BLOB -> Prefixed(buf, pos, meta)
         [] type \in {T.VARCHAR, T.VAR_STRING} -> Prefixed(buf, pos, PrefixSize(meta))
         [] type = T.STRING -> Prefixed(buf, pos, PrefixSize(StringLength(meta)))
         [] type = T.BIT -> Bytes(buf, pos, (meta \div 256 + 8 * (meta % 256) + 7) \div 8)
         [] type = T.NEWDECIMAL -> NewDecimal(buf, pos, meta \div 256, meta % 256)
         [] type = T.TIMESTAMP2 -> Timestamp2(buf, pos, meta)
         [] type = T.DATETIME2 -> Datetime2(buf, pos, meta)
         [] type = T.TIME2 -> Time2(buf, pos, meta)

-----------------------------------------------------------------------------
(* What the text should be: the parts of the value, but for those that are  *)
(* known to be others.                                                     *)

\* The upper half of unsigned integers and of one-byte ENUMs is negative, and YEAR 0000
\* is 1900.  The seconds of the old TIME and DATETIME and the day of a DATETIME are
\* others; a negative TIME is another time, and a negative TIME(n) lacks its sign.
WrongParts(column, v) ==
    LET type == RealType(column.type, column.meta)
    IN CASE type \in IntegerTypes /\ Above(v[1], IntegerSize(type) - 1) > 127 -> {1}
         [] type = T.ENUM /\ column.meta % 256 = 1 /\ v[1] > 127 -> {1}
         [] type = T.YEAR /\ v[1] = 0 -> {1}
         [] type = T.TIME -> IF v[1] = 1 THEN 1..4 ELSE {4}
         [] type = T.DATETIME -> {3, 6}
         [] type = T.TIME2 /\ v[1] = 1 -> {1}
         [] OTHER -> {}

RightBut(text, v, wrong) ==
    Len(text) = Len(v) /\ \A p \in DOMAIN v \ wrong : text[p] = v[p]

IsRead(column, v, text) ==
    IF column.type = T.NEWDECIMAL THEN DecimalIsRead(column.meta \div 256, column.meta % 256, v, text)
    ELSE RightBut(text, v, WrongParts(column, v))
=============================================================================
