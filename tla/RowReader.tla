------------------------------ MODULE RowReader ------------------------------
(***************************************************************************)
(* How the parser finds its way through the bytes of a Table_map event and  *)
(* of a Rows event for its table: TablemapEvent::Parse and ReadMeta,        *)
(* RowEvent::Parse and ParseRow (event.cpp), UnpackLenencInt (util.cpp) and *)
(* MemBlock's bitmaps.  The columns themselves are in ColumnValues.         *)
(*                                                                         *)
(* Nothing in these bytes says where a column begins: the parser reads on   *)
(* from where the type and metadata of the column before said it ends, and  *)
(* one part that is read too short spoils everything after it.             *)
(*                                                                         *)
(* The events are written by the MySQL server (external).  Behind the       *)
(* event head, and without a CRC, they are the bytes modelled here.         *)
(***************************************************************************)
EXTENDS ColumnValues, FiniteSets

CONSTANTS Scenarios    \* what the server may log: records with fields
                       \*   columns   tuple of columns: records of type, meta and
                       \*             values, the last a set of tuples
                       \*   presents  the sets of columns images may contain
                       \*   cmds      the codes of Rows events
                       \*   rows      the numbers of rows of an event
                       \*   headLen   the length of post headers, 6 or more
                       \*   extra     the bytes of extra data (version 2)

VARIABLES columns, cmd, headLen, extra,  \* the table and the Rows event
          presents,    \* the columns that the first and second image of a row contain
          images,      \* the images: for each column its value, or Null
          tablemapBuf, \* the bytes of the Table_map event
          rowBuf,      \* the bytes of the Rows event
          stage,       \* "tablemap", "meta", "head", "rows", "columns" (in an
                       \* image), "aborted" or "lost"
          pos,         \* pos
          types,       \* column_type_def_
          metaDef,     \* column_meta_def_
          metaPos,     \* meta_pos
          metas,       \* metas_
          bitmaps,     \* present_bitmap_1_ and present_bitmap_2_
          nulls,       \* null_bitmap_
          presentPos,  \* present_pos
          isOld,       \* is_old
          line,        \* the LineData: its old and new columns
          lines        \* the finished ones

event == <<columns, cmd, headLen, extra, presents, images, tablemapBuf, rowBuf>>
tablemap == <<types, metaDef, metaPos, metas>>
image == <<nulls, presentPos, isOld>>
vars == <<event, stage, pos, tablemap, bitmaps, image, line, lines>>

Null == << -1, -1 >>       \* not a value
Empty == << >>

\* The codes of update events, and those of version 2.
Updates == {24, 31}
Version2 == {30, 31, 32}

-----------------------------------------------------------------------------
(* The server.                                                             *)

IsSeq(s) == s \in Seq(ToSet(s))

\* The types without metadata, and those in events: a BLOB's size, and that a CHAR is
\* an ENUM or a SET, are metadata.
PlainTypes == {T.TINY, T.SHORT, T.INT24, T.LONG, T.LONGLONG, T.YEAR, T.DATE, T.NEWDATE,
               T.TIME, T.TIMESTAMP, T.DATETIME}
ServerTypes == PlainTypes \cup {T.FLOAT, T.DOUBLE, T.VARCHAR, T.BIT, T.TIMESTAMP2, T.DATETIME2,
                                T.TIME2, T.NEWDECIMAL, T.BLOB, T.STRING, T.GEOMETRY}

\* The sizes that the length in front of a value can give; no packet is longer than 2^30 bytes.
Fits(column, v) == Len(v) < <<256, 65536, 16777216, 1073741824>>[LengthSize(column)]

\* What the columns of a type may be declared as.
Declared(column) ==
    LET high == column.meta \div 256
        low == column.meta % 256
    IN /\ column.type \in ServerTypes
       /\ column.meta \in Nat /\ column.meta < 65536
       /\ column.type \in PlainTypes => column.meta = 0
       /\ column.type \in {T.BLOB, T.GEOMETRY} => column.meta \in 1..4
       /\ column.type = T.FLOAT => column.meta = 4
       /\ column.type = T.DOUBLE => column.meta = 8
       /\ column.type \in {T.TIME2, T.DATETIME2, T.TIMESTAMP2} => column.meta \in 0..6
       /\ column.type = T.NEWDECIMAL => high \in 1..65 /\ low \in 0..30 /\ low <= high
       /\ column.type = T.STRING =>
              \/ high = T.ENUM /\ low \in 1..2
              \/ high = T.SET /\ low \in {1, 2, 3, 4, 8}
              \/ high \in {254, 238, 222, 206}
       /\ column.type = T.BIT => high \in 0..7 /\ low \in 0..8

\* The values of the types whose text is made of numbers.
IsMoment(second) == second \in Nat /\ second <= 2147483647
IsDate(year, month, day) ==
    /\ year \in Nat /\ year <= 9999
    /\ month \in Nat /\ month <= 12
    /\ day \in Nat /\ day <= 31
IsTime(hour, minute, second) ==
    /\ hour \in Nat /\ hour <= 838
    /\ minute \in Nat /\ minute <= 59
    /\ second \in Nat /\ second <= 59
Micros(meta) == {n \in 0..Powers10[7] - 1 : n % FracUnit(meta) = 0}
InRange(column, v) ==
    LET type == RealType(column.type, column.meta)
    IN /\ type \in IntegerTypes =>
              Len(v) = 1 /\ v[1] \in Int /\ Above(v[1], IntegerSize(type) - 1) \in -128..255
       /\ type = T.ENUM => Len(v) = 1 /\ v[1] \in Nat /\ Above(v[1], column.meta % 256) = 0
       /\ type = T.YEAR => Len(v) = 1 /\ v[1] \in {0} \cup 1901..2155
       /\ type \in {T.DATE, T.NEWDATE} => Len(v) = 3 /\ IsDate(v[1], v[2], v[3])
       /\ type = T.TIME => Len(v) = 4 /\ v[1] \in {0, 1} /\ IsTime(v[2], v[3], v[4])
       /\ type = T.DATETIME =>
              Len(v) = 6 /\ IsDate(v[1], v[2], v[3]) /\ IsTime(v[4], v[5], v[6]) /\ v[4] <= 23
       /\ type = T.TIMESTAMP => Len(v) = 1 /\ IsMoment(v[1])
       /\ type = T.TIMESTAMP2 => Len(v) = 2 /\ IsMoment(v[1]) /\ v[2] \in Micros(column.meta)
       /\ type = T.DATETIME2 =>
              /\ Len(v) = 7 /\ IsDate(v[1], v[2], v[3])
              /\ IsTime(v[4], v[5], v[6]) /\ v[4] <= 23 /\ v[7] \in Micros(column.meta)
       /\ type = T.TIME2 =>
              /\ Len(v) = 5 /\ v[1] \in {0, 1}
              /\ IsTime(v[2], v[3], v[4]) /\ v[5] \in Micros(column.meta)
       /\ type = T.NEWDECIMAL => v[1] \in {0, 1} /\ \A i \in 2..Len(v) : v[i] \in 0..9

\* The values that are written as they are have the size that their column gives them.
Storable(column, v) ==
    LET type == RealType(column.type, column.meta)
        high == column.meta \div 256
        low == column.meta % 256
    IN /\ IsSeq(v)
       /\ type = T.FLOAT => Len(v) = 4
       /\ type = T.DOUBLE => Len(v) = 8
       /\ type = T.SET => Len(v) = low
       /\ type = T.BIT => Len(v) = (high + 8 * low + 7) \div 8
       /\ type = T.NEWDECIMAL => Len(v) = 1 + high
       /\ type \in {T.BLOB, T.GEOMETRY, T.VARCHAR, T.STRING} => Fits(column, v)
       /\ InRange(column, v)

\* The tables and events of a MySQL 5.6 server.
ASSUME ScenariosAssumption ==
    \A s \in Scenarios :
        /\ IsSeq(s.columns) /\ Len(s.columns) <= 4096
        /\ \A i \in DOMAIN s.columns :
               LET column == s.columns[i]
               IN Declared(column) /\ \A v \in column.values \ {Null} : Storable(column, v)
        /\ s.presents \subseteq SUBSET DOMAIN s.columns
        /\ s.cmds \subseteq {23, 24, 25, 30, 31, 32}
        /\ s.rows \subseteq Nat
        /\ s.headLen \in Nat \ 0..5
        /\ IsSeq(s.extra) /\ Len(s.extra) < 65534

Bitmap(bits, size) ==
    LET Bit(p) == IF p \in bits THEN 1 ELSE 0
    IN [b \in 1..size |->
           Bit(8 * b - 8) + 2 * Bit(8 * b - 7) + 4 * Bit(8 * b - 6) + 8 * Bit(8 * b - 5)
           + 16 * Bit(8 * b - 4) + 32 * Bit(8 * b - 3) + 64 * Bit(8 * b - 2) + 128 * Bit(8 * b - 1)]

LenencInt(n) == IF n < 251 THEN <<n>> ELSE <<252, n % 256, n \div 256>>

\* The metadata of a column.  Those of VARCHAR start with the low byte.
MetaBytes(column) ==
    CASE column.type \in {T.BLOB, T.GEOMETRY, T.FLOAT, T.DOUBLE,
                          T.TIME2, T.DATETIME2, T.TIMESTAMP2} -> <<column.meta>>
      [] column.type \in {T.NEWDECIMAL, T.STRING, T.BIT} ->
            <<column.meta \div 256, column.meta % 256>>
      [] column.type = T.VARCHAR -> <<column.meta % 256, column.meta \div 256>>
      [] OTHER -> Empty

\* A table id and flags.
PostHead == [i \in 1..(IF headLen = 6 THEN 4 ELSE 6) |-> 7] \o <<1, 0>>

Name(bytes) == <<Len(bytes)>> \o bytes \o <<0>>

TablemapBytes ==
    LET meta == FlattenSeq([i \in DOMAIN columns |-> MetaBytes(columns[i])])
    IN PostHead \o Name(<<115, 99>>) \o Name(<<116>>)
       \o LenencInt(Len(columns)) \o [i \in DOMAIN columns |-> columns[i].type]
       \o LenencInt(Len(meta)) \o meta
       \o Bitmap(0..Len(columns) - 1, (Len(columns) + 7) \div 8)

\* The images of a row, and the columns that image k contains.
PerRow == IF cmd \in Updates THEN 2 ELSE 1
PresentIn(k) == presents[1 + ((k - 1) % PerRow)]

IsNull(k, i) == i \in PresentIn(k) /\ images[k][i] = Null
NullBytes(k) ==
    LET Before(i) == Cardinality({j \in PresentIn(k) : j < i})
    IN Bitmap({Before(i) : i \in {j \in PresentIn(k) : IsNull(k, j)}},
              (Cardinality(PresentIn(k)) + 7) \div 8)

Field(k, i) ==
    IF i \notin PresentIn(k) \/ IsNull(k, i) THEN Empty ELSE Encoded(columns[i], images[k][i])

ImageBytes(k) == NullBytes(k) \o FlattenSeq([i \in DOMAIN columns |-> Field(k, i)])

RowHeadBytes ==
    PostHead
    \o (IF cmd \in Version2 THEN LowBytes(2 + Len(extra), 2) \o extra ELSE Empty)
    \o LenencInt(Len(columns))
    \o FlattenSeq([w \in 1..PerRow |->
           Bitmap({i - 1 : i \in presents[w]}, (Len(columns) + 7) \div 8)])

RowBytes == RowHeadBytes \o FlattenSeq([k \in DOMAIN images |-> ImageBytes(k)])

-----------------------------------------------------------------------------
(* The table map.                                                          *)

\* UnpackLenencInt, for the numbers that a server writes.
UnpackLenencInt(buf, from) ==
    LET type == buf[from + 1]
        Lenenc(size) == [size |-> 1 + size, number |-> Low(Slice(buf, from + 1, size))]
    IN CASE type < 251 -> [size |-> 1, number |-> type]
         [] type = 252 -> Lenenc(2)
         [] type = 253 -> Lenenc(3)
         [] type = 254 -> Lenenc(8)

\* The size of table id and flags.
PostHeadSize == (IF headLen = 6 THEN 4 ELSE 6) + 2

\* TablemapEvent::Parse, up to the metadata.
ParseTablemap ==
    /\ stage = "tablemap"
    /\ LET PastName(from) == from + 1 + tablemapBuf[from + 1] + 1
           count == UnpackLenencInt(tablemapBuf, PastName(PastName(PostHeadSize)))
           typesAt == PastName(PastName(PostHeadSize)) + count.size
           metaLen == UnpackLenencInt(tablemapBuf, typesAt + count.number)
       IN /\ types' = Slice(tablemapBuf, typesAt, count.number)
          /\ metaDef' = Slice(tablemapBuf, typesAt + count.number + metaLen.size, metaLen.number)
    /\ stage' = "meta"
    /\ UNCHANGED <<event, pos, metaPos, metas, bitmaps, image, line, lines>>

\* The types by the number of their metadata bytes.
OneByteMeta == {T.TINY_BLOB, T.BLOB, T.MEDIUM_BLOB, T.LONG_BLOB, T.DOUBLE, T.FLOAT,
                T.GEOMETRY, T.TIME2, T.DATETIME2, T.TIMESTAMP2}
TwoByteMeta == {T.NEWDECIMAL, T.VAR_STRING, T.STRING, T.SET, T.ENUM, T.VARCHAR, T.BIT}
MetaSize(type) == IF type \in OneByteMeta THEN 1 ELSE IF type \in TwoByteMeta THEN 2 ELSE 0

\* Mutant: the metadata of VARCHAR are read like those of the other types.
MetaHighFirst(type, bytes) == High(bytes)

\* The metadata word of a type.
Meta(type, bytes) == IF type = T.VARCHAR THEN Low(bytes) ELSE High(bytes)

\* TablemapEvent::ReadMeta, for the next column.
ReadMeta ==
    /\ stage = "meta"
    /\ Len(metas) < Len(types)
    /\ LET type == types[Len(metas) + 1]
       IN /\ metas' = Append(metas, Meta(type, Slice(metaDef, metaPos, MetaSize(type))))
          /\ metaPos' = metaPos + MetaSize(type)
    /\ UNCHANGED <<event, stage, pos, types, metaDef, bitmaps, image, line, lines>>

\* The Rows event is next.
EndTablemap ==
    /\ stage = "meta"
    /\ Len(metas) = Len(types)
    /\ stage' = "head"
    /\ UNCHANGED <<event, pos, tablemap, bitmaps, image, line, lines>>

-----------------------------------------------------------------------------
(* The rows.                                                               *)

\* MemBlock::GetBit and GetBitsetCount.
Powers2 == <<1, 2, 4, 8, 16, 32, 64, 128>>
GetBit(bytes, n) == (bytes[(n \div 8) + 1] \div Powers2[(n % 8) + 1]) % 2 = 1
GetBitsetCount(bytes, n) == Cardinality({i \in 0..n - 1 : GetBit(bytes, i)})

\* RowEvent::Parse, up to its loop.  The column count is the table map's.
ParseRowHead ==
    /\ stage = "head"
    /\ LET extraAt == PostHeadSize
           countAt == IF cmd \in Version2 THEN extraAt + Low(Slice(rowBuf, extraAt, 2)) ELSE extraAt
           count == UnpackLenencInt(rowBuf, countAt)
           size == (count.number + 7) \div 8
           bitmapAt(w) == countAt + count.size + (w - 1) * size
       IN /\ bitmaps' = [w \in 1..PerRow |-> Slice(rowBuf, bitmapAt(w), size)]
          /\ pos' = bitmapAt(PerRow + 1)
    /\ stage' = "rows"
    /\ UNCHANGED <<event, tablemap, image, line, lines>>

\* ParseRow's start: the null bitmap of an image.
BeginImage(old) ==
    LET present == bitmaps[IF cmd \in Updates /\ ~old THEN 2 ELSE 1]
        size == (GetBitsetCount(present, Len(columns)) + 7) \div 8
    IN /\ nulls' = Slice(rowBuf, pos, size)
       /\ pos' = pos + size
       /\ presentPos' = 0
       /\ isOld' = old
       /\ stage' = "columns"

\* Mutant: all rows of an event are put into one LineData.
BeginRowReusing ==
    /\ stage = "rows"
    /\ pos < Len(rowBuf)
    /\ BeginImage(cmd \in Updates)
    /\ UNCHANGED <<event, tablemap, bitmaps, line, lines>>

\* while (buf_len > pos).
BeginRow ==
    /\ stage = "rows"
    /\ pos < Len(rowBuf)
    /\ line' = [old |-> Empty, new |-> Empty]
    /\ BeginImage(cmd \in Updates)
    /\ UNCHANGED <<event, tablemap, bitmaps, lines>>

\* The columns pushed so far, and the next one.
Pushed == IF isOld THEN line.old ELSE line.new
Column == Len(Pushed) + 1
PushBack(text) ==
    line' = IF isOld THEN [line EXCEPT !.old = Append(@, text)]
                     ELSE [line EXCEPT !.new = Append(@, text)]

InImage ==
    /\ stage = "columns"
    /\ Column <= Len(columns)
    /\ UNCHANGED <<event, tablemap, bitmaps, nulls, isOld>>

Present == GetBit(bitmaps[IF cmd \in Updates /\ ~isOld THEN 2 ELSE 1], Column - 1)

\* A column that the image does not contain.
PushAbsent ==
    /\ InImage
    /\ ~Present
    /\ PushBack(Empty)
    /\ UNCHANGED <<stage, pos, presentPos, lines>>

PushNull ==
    /\ InImage
    /\ Present
    /\ GetBit(nulls, presentPos)
    /\ PushBack(Empty)
    /\ presentPos' = presentPos + 1
    /\ UNCHANGED <<stage, pos, lines>>

HasValue == InImage /\ Present /\ ~GetBit(nulls, presentPos)

\* The type of a MySQL 5.6 server that ParseColumnValue returns -1 for, and the one that it falls
\* through with to an assertion that fails.
Unknown == {T.GEOMETRY}
Aborting == {T.NEWDECIMAL}

\* The columns that the parser leaves at the right place.
Readable(column) ==
    /\ column.type \notin Unknown \cup Aborting
    /\ column.type \in {T.TIME2, T.TIMESTAMP2} => column.meta \notin {1, 2}

PushColumn ==
    LET value == ParseColumnValue(rowBuf, pos, types[Column], metas[Column])
    IN pos' = pos + value.size /\ PushBack(value.text)

\* From a column that it left at the wrong place the parser reads on, through
\* bytes that mean something else; the model does not follow it.
PushValue ==
    /\ HasValue
    /\ types[Column] \notin Unknown \cup Aborting
    /\ PushColumn
    /\ presentPos' = presentPos + 1
    /\ stage' = IF Readable(columns[Column]) THEN "columns" ELSE "lost"
    /\ UNCHANGED lines

\* ParseRow returns -1, which nobody looks at: the image ends here, without its
\* last columns, and the next one is read from the middle of it.
StopImage ==
    /\ HasValue
    /\ types[Column] \in Unknown
    /\ stage' = "lost"
    /\ UNCHANGED <<pos, presentPos, line, lines>>

\* A DECIMAL is pushed, and falls through to assert(dec <= DATETIME_MAX_DECIMALS)
\* in parse_timestamp_from_binary.
Abort ==
    /\ HasValue
    /\ types[Column] \in Aborting
    /\ PushColumn
    /\ stage' = "aborted"
    /\ UNCHANGED <<presentPos, lines>>

\* Mutant: the second image is read by the first one's null bitmap.
EndOldKeepingNulls ==
    /\ stage = "columns"
    /\ Column > Len(columns)
    /\ isOld
    /\ presentPos' = 0
    /\ isOld' = FALSE
    /\ UNCHANGED <<event, stage, pos, tablemap, bitmaps, nulls, line, lines>>

\* The second ParseRow of an update.
EndOld ==
    /\ stage = "columns"
    /\ Column > Len(columns)
    /\ isOld
    /\ BeginImage(FALSE)
    /\ UNCHANGED <<event, tablemap, bitmaps, line, lines>>

EndRow ==
    /\ stage = "columns"
    /\ Column > Len(columns)
    /\ ~isOld
    /\ lines' = Append(lines, line)
    /\ stage' = "rows"
    /\ UNCHANGED <<event, pos, tablemap, bitmaps, image, line>>

-----------------------------------------------------------------------------
\* The sequences whose element i is one of sets[i].
Product(sets) ==
    LET product[i \in 0..Len(sets)] ==
            IF i = 0 THEN {<< >>}
            ELSE {Append(seq, element) : seq \in product[i - 1], element \in sets[i]}
    IN product[Len(sets)]

ImagesOf(present) ==
    Product([i \in DOMAIN columns |-> IF i \in present THEN columns[i].values ELSE {Null}])

Init ==
    /\ \E s \in Scenarios : \E n \in s.rows :
        /\ columns = s.columns
        /\ cmd \in s.cmds
        /\ headLen = s.headLen
        /\ extra = s.extra
        /\ presents \in [1..PerRow -> s.presents]
        /\ images \in Product([k \in 1..n * PerRow |-> ImagesOf(PresentIn(k))])
    /\ tablemapBuf = TablemapBytes
    /\ rowBuf = RowBytes
    /\ stage = "tablemap"
    /\ pos = 0
    /\ types = Empty /\ metaDef = Empty /\ metaPos = 0 /\ metas = Empty
    /\ bitmaps = Empty
    /\ nulls = Empty /\ presentPos = 0 /\ isOld = FALSE
    /\ line = [old |-> Empty, new |-> Empty]
    /\ lines = Empty

Next ==
    \/ ParseTablemap \/ ReadMeta \/ EndTablemap
    \/ ParseRowHead \/ BeginRow \/ EndOld \/ EndRow
    \/ PushAbsent \/ PushNull \/ PushValue
    \/ StopImage \/ Abort

Spec == Init /\ [][Next]_vars

-----------------------------------------------------------------------------
(* Properties.                                                             *)

IsByte(n) == n \in Nat /\ n < 256
IsWord(n) == n \in Nat /\ n < 65536

TypeOK ==
    /\ stage \in {"tablemap", "meta", "head", "rows", "columns", "aborted", "lost"}
    /\ pos \in 0..Len(rowBuf) \/ stage = "lost"
    /\ Len(types) \in {0, Len(columns)} /\ \A i \in DOMAIN types : IsByte(types[i])
    /\ metaPos \in 0..Len(metaDef)
    /\ Len(metas) <= Len(types) /\ \A i \in DOMAIN metas : IsWord(metas[i])
    /\ Len(bitmaps) \in {0, PerRow}
    /\ \A i \in DOMAIN nulls : IsByte(nulls[i])
    /\ presentPos \in 0..Len(columns)
    /\ isOld \in BOOLEAN
    /\ Len(line.old) <= Len(columns) /\ Len(line.new) <= Len(columns)
    /\ stage # "lost" => Len(lines) * PerRow <= Len(images)

\* Each column gets the type and the metadata word that the server wrote for it,
\* whatever the types of the columns before it and however many there are.
MetasMatch ==
    stage # "tablemap" =>
        /\ types = [i \in DOMAIN columns |-> columns[i].type]
        /\ \A i \in DOMAIN metas : metas[i] = IF MetaBytes(columns[i]) = Empty THEN 0 ELSE columns[i].meta

\* The image that is being read, or that of the row to come.
Image == Len(lines) * PerRow + (IF stage # "rows" /\ cmd \in Updates /\ ~isOld THEN 2 ELSE 1)

\* Where image k begins, and its column i.
ImageStart(k) == Len(RowHeadBytes) + Len(FlattenSeq([q \in 1..k - 1 |-> ImageBytes(q)]))
ColumnStart(k, i) ==
    ImageStart(k) + Len(NullBytes(k)) + Len(FlattenSeq([j \in 1..i - 1 |-> Field(k, j)]))

\* All columns before column i of image k, in the order of the bytes, are readable.
ReadableBefore(k, i) ==
    \A q \in 1..k, j \in DOMAIN columns :
        (q < k \/ j < i) /\ Field(q, j) # Empty => Readable(columns[j])

\* The parser reads each column at the place where the server wrote it, and
\* stops behind the last row, for every mix of types, nulls and columns that
\* the first or the second image of a row leaves out.
RowAligned ==
    /\ stage = "columns" => Image \in DOMAIN images /\ pos = ColumnStart(Image, Column)
    /\ stage = "rows" => pos = IF Image \in DOMAIN images THEN ImageStart(Image) ELSE Len(rowBuf)

\* A text is the one a column should have; the empty one stands for NULL, and for
\* a column that the image leaves out.
IsText(k, i, text) ==
    IF i \notin PresentIn(k) \/ IsNull(k, i) THEN text = Empty
    ELSE IsRead(columns[i], images[k][i], text)

IsImage(k, texts) ==
    Len(texts) = Len(columns) /\ \A i \in DOMAIN columns : IsText(k, i, texts[i])

\* A finished line has a text for every column of every image of its row, and
\* each is the one of its own column: nulls and columns that an image leaves out
\* shift nothing, and an update's two images do not mix.  The parts that WrongParts
\* names are those the code gets wrong.
TextsMatch ==
    \A r \in DOMAIN lines :
        IF cmd \in Updates
        THEN IsImage(2 * r - 1, lines[r].old) /\ IsImage(2 * r, lines[r].new)
        ELSE lines[r].old = Empty /\ IsImage(r, lines[r].new)

\* DECIMALs of every precision are decoded and passed over right: were it not for
\* the missing break, the words of the text and the column behind it would be the
\* right ones, and so would the whole text where no point is missing or too many: with
\* at most one word and no fraction, or one word on each side of the point.
DecimalsRead ==
    stage = "aborted" =>
        LET i == Len(Pushed)
        IN /\ pos = ColumnStart(Image, i + 1)
           /\ IsText(Image, i, Last(Pushed))

(* What util.cpp says of packed times, and the code does not do.           *)

\* "Disk value 7FFFFF.FF, intpart -1, frac 255, time value -00:00:00.01": a
\* TIME(2) column has the value in the comment's table, but for its sign.
TimeAsCommented ==
    \A i \in DOMAIN line.new :
        i \in PresentIn(1) /\ lines = Empty /\ columns[i].type = T.TIME2 /\ ReadableBefore(1, i)
            => IsText(1, i, line.new[i])
=============================================================================
