------------------------- MODULE RowMirrorRedisProofs -------------------------
(***************************************************************************)
(* Proofs about what Redis gets of the rows, for any tables, definitions,   *)
(* rows and bounds, and any configuration with the properties that each     *)
(* theorem assumes by name (NamesApart, ColumnsExist, KeysApart and          *)
(* NothingFails: the program checks none of them).                          *)
(*                                                                         *)
(* For LiveRowsMirrored the invariant is AgreementInv: the last image logged *)
(* for a key is what its table has (RowsInv); the last image that was        *)
(* parsed, Redis has or the queue will give it (OwedInv); and as an event   *)
(* has one image for a key (OneImageInv), "last" means one image.  When the *)
(* queue is empty and all is parsed, the two last images are the same.      *)
(***************************************************************************)
EXTENDS RowMirrorProofs

-----------------------------------------------------------------------------
(* What Redis holds.                                                       *)

\* A table with a filter and an import is one the configuration names, if no two
\* names run together.
LEMMA Configured ==
    ASSUME NamesApart, NEW t \in Tables, Name(t) \in DOMAIN Filters, Name(t) \in DOMAIN Imports
    PROVE  t \in Mirrored
<1>1. PICK item \in ToSet(FilterItems) : DbTable(item.db, item.table) = Name(t)
    BY FilterItem
<1>2. item.db = t.db /\ item.table = t.name
    BY <1>1 DEF NamesApart
<1>3. \E import \in ToSet(ImportItems) : import.db_table = Name(t)
    BY ImportItem
<1> QED
    BY <1>1, <1>2, <1>3 DEF Mirrored

\* A line sent sets entries of a logged image.
LEMMA SentKeepsRedis ==
    ASSUME NamesApart, LinesInv, RedisHoldsLoggedValues, SendData
    PROVE  RedisHoldsLoggedValues'
<1>1. \A u : Logged(u)' = Logged(u)
    BY SameLog DEF SendData
<1>2. CASE redis' = redis
    BY <1>1, <1>2 DEF RedisHoldsLoggedValues
<1>3. ASSUME NEW t \in Tables, NEW image \in Logged(t),
             LineOf(lines[1], t, image), Name(t) \in DOMAIN Imports,
             DOMAIN redis' = DOMAIN redis \cup Entries(t, image),
             \A x \in DOMAIN redis' :
                 redis'[x] = IF x \in Entries(t, image) THEN FieldText(t, image, x[2]) ELSE redis[x]
      PROVE  RedisHoldsLoggedValues'
    <2>1. t \in Mirrored
        BY <1>3, Configured DEF LineOf
    <2>2. ASSUME NEW x \in DOMAIN redis'
          PROVE  \E u \in Mirrored : \E written \in Logged(u) :
                     x = Entry(u, written, x[2]) /\ redis'[x] = FieldText(u, written, x[2])
        <3>1. CASE x \in Entries(t, image)
            <4>1. PICK f : x = Entry(t, image, f)
                BY <3>1 DEF Entries
            <4>2. x[2] = f
                BY <4>1 DEF Entry
            <4>3. x = Entry(t, image, x[2]) /\ redis'[x] = FieldText(t, image, x[2])
                BY <1>3, <3>1, <4>1, <4>2
            <4> QED
                BY <2>1, <4>3
        <3>2. CASE x \notin Entries(t, image)
            BY <1>3, <3>2 DEF RedisHoldsLoggedValues
        <3> QED
            BY <3>1, <3>2
    <2> QED
        BY <1>1, <2>2 DEF RedisHoldsLoggedValues
<1> QED
    BY <1>2, <1>3, Sent

\* Other steps leave it alone, and the log has more and more.
LEMMA NextRedis ==
    ASSUME NamesApart, ContentIInv, RedisHoldsLoggedValues, [Next]_vars
    PROVE  RedisHoldsLoggedValues'
<1>1. IdsInv /\ LogInv /\ LinesInv /\ TablesOK
    BY DEF ContentIInv, MirrorInv, ContentInv
<1>2. ASSUME redis' = redis, \A u : Logged(u) \subseteq Logged(u)'
      PROVE  RedisHoldsLoggedValues'
    BY <1>2 DEF RedisHoldsLoggedValues
<1>3. ASSUME NEW t \in Tables, NEW kind, NEW images, Effect(t, kind, images),
             UNCHANGED <<types, ids, nextId, parser, sink, resumes, status>>
      PROVE  redis' = redis /\ \A u : Logged(u) \subseteq Logged(u)'
    <2>1. LogRows(t, kind, images) /\ UNCHANGED <<ids, types>>
        BY <1>3 DEF Effect
    <2>2. PICK n, N : n = Len(log) /\ N = Len(log')
        OBVIOUS
    <2>3. \A u : Logged(u) \subseteq Logged(u)'
        BY <1>1, <2>1, <2>2, StatementWrites
    <2> QED
        BY <1>3, <2>3 DEF sink
<1>4. ASSUME Restart PROVE redis' = redis /\ \A u : Logged(u) \subseteq Logged(u)'
    <2>1. PICK n, N : n = Len(log) /\ N = Len(log')
        OBVIOUS
    <2>2. \A u : Logged(u) \subseteq Logged(u)'
        BY <1>1, <1>4, <2>1, RestartWrites
    <2> QED
        BY <1>4, <2>2 DEF Restart, sink
<1>5. ASSUME NEW t \in Tables, Alter(t) PROVE UNCHANGED <<log, redis>>
    BY <1>5 DEF Alter, sink
<1>6. ASSUME ReqBinlog \/ ParseFormatEvent \/ ParseTablemapEvent \/ ParseRowEvent \/ UNCHANGED vars
      PROVE  UNCHANGED <<log, redis>>
    BY <1>6 DEF ReqBinlog, ParseFormatEvent, ParseTablemapEvent, ParseRowEvent, vars, sink
<1>7. ASSUME UNCHANGED log PROVE \A u : Logged(u) \subseteq Logged(u)'
    BY <1>7, SameLog
<1>8. ASSUME SendData PROVE RedisHoldsLoggedValues'
    BY <1>1, <1>8, SentKeepsRedis
<1> QED
    BY <1>1, <1>2, <1>3, <1>4, <1>5, <1>6, <1>7, <1>8, Steps

\* If no two names run together, Redis holds nothing but what a row of a mirrored
\* table had, under the key of that row: no value of another row, column or table,
\* through changed definitions, restarts and dumps requested again.
THEOREM MirrorRedisHoldsLoggedValues ==
    ASSUME NamesApart
    PROVE  Spec => []RedisHoldsLoggedValues
<1>1. Init => RedisHoldsLoggedValues
    <2>1. Init => redis = << >>
        BY DEF Init
    <2> QED
        BY <2>1 DEF RedisHoldsLoggedValues
<1>2. ContentIInv /\ RedisHoldsLoggedValues /\ [Next]_vars => RedisHoldsLoggedValues'
    BY NextRedis
<1>3. Init => ContentIInv
    BY InitContent
<1>4. ContentIInv /\ [Next]_vars => ContentIInv'
    BY NextContent
<1> QED
    BY <1>1, <1>2, <1>3, <1>4, PTL DEF Spec
-----------------------------------------------------------------------------
(* No assertion fails.                                                     *)

\* The configuration of a mirrored table is in both maps.
LEMMA MirroredConfigs ==
    ASSUME NEW t \in Mirrored
    PROVE  t \in Tables /\ Name(t) \in DOMAIN Filters /\ Name(t) \in DOMAIN Imports
<1>1. /\ t \in Tables
      /\ \E item \in ToSet(FilterItems) : item.db = t.db /\ item.table = t.name
      /\ \E item \in ToSet(ImportItems) : item.db_table = Name(t)
    BY DEF Mirrored
<1>2. Name(t) \in DOMAIN Filters
    <2>1. PICK i \in DOMAIN FilterItems : FilterItems[i].db = t.db /\ FilterItems[i].table = t.name
        BY <1>1 DEF ToSet
    <2>2. DbTable(FilterItems[i].db, FilterItems[i].table) = Name(t)
        BY <2>1 DEF Name
    <2> QED
        BY <2>2 DEF Filters, Assigned
<1>3. Name(t) \in DOMAIN Imports
    <2>1. PICK i \in DOMAIN ImportItems : ImportItems[i].db_table = Name(t)
        BY <1>1 DEF ToSet
    <2> QED
        BY <2>1 DEF Imports, Assigned
<1> QED
    BY <1>1, <1>2, <1>3

\* A mirrored table keeps a column, and only such as all definitions have.
LEMMA KeptLast ==
    ASSUME ColumnsExist, NEW t \in Mirrored, NEW line, line.db_table = Name(t)
    PROVE  /\ Kept(line) # << >>
           /\ \A i \in DOMAIN Kept(line) : Kept(line)[i] \in Lasting
           /\ \A name \in Imports[Name(t)].values \cup {Imports[Name(t)].key} :
                  \E c \in DOMAIN Filters[Name(t)] : Filters[Name(t)][c] = name
<1> DEFINE columns == DOMAIN Filters[Name(t)]
           kept == Kept(line)
           n == Cardinality(columns)
<1>1. /\ columns \subseteq Lasting
      /\ \A name \in Imports[Name(t)].values \cup {Imports[Name(t)].key} :
             \E c \in columns : Filters[Name(t)][c] = name
    BY DEF ColumnsExist
<1>2. PICK c \in columns : Filters[Name(t)][c] = Imports[Name(t)].key
    BY <1>1
<1>3. kept \in [1..n -> columns] /\ \E i \in 1..n : kept[i] = c
    <2>1. line.db_table \in DOMAIN Filters /\ columns = DOMAIN Filters[line.db_table]
        BY MirroredConfigs
    <2> HIDE DEF columns, kept, n
    <2>2. kept = Kept(line) /\ n = Cardinality(columns)
        BY DEF kept, n
    <2>3. kept \in [1..n -> columns]
        BY <2>1, <2>2, KeptLists
    <2>4. \A x \in columns : \E i \in 1..n : kept[i] = x
        BY <2>1, <2>2, KeptLists
    <2> QED
        BY <2>3, <2>4
<1> HIDE DEF kept, columns, n
<1>4. kept # << >>
    <2>1. PICK i \in 1..n : kept[i] = c
        BY <1>3
    <2>2. i \in DOMAIN kept
        BY <1>3
    <2>3. DOMAIN << >> = {}
        OBVIOUS
    <2> QED
        BY <2>2, <2>3
<1>5. \A i \in DOMAIN kept : kept[i] \in Lasting
    BY <1>1, <1>3
<1> QED
    BY <1>1, <1>4, <1>5 DEF kept, columns

\* A line of a mirrored table's image can be sent.
LEMMA ImageSendable ==
    ASSUME ColumnsExist, NEW t \in Mirrored, NEW image, NEW line, LineOf(line, t, image)
    PROVE  Sendable(line)
<1> DEFINE d == Name(t)
           kept == Kept(line)
<1>1. line.action # "delete" /\ line.db_table = d /\ d \in DOMAIN Filters
      /\ line.names = NamesOf(d, kept)
    BY DEF LineOf, NamesOf
<1>2. ASSUME NEW name \in Imports[d].values \cup {Imports[d].key} PROVE Named(line, name)
    <2>1. \E c \in DOMAIN Filters[d] : Filters[d][c] = name
        BY <1>1, KeptLast
    <2>2. name \in ToSet(NamesOf(d, kept))
        BY <2>1, <1>1, KeptFirst
    <2> QED
        BY <2>2, <1>1 DEF Named
<1> QED
    BY <1>1, <1>2, MirroredConfigs DEF Sendable

\* The rows of a mirrored table pass, and have the columns that are kept.
LEMMA MirroredFits ==
    ASSUME MirrorInv, ImagesInv, ColumnsExist, cursor < Len(log), Event.type = "rows",
           Event.table \in Mirrored, Event.kind # "delete",
           NEW image \in ToSet(Event.images),
           NEW line, line = Line(maps[Event.id], image)
    PROVE  FilterData(line) /\ Reservable(line)
<1> DEFINE t == Event.table
           map == maps[Event.id]
           w == Len(Event.types)
           kept == Kept(line)
<1>1. map.table = t /\ Event.types \in Schemas
    BY EventMap
<1>2. /\ line.action = Event.kind /\ line.db_table = Name(t)
      /\ line.old = IF Event.kind = "update" THEN ParseRow(map, image.old) ELSE << >>
      /\ line.new = ParseRow(map, image.new)
    BY <1>1 DEF Line, Name
<1>3. w \in Nat
    BY <1>1, RowMirrorAssumption, LenProperties
<1>4. /\ Event.kind \in {"insert", "update"} /\ IsImage(image.new, w)
      /\ Event.kind = "update" => IsImage(image.old, w)
    BY EventImages
<1>5. ASSUME NEW row, IsImage(row, w)
      PROVE  DOMAIN ParseRow(map, row) = 1..w /\ Len(ParseRow(map, row)) = w
    <2>1. ParseRow(map, row) = [i \in 1..w |-> Text(row[i])]
        BY <1>5, RowIsRead DEF IsImage
    <2> DEFINE parsed == ParseRow(map, row)
    <2>2. parsed = [i \in 1..w |-> parsed[i]]
        BY <2>1
    <2> HIDE DEF parsed, w
    <2>3. DOMAIN parsed = 1..w /\ Len(parsed) = w
        BY <2>2, <1>3, SeqOfFunction
    <2> QED
        BY <2>3 DEF parsed
<1>6. DOMAIN line.new = 1..w /\ Len(line.new) = w
    BY <1>2, <1>4, <1>5
<1>7. \/ Event.kind = "update" /\ DOMAIN line.old = 1..w /\ Len(line.old) = w
      \/ Event.kind = "insert" /\ Len(line.old) = 0
    <2>1. CASE Event.kind = "update"
        BY <2>1, <1>2, <1>4, <1>5
    <2>2. CASE Event.kind = "insert"
        BY <2>2, <1>2
    <2> QED
        BY <2>1, <2>2, <1>4
<1>8. ASSUME NEW i \in DOMAIN kept PROVE kept[i] \in 1..w
    <2>1. kept[i] \in Lasting
        BY <1>2, KeptLast
    <2>2. kept[i] \in 1..Len(InitialSchema) /\ kept[i] <= w
        BY <2>1, <1>1 DEF Lasting
    <2>3. Len(InitialSchema) \in Nat
        BY RowMirrorAssumption, LenProperties
    <2> HIDE DEF kept, w
    <2> QED
        BY <2>2, <2>3, <1>3
<1> HIDE DEF kept, w
<1>9. ASSUME NEW i \in DOMAIN kept
      PROVE  /\ IndexFits(kept[i], line)
             /\ Event.kind = "update" => kept[i] \in DOMAIN line.old
             /\ kept[i] \in DOMAIN line.new
    BY <1>3, <1>6, <1>7, <1>8 DEF IndexFits
<1>10. Reservable(line)
    <2>1. line["old"] = line.old /\ line["new"] = line.new
        OBVIOUS
    <2> QED
        BY <2>1, <1>2, <1>4, <1>9 DEF Reservable, kept
<1>11. FilterData(line)
    BY <1>2, MirroredConfigs DEF FilterData
<1> QED
    BY <1>10, <1>11
\* Every line in the queue can be sent.
SendableInv == \A i \in DOMAIN lines : Sendable(lines[i])

\* Where nothing can fail, only rows of mirrored tables pass.
LEMMA PassingRow ==
    ASSUME NamesApart, NothingFails, MirrorInv, cursor < Len(log), Event.type = "rows",
           NEW image, FilterData(Line(maps[Event.id], image))
    PROVE  Event.table \in Mirrored /\ Event.kind # "delete"
<1> DEFINE t == Event.table
<1>1. maps[Event.id].table = t /\ t \in Tables
    BY EventMap
<1>2. (IF Event.kind = "delete" THEN DbTable(t.db, t.db) ELSE Name(t)) \in DOMAIN Filters
    BY <1>1 DEF FilterData, Line, Name
<1>3. Event.kind # "delete" /\ Name(t) \in DOMAIN Filters /\ Name(t) \in DOMAIN Imports
    BY <1>1, <1>2 DEF NothingFails
<1> QED
    BY <1>1, <1>3, Configured

\* No column of a parsed row is a DECIMAL.
LEMMA Parsable ==
    ASSUME NothingFails, MirrorInv, ImagesInv, cursor < Len(log), Event.type = "rows",
           NEW image \in ToSet(Event.images), NEW map, map = maps[Event.id]
    PROVE  ~Unparsable(map, image.old) /\ ~Unparsable(map, image.new)
<1>1. map.types \in Schemas /\ map.types = Event.types
    BY EventMap
<1>2. DOMAIN map.types = 1..Len(map.types) /\ Len(map.types) \in Nat
    BY <1>1, RowMirrorAssumption, LenProperties
<1>3. \A i \in 1..Len(map.types) : map.types[i] # "decimal"
    BY <1>1, <1>2 DEF NothingFails, ToSet
<1>4. ASSUME NEW row, row = << >> \/ IsImage(row, Len(Event.types)) PROVE ~Unparsable(map, row)
    <2>1. DOMAIN row \subseteq 1..Len(map.types)
        <3>1. CASE row = << >>
            BY <3>1
        <3>2. CASE IsImage(row, Len(Event.types))
            BY <3>2, <1>1 DEF IsImage
        <3> QED
            BY <3>1, <3>2, <1>4
    <2> QED
        BY <2>1, <1>3 DEF Unparsable
<1>5. /\ image.old = << >> \/ IsImage(image.old, Len(Event.types))
      /\ image.new = << >> \/ IsImage(image.new, Len(Event.types))
    BY EventImages
<1> QED
    BY <1>4, <1>5

\* So parsing fails in no assertion, and sending will not.
LEMMA ParsedFailsNot ==
    ASSUME NamesApart, ColumnsExist, NothingFails, ContentIInv, SendableInv, ParseRowEvent
    PROVE  status' = status /\ SendableInv'
<1> DEFINE map == maps[Event.id]
           images == Event.images
           m == Len(images)
           n == Len(lines)
           all == [i \in DOMAIN images |-> Line(map, images[i])]
           passed == PassedLines(map)
<1>1. MirrorInv /\ ImagesInv /\ LinesInv
    BY DEF ContentIInv, ContentInv
<1>2. cursor < Len(log) /\ Event.type = "rows"
    BY DEF ParseRowEvent, Parsing, Event
<1>3. Event.id \in DOMAIN maps /\ cursor + 1 \in DOMAIN log
    BY <1>1, <1>2, EventMap
<1>4. DOMAIN images = 1..m
    BY <1>1, <1>2, <1>3, LenProperties DEF ImagesInv, AreImages, Event
<1>5. \A image \in ToSet(images) : ~Unparsable(map, image.old) /\ ~Unparsable(map, image.new)
    BY <1>1, <1>2, Parsable
<1>6. \A line \in ToSet(passed) : Reservable(line)
    <2> SUFFICES ASSUME NEW line \in ToSet(passed) PROVE Reservable(line)
        OBVIOUS
    <2>1. passed # << >>
        BY DEF ToSet
    <2>2. passed = all /\ \A i \in DOMAIN all : FilterData(all[i])
        BY <2>1 DEF PassedLines
    <2>3. PICK i \in DOMAIN images : line = Line(map, images[i])
        BY <2>2 DEF ToSet
    <2>4. FilterData(line) /\ images[i] \in ToSet(images)
        BY <2>2, <2>3 DEF ToSet
    <2>5. Event.table \in Mirrored /\ Event.kind # "delete"
        BY <2>3, <2>4, <1>1, <1>2, PassingRow
    <2> QED
        BY <2>3, <2>4, <2>5, <1>1, <1>2, MirroredFits
<1>7. status' = status
    BY <1>3, <1>5, <1>6 DEF ParseRowEvent
<1>8. lines \in Seq(ToSet(lines)) /\ DOMAIN lines = 1..n
    BY <1>1, LenProperties DEF LinesInv
<1>9. /\ n \in Nat /\ DOMAIN lines' = 1..Len(lines')
      /\ \A i \in 1..n : lines'[i] = lines[i]
      /\ \/ Len(lines') = n
         \/ /\ Len(lines') = n + m /\ m \in Nat
            /\ \A i \in 1..m : Passed(lines'[n + i], images[i])
    BY <1>1, <1>8, ParsedLines
<1> HIDE DEF n, m, images, passed, all
<1>10. ASSUME NEW i \in 1..Len(lines') PROVE Sendable(lines'[i])
    <2>1. CASE i \in 1..n
        BY <2>1, <1>8, <1>9 DEF SendableInv
    <2>2. CASE i \notin 1..n
        <3>1. Len(lines') = n + m /\ m \in Nat
            BY <2>2, <1>9
        <3>2. i - n \in 1..m /\ i = n + (i - n)
            BY <2>2, <3>1, <1>9
        <3>3. PICK k \in 1..m : i = n + k
            BY <3>2
        <3>4. Passed(lines'[i], images[k]) /\ images[k] \in ToSet(Event.images)
            BY <2>2, <3>3, <1>4, <1>9 DEF ToSet, images
        <3> DEFINE line == Line(map, images[k])
        <3>5. FilterData(line) /\ Reservable(line) /\ lines'[i] = ReserveSomeColumn(line)
            BY <3>4 DEF Passed
        <3>6. Event.table \in Mirrored /\ Event.kind # "delete"
            BY <3>5, <1>1, <1>2, PassingRow
        <3>7. line.db_table = Name(Event.table)
            BY <3>6, <1>1, <1>2, EventMap DEF Line, Name
        <3>8. Kept(line) # << >>
            BY <3>6, <3>7, KeptLast
        <3>9. LineOf(lines'[i], Event.table, images[k].new)
            BY <3>4, <3>5, <3>8, <1>1, <1>2, LineIsImages
        <3> QED
            BY <3>6, <3>9, ImageSendable
    <2> QED
        BY <2>1, <2>2
<1> QED
    BY <1>7, <1>9, <1>10 DEF SendableInv

\* With a configuration that names columns there are, imports what it keeps, and
\* keeps no table called like its database, and without DECIMAL columns, no
\* assertion on the way of a row fails, whatever is changed, altered or restarted.
THEOREM MirrorNoAbort ==
    ASSUME NamesApart, ColumnsExist, NothingFails
    PROVE  Spec => []NoAbort
<1>1. Init => NoAbort /\ SendableInv
    <2>1. Init => status = "running" /\ lines = << >>
        BY DEF Init
    <2> QED
        BY <2>1 DEF NoAbort, SendableInv
<1>2. ContentIInv /\ NoAbort /\ SendableInv /\ [Next]_vars => NoAbort' /\ SendableInv'
    <2> SUFFICES ASSUME ContentIInv, NoAbort, SendableInv, [Next]_vars
                 PROVE  NoAbort' /\ SendableInv'
        OBVIOUS
    <2>1. TablesOK /\ LinesInv
        BY DEF ContentIInv, ContentInv
    <2>2. ASSUME UNCHANGED <<lines, status>> PROVE NoAbort' /\ SendableInv'
        BY <2>2 DEF NoAbort, SendableInv
    <2>3. ASSUME UNCHANGED <<parser, sink, resumes, status>> PROVE UNCHANGED <<lines, status>>
        BY <2>3 DEF sink
    <2>4. ASSUME NEW t \in Tables, Alter(t) PROVE UNCHANGED <<lines, status>>
        BY <2>4 DEF Alter, sink
    <2>5. ASSUME Restart \/ ReqBinlog \/ ParseFormatEvent \/ ParseTablemapEvent \/ UNCHANGED vars
          PROVE  UNCHANGED <<lines, status>>
        BY <2>5 DEF Restart, ReqBinlog, ParseFormatEvent, ParseTablemapEvent, vars, sink
    <2>6. ASSUME ParseRowEvent PROVE NoAbort' /\ SendableInv'
        BY <2>6, ParsedFailsNot DEF NoAbort
    <2>7. ASSUME SendData PROVE NoAbort' /\ SendableInv'
        <3>1. /\ Len(lines) \in Nat /\ Len(lines) >= 1
              /\ DOMAIN lines = 1..Len(lines) /\ DOMAIN lines' = 1..Len(lines) - 1
              /\ \A i \in 1..Len(lines) - 1 : lines'[i] = lines[i + 1]
            BY <2>1, <2>7, SentLines DEF LinesInv
        <3>2. \A i \in DOMAIN lines' : i + 1 \in DOMAIN lines /\ lines'[i] = lines[i + 1]
            BY <3>1
        <3>3. Sendable(lines[1])
            BY <3>1 DEF SendableInv
        <3>4. status' = status
            BY <2>1, <2>7, <3>3, Sent
        <3> QED
            BY <3>2, <3>4 DEF NoAbort, SendableInv
    <2> QED
        BY <2>1, <2>2, <2>3, <2>4, <2>5, <2>6, <2>7, Steps
<1>3. Init => ContentIInv
    BY InitContent
<1>4. ContentIInv /\ [Next]_vars => ContentIInv'
    BY NextContent
<1> QED
    BY <1>1, <1>2, <1>3, <1>4, PTL DEF Spec
-----------------------------------------------------------------------------
(* Tables and log agree.                                                   *)

\* A logged image has a key.
LEMMA LoggedKey ==
    ASSUME ImagesInv, NEW i \in DOMAIN log, NEW t, NEW image \in Written(i, t)
    PROVE  image[1] \in Keys
<1>1. log[i].type = "rows" /\ log[i].kind # "delete"
      /\ \E logged \in ToSet(log[i].images) : image = logged.new
    BY DEF Written
<1> QED
    BY <1>1 DEF ImagesInv, AreImages, IsImage

\* A statement's images are of different rows.
LEMMA NextOneImage ==
    ASSUME ContentIInv, OneImageInv, [Next]_vars
    PROVE  OneImageInv'
<1>1. IdsInv /\ LogInv /\ TablesOK
    BY DEF ContentIInv, MirrorInv
<1>2. ASSUME NEW t \in Tables, NEW kind, NEW images, Effect(t, kind, images),
             UNCHANGED <<types, ids, nextId, parser, sink, resumes, status>>
      PROVE  OneImageInv'
    <2>1. LogRows(t, kind, images) /\ UNCHANGED <<ids, types>>
        BY <1>2 DEF Effect
    <2>2. PICK n, N : n = Len(log) /\ N = Len(log')
        OBVIOUS
    <2>3. /\ n \in Nat /\ N \in Nat /\ N > n /\ DOMAIN log = 1..n /\ DOMAIN log' = 1..N
          /\ \A u : \A i \in 1..n : Written(i, u)' = Written(i, u)
          /\ \A u : \A i \in n + 1..N - 1 : Written(i, u)' = {}
          /\ \A u : Written(N, u)' =
                        IF u = t /\ kind # "delete" THEN {image.new : image \in ToSet(images)}
                        ELSE {}
        BY <1>1, <2>1, <2>2, StatementWrites
    <2>4. ASSUME NEW i \in 1..N, NEW u \in Tables, NEW a \in Written(i, u)', NEW b \in Written(i, u)',
                 a[1] = b[1]
          PROVE  a = b
        <3>1. CASE i \in 1..n
            BY <3>1, <2>3, <2>4 DEF OneImageInv
        <3>2. CASE i = N
            <4>1. kind # "delete" /\ a \in {image.new : image \in ToSet(images)}
                  /\ b \in {image.new : image \in ToSet(images)}
                BY <3>2, <2>3, <2>4
            <4>2. a = Image(t, a[1], rows'[t][a[1]]) /\ b = Image(t, b[1], rows'[t][b[1]])
                BY <1>2, <4>1 DEF Effect
            <4> QED
                BY <4>2, <2>4
        <3>3. i \in 1..n \/ i \in n + 1..N - 1 \/ i = N
            BY <2>3
        <3> QED
            BY <3>1, <3>2, <3>3, <2>3, <2>4
    <2> QED
        BY <2>3, <2>4 DEF OneImageInv
<1>3. ASSUME Restart PROVE OneImageInv'
    <2>1. PICK n, N : n = Len(log) /\ N = Len(log')
        OBVIOUS
    <2>2. /\ n \in Nat /\ N = n + 1 /\ DOMAIN log = 1..n /\ DOMAIN log' = 1..N
          /\ \A u : \A i \in 1..n : Written(i, u)' = Written(i, u)
          /\ \A u : Written(N, u)' = {}
        BY <1>1, <1>3, <2>1, RestartWrites
    <2>3. \A i \in 1..N : i \in 1..n \/ i = N
        BY <2>2
    <2> QED
        BY <2>2, <2>3 DEF OneImageInv
<1>4. ASSUME UNCHANGED log PROVE OneImageInv'
    <2>1. \A u : \A i : Written(i, u)' = Written(i, u)
        BY <1>4, SameLog
    <2> QED
        BY <1>4, <2>1 DEF OneImageInv
<1>5. ASSUME NEW t \in Tables, Alter(t) PROVE UNCHANGED log
    BY <1>5 DEF Alter
<1>6. ASSUME ReqBinlog \/ ParseFormatEvent \/ ParseTablemapEvent \/ ParseRowEvent
             \/ SendData \/ UNCHANGED vars
      PROVE  UNCHANGED log
    BY <1>6 DEF ReqBinlog, ParseFormatEvent, ParseTablemapEvent, ParseRowEvent, SendData, vars
<1> QED
    BY <1>1, <1>2, <1>3, <1>4, <1>5, <1>6, Steps

\* What was the last image of a row, and is with more events, was it before.
LEMMA LatestBefore ==
    ASSUME NEW n \in Nat, NEW N \in Nat, N >= n, NEW t, NEW image,
           Latest(image, N, t)', image \notin Written(N, t)', Logged(t) \subseteq Logged(t)',
           \A i \in 1..n : Written(i, t)' = Written(i, t),
           \A i \in n + 1..N - 1 : Written(i, t)' = {}
    PROVE  Latest(image, n, t)
<1>1. PICK i \in 1..N : /\ image \in Written(i, t)'
                       /\ \A j \in i + 1..N, later \in Logged(t)' :
                              later \in Written(j, t)' => later[1] # image[1]
    BY DEF Latest
<1>2. i \in 1..n
    BY <1>1
<1>3. \A j \in i + 1..n : j \in i + 1..N /\ j \in 1..n
    BY <1>2
<1>4. image \in Written(i, t)
    BY <1>1, <1>2
<1>5. \A j \in i + 1..n, later \in Logged(t) : later \in Written(j, t) => later[1] # image[1]
    BY <1>1, <1>3
<1> QED
    BY <1>2, <1>4, <1>5 DEF Latest

\* A statement logs what it leaves in its table.
LEMMA StatementKeepsRows ==
    ASSUME ContentIInv, RowsInv, NEW t \in Tables, NEW kind, NEW images,
           Effect(t, kind, images), UNCHANGED <<ids, types>>
    PROVE  RowsInv'
<1>1. IdsInv /\ LogInv /\ TablesOK /\ ImagesInv
    BY DEF ContentIInv, MirrorInv, ContentInv
<1>2. LogRows(t, kind, images)
    BY DEF Effect
<1>3. PICK n, N : n = Len(log) /\ N = Len(log')
    OBVIOUS
<1>4. /\ n \in Nat /\ N \in Nat /\ N > n /\ DOMAIN log = 1..n /\ DOMAIN log' = 1..N
      /\ \A u : \A i \in 1..n : Written(i, u)' = Written(i, u)
      /\ \A u : \A i \in n + 1..N - 1 : Written(i, u)' = {}
      /\ \A u : Written(N, u)' =
                    IF u = t /\ kind # "delete" THEN {image.new : image \in ToSet(images)}
                    ELSE {}
      /\ \A u : Logged(u) \subseteq Logged(u)'
    BY <1>1, <1>2, <1>3, StatementWrites
<1> SUFFICES ASSUME NEW u \in Tables, NEW image \in Logged(u)', Latest(image, N, u)',
                    Present(u, image[1])', NEW c \in Lasting
             PROVE  image[c] = Image(u, image[1], rows[u][image[1]])'[c]
    BY <1>3 DEF RowsInv
<1>5. CASE image \in Written(N, u)'
    <2>1. u = t /\ kind # "delete" /\ image \in {logged.new : logged \in ToSet(images)}
        BY <1>4, <1>5
    <2>2. image = Image(t, image[1], rows'[t][image[1]])
        BY <2>1 DEF Effect
    <2>3. Image(t, image[1], rows[t][image[1]])' = Image(t, image[1], rows'[t][image[1]])
        BY DEF Image
    <2> QED
        BY <2>1, <2>2, <2>3
<1>6. CASE image \notin Written(N, u)'
    <2>1. N >= n
        BY <1>4
    <2>2. Latest(image, n, u)
        BY <1>4, <1>6, <2>1, LatestBefore
    <2>3. PICK i \in 1..n : image \in Written(i, u)
        BY <2>2 DEF Latest
    <2>4. image[1] \in Keys /\ image \in Logged(u)
        BY <2>3, <1>1, <1>4, LoggedKey, WrittenLogged
    <2>5. rows'[u][image[1]] = rows[u][image[1]]
        <3>1. CASE u # t
            BY <3>1 DEF Effect
        <3>2. CASE u = t
            <4>1. \A logged \in ToSet(images) : kind # "delete" => logged.new[1] # image[1]
                <5> SUFFICES ASSUME NEW logged \in ToSet(images), kind # "delete",
                                    logged.new[1] = image[1]
                             PROVE  FALSE
                    OBVIOUS
                <5>1. PICK k \in 1..N :
                          /\ image \in Written(k, u)'
                          /\ \A j \in k + 1..N, later \in Logged(u)' :
                                 later \in Written(j, u)' => later[1] # image[1]
                    BY DEF Latest
                <5>2. logged.new \in Written(N, u)'
                    BY <3>2, <1>4
                <5>3. logged.new \in Logged(u)'
                    <6>1. N \in DOMAIN log'
                        BY <1>4
                    <6> QED
                        BY <5>2, <6>1 DEF Logged
                <5>4. k # N
                    BY <5>1, <1>6
                <5>5. N \in k + 1..N
                    BY <5>1, <5>4, <1>4
                <5> QED
                    BY <5>1, <5>2, <5>3, <5>5
            <4>2. rows'[t][image[1]] # NoRow
                BY <3>2 DEF Present
            <4> QED
                BY <2>4, <3>2, <4>1, <4>2 DEF Effect
        <3> QED
            BY <3>1, <3>2
    <2>6. Present(u, image[1])
        BY <2>5 DEF Present
    <2>7. image[c] = Image(u, image[1], rows[u][image[1]])[c]
        BY <1>3, <2>2, <2>4, <2>6 DEF RowsInv
    <2>8. Image(u, image[1], rows[u][image[1]])' = Image(u, image[1], rows[u][image[1]])
        BY <2>5 DEF Image
    <2> QED
        BY <2>7, <2>8
<1> QED
    BY <1>5, <1>6
\* A changed definition leaves the lasting columns of a row as they were.
LEMMA AlterKeepsColumn ==
    ASSUME TablesOK, NEW t \in Tables, NEW k \in Keys, NEW c \in Lasting,
           NEW schema \in Schemas, rows[t][k] # NoRow,
           types' = [types EXCEPT ![t] = schema], rows'[t][k] = Cut(rows[t][k], schema)
    PROVE  Image(t, k, rows[t][k])'[c] = Image(t, k, rows[t][k])[c]
<1> DEFINE row == rows[t][k]
           cut == Cut(row, schema)
           w == Len(types[t])
           v == Len(schema)
<1>1. row \in Rows
    BY DEF TablesOK
<1>2. Len(row) \in Nat
    BY <1>1, RowShape
<1>3. /\ Len(cut) = IF Len(row) < v THEN Len(row) ELSE v - 1
      /\ \A i \in 1..Len(cut) : cut[i] = row[i]
    BY <1>1, CutShape DEF NoRow
<1>4. types[t] \in Schemas /\ types'[t] = schema
    BY DEF TablesOK
<1>5. w \in Nat /\ v \in Nat /\ v >= 2
    BY <1>4, RowMirrorAssumption, ValuesAssumption, LenProperties
<1>6. c \in Nat /\ c >= 1 /\ c <= w /\ c <= v
    <2>1. c \in 1..Len(InitialSchema) /\ Len(InitialSchema) \in Nat
        BY RowMirrorAssumption, LenProperties DEF Lasting
    <2>2. c <= w /\ c <= v
        BY <1>4 DEF Lasting
    <2> QED
        BY <2>1, <2>2
<1>7. Image(t, k, row)[c] = IF c = 1 THEN k ELSE IF c - 1 <= Len(row) THEN row[c - 1] ELSE Null
    <2>1. c \in 1..w
        BY <1>5, <1>6
    <2> QED
        BY <2>1 DEF Image
<1>8. Image(t, k, rows[t][k])'[c] =
          IF c = 1 THEN k ELSE IF c - 1 <= Len(cut) THEN cut[c - 1] ELSE Null
    <2>1. c \in 1..v
        BY <1>5, <1>6
    <2> QED
        BY <2>1, <1>4 DEF Image
<1> HIDE DEF row, cut, w, v
<1>9. CASE c = 1
    BY <1>9, <1>7, <1>8 DEF row
<1>10. CASE c # 1
    <2>1. c - 1 <= Len(cut) <=> c - 1 <= Len(row)
        BY <1>2, <1>3, <1>5, <1>6, <1>10
    <2>2. c - 1 <= Len(cut) => cut[c - 1] = row[c - 1]
        BY <1>2, <1>3, <1>5, <1>6, <1>10
    <2> QED
        BY <1>7, <1>8, <1>10, <2>1, <2>2 DEF row
<1> QED
    BY <1>9, <1>10

\* A change of a table's definition leaves what was logged of its lasting columns.
LEMMA AlterKeepsRows ==
    ASSUME ContentIInv, RowsInv, NEW t \in Tables, Alter(t)
    PROVE  RowsInv'
<1>1. TablesOK /\ ImagesInv
    BY DEF ContentIInv, ContentInv
<1>2. PICK schema \in Schemas :
          /\ types' = [types EXCEPT ![t] = schema]
          /\ rows' = [rows EXCEPT ![t] = [k \in Keys |-> Cut(@[k], schema)]]
    BY DEF Alter
<1>3. log' = log
    BY DEF Alter
<1>4. \A u : Logged(u)' = Logged(u) /\ \A i : Written(i, u)' = Written(i, u)
    BY <1>3, SameLog
<1> SUFFICES ASSUME NEW u \in Tables, NEW image \in Logged(u), Latest(image, Len(log), u),
                    Present(u, image[1])', NEW c \in Lasting
             PROVE  image[c] = Image(u, image[1], rows[u][image[1]])'[c]
    <2>1. \A u : \A image : Latest(image, Len(log), u)' <=> Latest(image, Len(log), u)
        BY <1>3, <1>4 DEF Latest
    <2> QED
        BY <1>4, <2>1 DEF RowsInv
<1> DEFINE k == image[1]
<1>5. k \in Keys
    BY <1>1, LoggedKey DEF Logged
<1>6. CASE u # t
    <2>1. rows'[u] = rows[u] /\ types'[u] = types[u]
        BY <1>1, <1>2, <1>6 DEF TablesOK
    <2>2. Present(u, k)
        BY <2>1 DEF Present
    <2>3. Image(u, k, rows[u][k])' = Image(u, k, rows[u][k])
        BY <2>1 DEF Image
    <2> QED
        BY <2>2, <2>3 DEF RowsInv
<1>7. CASE u = t
    <2>1. rows'[t][k] = Cut(rows[t][k], schema)
        BY <1>1, <1>2, <1>5 DEF TablesOK
    <2>2. rows[t][k] \in Rows \cup {NoRow}
        BY <1>1, <1>5 DEF TablesOK
    <2>3. rows[t][k] # NoRow
        BY <1>7, <2>1, <2>2, CutShape DEF Present
    <2>4. image[c] = Image(t, k, rows[t][k])[c]
        BY <1>7, <2>3 DEF RowsInv, Present
    <2>5. Image(t, k, rows[t][k])'[c] = Image(t, k, rows[t][k])[c]
        BY <1>1, <1>2, <1>5, <2>1, <2>3, AlterKeepsColumn
    <2> QED
        BY <1>7, <2>4, <2>5
<1> QED
    BY <1>6, <1>7

\* The tables stay what was logged last.
LEMMA NextRows ==
    ASSUME ContentIInv, RowsInv, [Next]_vars
    PROVE  RowsInv'
<1>1. LogInv /\ TablesOK
    BY DEF ContentIInv, MirrorInv
<1>2. ASSUME NEW t \in Tables, NEW kind, NEW images, Effect(t, kind, images),
             UNCHANGED <<types, ids, nextId, parser, sink, resumes, status>>
      PROVE  RowsInv'
    <2>1. UNCHANGED <<ids, types>>
        BY <1>2
    <2> QED
        BY <1>2, <2>1, StatementKeepsRows
<1>3. ASSUME NEW t \in Tables, Alter(t) PROVE RowsInv'
    BY <1>3, AlterKeepsRows
<1>4. ASSUME Restart PROVE RowsInv'
    <2>1. PICK n, N : n = Len(log) /\ N = Len(log')
        OBVIOUS
    <2>2. /\ n \in Nat /\ N = n + 1 /\ DOMAIN log = 1..n /\ DOMAIN log' = 1..N
          /\ \A u : \A i \in 1..n : Written(i, u)' = Written(i, u)
          /\ \A u : Written(N, u)' = {}
          /\ \A u : Logged(u) \subseteq Logged(u)'
        BY <1>1, <1>4, <2>1, RestartWrites
    <2>3. UNCHANGED <<rows, types>>
        BY <1>4 DEF Restart
    <2>4. ASSUME NEW u \in Tables, NEW image \in Logged(u)', Latest(image, N, u)'
          PROVE  image \in Logged(u) /\ Latest(image, n, u)
        <3>1. /\ N \in Nat /\ N >= n /\ image \notin Written(N, u)'
              /\ \A i \in n + 1..N - 1 : Written(i, u)' = {}
            BY <2>2
        <3>2. Latest(image, n, u)
            BY <2>2, <2>4, <3>1, LatestBefore
        <3> QED
            BY <2>2, <3>2, WrittenLogged DEF Latest
    <2>5. \A u, k : Present(u, k)' = Present(u, k)
                    /\ Image(u, k, rows[u][k])' = Image(u, k, rows[u][k])
        BY <2>3 DEF Present, Image
    <2> QED
        BY <2>1, <2>4, <2>5 DEF RowsInv
<1>5. ASSUME UNCHANGED <<log, rows, types>> PROVE RowsInv'
    <2>1. \A u : Logged(u)' = Logged(u) /\ \A i : Written(i, u)' = Written(i, u)
        BY <1>5, SameLog
    <2>2. \A u : \A image : Latest(image, Len(log), u)' <=> Latest(image, Len(log), u)
        BY <1>5, <2>1 DEF Latest
    <2>3. \A u, k : Present(u, k)' = Present(u, k)
                    /\ Image(u, k, rows[u][k])' = Image(u, k, rows[u][k])
        BY <1>5 DEF Present, Image
    <2> QED
        BY <2>1, <2>2, <2>3 DEF RowsInv
<1>6. ASSUME ReqBinlog \/ ParseFormatEvent \/ ParseTablemapEvent \/ ParseRowEvent
             \/ SendData \/ UNCHANGED vars
      PROVE  UNCHANGED <<log, rows, types>>
    BY <1>6 DEF ReqBinlog, ParseFormatEvent, ParseTablemapEvent, ParseRowEvent, SendData,
                vars, server
<1> QED
    BY <1>1, <1>2, <1>3, <1>4, <1>5, <1>6, Steps
-----------------------------------------------------------------------------
(* Queue and Redis agree with what was parsed.                             *)

\* A line of an image sets that image's entries.
LEMMA SetsEntries ==
    ASSUME NEW line, NEW u, NEW written, LineOf(line, u, written), Sendable(line),
           NEW a, NEW b, NEW x, x = <<a, b>>
    PROVE  /\ Sets(line, x) <=> x \in Entries(u, written)
           /\ Sets(line, x) => ColumnByName(line, line.new, b) = FieldText(u, written, b)
<1> DEFINE config == Imports[Name(u)]
           hash == HashKey(config, FieldText(u, written, config.key))
<1>1. line.db_table = Name(u) /\ line.action # "delete"
    BY DEF LineOf
<1>2. Named(line, config.key) /\ \A f \in config.values : Named(line, f)
    BY <1>1 DEF Sendable
<1>3. ColumnByName(line, line.new, config.key) = FieldText(u, written, config.key)
    BY <1>2, LineValues
<1>4. Sets(line, x) <=> a = hash /\ b \in config.values
    BY <1>1, <1>3 DEF Sets
<1>5. \A f : Entry(u, written, f) = <<hash, f>>
    BY DEF Entry, FieldText
<1> HIDE DEF hash
<1>6. x \in Entries(u, written) <=> a = hash /\ b \in config.values
    BY <1>5 DEF Entries
<1>7. b \in config.values => ColumnByName(line, line.new, b) = FieldText(u, written, b)
    BY <1>2, LineValues
<1> QED
    BY <1>4, <1>6, <1>7

\* Where keys are apart, only the lines of a row set its entries.
LEMMA SetsApart ==
    ASSUME NamesApart, KeysApart, NEW t \in Mirrored, NEW image, image[1] \in Keys,
           NEW u \in Tables, NEW written, written[1] \in Keys,
           NEW line, LineOf(line, u, written), NEW field, Sets(line, Entry(t, image, field))
    PROVE  u = t /\ written[1] = image[1]
<1> DEFINE x == Entry(t, image, field)
           p == Imports[Name(t)].prefix
           q == Imports[Name(u)].prefix
<1>1. Sendable(line) /\ line.db_table = Name(u) /\ Name(u) \in DOMAIN Filters
    BY DEF Sets, LineOf
<1>2. Name(u) \in DOMAIN Imports
    BY <1>1 DEF Sendable
<1>3. u \in Mirrored
    BY <1>1, <1>2, Configured
<1>4. Column(Name(t), Imports[Name(t)].key) = 1 /\ Column(Name(u), Imports[Name(u)].key) = 1
    BY <1>3 DEF KeysApart
<1>5. \A k \in Keys : Text(k) = k /\ k \in STRING
    BY ValuesAssumption DEF Text, Null
<1>6. x = <<HashKey(Imports[Name(t)], image[1]), field>>
    BY <1>4, <1>5 DEF Entry
<1>7. x \in Entries(u, written)
    BY <1>1, <1>6, SetsEntries
<1>8. PICK f : x = Entry(u, written, f)
    BY <1>7 DEF Entries
<1>9. x = <<HashKey(Imports[Name(u)], written[1]), f>>
    BY <1>4, <1>5, <1>8 DEF Entry
<1>10. p \o <<image[1]>> = q \o <<written[1]>>
    <2>1. x[1] = HashKey(Imports[Name(t)], image[1])
        BY <1>6
    <2>2. x[1] = HashKey(Imports[Name(u)], written[1])
        BY <1>9
    <2> HIDE DEF x
    <2> QED
        BY <2>1, <2>2 DEF HashKey
<1>11. p \in Seq(STRING) /\ q \in Seq(STRING)
    <2>1. \A d \in DOMAIN Imports : Imports[d].prefix \in Seq(STRING)
        <3> SUFFICES ASSUME NEW d \in DOMAIN Imports PROVE Imports[d].prefix \in Seq(STRING)
            OBVIOUS
        <3>1. PICK i \in DOMAIN ImportItems : Imports[d] = ImportItems[i]
            BY ImportItem DEF ToSet
        <3>2. ImportItems[i].prefix \in Seq(STRING)
            <4> DEFINE Item == [db_table : Seq(STRING), prefix : Seq(STRING),
                                key : STRING, values : SUBSET STRING]
            <4>1. ImportItems \in Seq(Item)
                BY ItemsAssumption
            <4> HIDE DEF Item
            <4>2. ImportItems[i] \in Item
                BY <4>1, LenProperties, ElementOfSeq
            <4> QED
                BY <4>2 DEF Item
        <3> QED
            BY <3>1, <3>2
    <2> QED
        BY <2>1, <1>2, MirroredConfigs
<1> HIDE DEF p, q
<1>12. p = q /\ image[1] = written[1]
    <2>1. image[1] \in STRING /\ written[1] \in STRING
        BY <1>5
    <2>2. p \o <<image[1]>> = Append(p, image[1]) /\ q \o <<written[1]>> = Append(q, written[1])
        BY <2>1, <1>11
    <2>3. Append(p, image[1]) = Append(q, written[1])
        BY <2>2, <1>10
    <2> QED
        BY <2>1, <2>3, <1>11, AppendInjective
<1> QED
    BY <1>3, <1>12 DEF KeysApart, p, q
\* A passed line of a mirrored table is that of its image.
LEMMA PassedMirrored ==
    ASSUME MirrorInv, ImagesInv, ColumnsExist, cursor < Len(log), Event.type = "rows",
           Event.table \in Mirrored, Event.kind # "delete",
           NEW image \in ToSet(Event.images), NEW done, Passed(done, image)
    PROVE  LineOf(done, Event.table, image.new)
<1> DEFINE line == Line(maps[Event.id], image)
<1>1. FilterData(line) /\ Reservable(line) /\ done = ReserveSomeColumn(line)
    BY DEF Passed
<1>2. line.db_table = Name(Event.table)
    BY EventMap DEF Line, Name
<1>3. Kept(line) # << >>
    BY <1>2, KeptLast
<1> QED
    BY <1>1, <1>3, LineIsImages

\* A new line sets an entry of a mirrored row only for an image of that row.
LEMMA NewLineSets ==
    ASSUME NamesApart, KeysApart, MirrorInv, ImagesInv, cursor < Len(log), Event.type = "rows",
           NEW t \in Mirrored, NEW image, image[1] \in Keys, NEW field,
           NEW row \in ToSet(Event.images), NEW done, Passed(done, row),
           Sets(done, Entry(t, image, field))
    PROVE  row.new \in Written(cursor + 1, t) /\ row.new[1] = image[1]
<1>1. cursor + 1 \in DOMAIN log /\ Event.table \in Tables
    BY EventMap
<1>2. done.names # << >>
    BY DEF Sets, Sendable, Named, ToSet
<1>3. row.new \in Written(cursor + 1, Event.table) /\ LineOf(done, Event.table, row.new)
    BY <1>2, PassedLine
<1>4. row.new[1] \in Keys
    BY <1>1, <1>3, LoggedKey
<1>5. Event.table = t /\ row.new[1] = image[1]
    BY <1>1, <1>3, <1>4, SetsApart
<1> QED
    BY <1>3, <1>5

\* Once parsed, the last image of a row is in the queue, behind all others of it.
LEMMA ParsedOwes ==
    ASSUME NamesApart, ColumnsExist, KeysApart, ContentIInv, OneImageInv, OwedInv, ParseRowEvent
    PROVE  OwedInv'
<1>1. MirrorInv /\ LogInv /\ MapsInv /\ ImagesInv /\ LinesInv
    BY DEF ContentIInv, ContentInv, MirrorInv
<1>2. /\ cursor < Len(log) /\ Event.type = "rows" /\ status = "running"
      /\ UNCHANGED <<log, redis>> /\ cursor' = cursor + 1
    BY DEF ParseRowEvent, Parsing, Event
<1>3. PICK c : c = cursor
    OBVIOUS
<1>4. c \in Nat /\ c + 1 \in DOMAIN log /\ \A i \in 1..c : i \in DOMAIN log
    BY <1>1, <1>2, <1>3, LogBasics DEF MapsInv
<1>5. \A u : Logged(u)' = Logged(u) /\ \A i : Written(i, u)' = Written(i, u)
    BY <1>2, SameLog
<1> SUFFICES ASSUME status' = "running", NEW t \in Mirrored, NEW image \in Logged(t),
                    NEW field \in Imports[Name(t)].values, Latest(image, c + 1, t)
             PROVE  Owed(Entry(t, image, field), FieldText(t, image, field))'
    <2>1. \A u : \A image : Latest(image, cursor, u)' <=> Latest(image, c + 1, u)
        BY <1>2, <1>3, <1>5 DEF Latest
    <2> QED
        BY <1>5, <2>1 DEF OwedInv
<1> DEFINE x == Entry(t, image, field)
           v == FieldText(t, image, field)
           images == Event.images
           m == Len(images)
           n == Len(lines)
<1>6. image[1] \in Keys
    BY <1>1, LoggedKey DEF Logged
<1>7. DOMAIN images = 1..m /\ m \in Nat
    BY <1>1, <1>2, <1>3, <1>4, LenProperties DEF ImagesInv, AreImages, Event
<1>8. lines \in Seq(ToSet(lines)) /\ DOMAIN lines = 1..n
    BY <1>1, LenProperties DEF LinesInv
<1>a. PICK N : N = Len(lines')
    OBVIOUS
<1>9. /\ n \in Nat /\ DOMAIN lines' = 1..N
      /\ \A i \in 1..n : lines'[i] = lines[i]
      /\ \/ N = n
         \/ /\ N = n + m
            /\ \A i \in 1..m : Passed(lines'[n + i], images[i])
      /\ \/ N = n + m
         \/ \E row \in ToSet(images) : ~FilterData(Line(maps[Event.id], row))
    BY <1>1, <1>8, <1>a, ParsedLines
<1>10. \A k \in 1..m : images[k] \in ToSet(images)
    BY <1>7 DEF ToSet
<1> HIDE DEF n, m, images
<1>11. ASSUME NEW j \in 1..N, j > n, Sets(lines'[j], x)
       PROVE  \E k \in 1..m : /\ j = n + k /\ images[k].new \in Written(c + 1, t)
                             /\ images[k].new[1] = image[1]
    <2>1. N = n + m
        <3>1. N # n
            BY <1>9, <1>11
        <3> QED
            BY <3>1, <1>9
    <2>2. j - n \in 1..m /\ j = n + (j - n)
        BY <2>1, <1>7, <1>9, <1>11
    <2>3. PICK k \in 1..m : j = n + k
        BY <2>2
    <2>4. Passed(lines'[j], images[k])
        <3>1. N # n
            BY <1>9, <1>11
        <3> QED
            BY <2>3, <3>1, <1>9
    <2>5. images[k].new \in Written(cursor + 1, t) /\ images[k].new[1] = image[1]
        BY <2>4, <1>1, <1>2, <1>6, <1>10, <1>11, NewLineSets DEF images
    <2> QED
        BY <2>3, <2>5, <1>3
<1>12. CASE \E written \in Written(c + 1, t) : written[1] = image[1]
    <2>1. PICK i \in 1..c + 1 :
              /\ image \in Written(i, t)
              /\ \A j \in i + 1..c + 1, later \in Logged(t) :
                     later \in Written(j, t) => later[1] # image[1]
        BY DEF Latest
    <2>2. i = c + 1
        <3>1. SUFFICES ASSUME i # c + 1 PROVE FALSE
            OBVIOUS
        <3>2. c + 1 \in i + 1..c + 1
            BY <3>1, <1>4
        <3>3. Written(c + 1, t) \subseteq Logged(t)
            BY <1>4, WrittenLogged
        <3> QED
            BY <3>2, <3>3, <2>1, <1>12
    <2>3. /\ Event.table = t /\ Event.kind # "delete"
          /\ image \in {row.new : row \in ToSet(images)}
        BY <2>1, <2>2, <1>3 DEF Written, Event, images
    <2>4. N = n + m
        <3>1. \A row \in ToSet(images) : FilterData(Line(maps[Event.id], row))
            BY <2>3, <1>1, <1>2, MirroredFits DEF images
        <3> QED
            BY <3>1, <1>9
    <2> DEFINE T == {k \in 1..m : images[k].new = image}
    <2>5. T \in SUBSET Nat /\ T # {} /\ \A k \in T : k <= m
        BY <2>3, <1>7 DEF ToSet
    <2>6. PICK k \in T : \A l \in T : l <= k
        BY <2>5, <1>7, Greatest
    <2>7. k \in 1..m /\ images[k].new = image
        BY <2>6
    <2>8. n + k \in 1..N
        BY <2>4, <2>7, <1>7, <1>9
    <2>9. Passed(lines'[n + k], images[k])
        <3>1. N # n
            BY <2>4, <2>7, <1>7, <1>9
        <3> QED
            BY <2>7, <3>1, <1>9
    <2>10. LineOf(lines'[n + k], t, image)
        BY <2>3, <2>7, <2>9, <1>1, <1>2, <1>10, PassedMirrored DEF images
    <2>11. Sendable(lines'[n + k])
        BY <2>10, ImageSendable
    <2>12. /\ Sets(lines'[n + k], x)
           /\ ColumnByName(lines'[n + k], lines'[n + k].new, x[2]) = v
        <3>1. PICK a : x = <<a, field>>
            BY DEF Entry
        <3>2. x \in Entries(t, image)
            BY DEF Entries
        <3>3. x[2] = field
            BY <3>1
        <3> HIDE DEF x
        <3> QED
            BY <2>10, <2>11, <3>1, <3>2, <3>3, SetsEntries
    <2>13. ASSUME NEW j \in 1..N, j > n + k PROVE ~Sets(lines'[j], x)
        <3>1. SUFFICES ASSUME Sets(lines'[j], x) PROVE FALSE
            OBVIOUS
        <3>2. j > n
            BY <2>7, <2>13, <1>7, <1>9
        <3>3. PICK l \in 1..m : /\ j = n + l /\ images[l].new \in Written(c + 1, t)
                               /\ images[l].new[1] = image[1]
            BY <3>1, <3>2, <1>11
        <3>4. images[l].new = image
            BY <3>3, <2>1, <2>2, <1>4, MirroredConfigs DEF OneImageInv
        <3>5. l <= k
            BY <3>3, <3>4, <2>6
        <3> QED
            BY <3>3, <3>5, <2>7, <2>13, <1>7, <1>9
    <2> HIDE DEF x, v
    <2>14. \E i1 \in DOMAIN lines' :
              /\ Sets(lines'[i1], x) /\ ColumnByName(lines'[i1], lines'[i1].new, x[2]) = v
              /\ \A j \in DOMAIN lines' : j > i1 => ~Sets(lines'[j], x)
        BY <2>8, <2>12, <2>13, <1>9
    <2> QED
        BY <2>14 DEF Owed, x, v
<1>13. CASE \A written \in Written(c + 1, t) : written[1] # image[1]
    <2>1. Latest(image, c, t)
        <3>1. PICK i \in 1..c + 1 :
                  /\ image \in Written(i, t)
                  /\ \A j \in i + 1..c + 1, later \in Logged(t) :
                         later \in Written(j, t) => later[1] # image[1]
            BY DEF Latest
        <3>2. i # c + 1
            BY <3>1, <1>13
        <3>3. i \in 1..c /\ \A j \in i + 1..c : j \in i + 1..c + 1
            BY <3>1, <3>2, <1>4
        <3> QED
            BY <3>1, <3>3 DEF Latest
    <2>2. Owed(x, v)
        BY <2>1, <1>2, <1>3 DEF OwedInv
    <2>3. \A j \in 1..N : j > n => ~Sets(lines'[j], x)
        BY <1>11, <1>13
    <2> HIDE DEF x, v
    <2>4. \A j \in 1..n : j \in 1..N /\ j \in DOMAIN lines /\ lines'[j] = lines[j]
        BY <1>7, <1>8, <1>9
    <2>5. \A j \in 1..N : j \in 1..n \/ j > n
        BY <1>9
    <2>6. CASE \E i \in DOMAIN lines :
                 /\ Sets(lines[i], x) /\ ColumnByName(lines[i], lines[i].new, x[2]) = v
                 /\ \A j \in DOMAIN lines : j > i => ~Sets(lines[j], x)
        <3>1. PICK i \in DOMAIN lines :
                 /\ Sets(lines[i], x) /\ ColumnByName(lines[i], lines[i].new, x[2]) = v
                 /\ \A j \in DOMAIN lines : j > i => ~Sets(lines[j], x)
            BY <2>6
        <3>2. i \in 1..n
            BY <1>8
        <3>3. \A j \in DOMAIN lines' : j > i => ~Sets(lines'[j], x)
            BY <3>1, <2>3, <2>4, <2>5, <1>9
        <3>4. \E k \in DOMAIN lines' :
                 /\ Sets(lines'[k], x) /\ ColumnByName(lines'[k], lines'[k].new, x[2]) = v
                 /\ \A j \in DOMAIN lines' : j > k => ~Sets(lines'[j], x)
            BY <3>1, <3>2, <3>3, <2>4, <1>9
        <3> QED
            BY <3>4 DEF Owed, x, v
    <2>7. CASE /\ x \in DOMAIN redis /\ redis[x] = v
               /\ \A j \in DOMAIN lines : ~Sets(lines[j], x)
        <3>1. \A j \in DOMAIN lines' : ~Sets(lines'[j], x)
            BY <2>3, <2>4, <2>5, <2>7, <1>9
        <3>2. x \in DOMAIN redis' /\ redis'[x] = v
            BY <2>7, <1>2
        <3> QED
            BY <3>1, <3>2 DEF Owed, x, v
    <2> QED
        BY <2>2, <2>6, <2>7 DEF Owed
<1> QED
    BY <1>12, <1>13
\* Sending the first line gives Redis what it owes.
LEMMA SentOwes ==
    ASSUME ContentIInv, OwedInv, SendData
    PROVE  OwedInv'
<1>1. LinesInv
    BY DEF ContentIInv, ContentInv
<1>2. UNCHANGED <<log, cursor>> /\ status = "running"
    BY DEF SendData, parser
<1>3. PICK n : n = Len(lines)
    OBVIOUS
<1>4. /\ n \in Nat /\ n >= 1 /\ DOMAIN lines = 1..n /\ DOMAIN lines' = 1..n - 1
      /\ \A i \in 1..n - 1 : lines'[i] = lines[i + 1]
    BY <1>1, <1>3, SentLines DEF LinesInv
<1>5. \A u : Logged(u)' = Logged(u) /\ \A i : Written(i, u)' = Written(i, u)
    BY <1>2, SameLog
<1> SUFFICES ASSUME status' = "running", NEW t \in Mirrored, NEW image \in Logged(t),
                    NEW field \in Imports[Name(t)].values, Latest(image, cursor, t)
             PROVE  Owed(Entry(t, image, field), FieldText(t, image, field))'
    <2>1. \A u : \A image : Latest(image, cursor, u)' <=> Latest(image, cursor, u)
        BY <1>2, <1>5 DEF Latest
    <2> QED
        BY <1>5, <2>1 DEF OwedInv
<1> DEFINE x == Entry(t, image, field)
           v == FieldText(t, image, field)
<1>6. Owed(x, v)
    BY <1>2 DEF OwedInv
<1>7. PICK a : x = <<a, field>>
    BY DEF Entry
<1>8. Sendable(lines[1])
    BY <1>1, Sent
<1>16. PICK u \in Tables : \E written \in Logged(u) :
          /\ LineOf(lines[1], u, written)
          /\ DOMAIN redis' = DOMAIN redis \cup Entries(u, written)
          /\ \A y \in DOMAIN redis' :
                redis'[y] = IF y \in Entries(u, written) THEN FieldText(u, written, y[2]) ELSE redis[y]
    BY <1>1, Sent
<1>9. PICK written \in Logged(u) :
          /\ LineOf(lines[1], u, written)
          /\ DOMAIN redis' = DOMAIN redis \cup Entries(u, written)
          /\ \A y \in DOMAIN redis' :
                redis'[y] = IF y \in Entries(u, written) THEN FieldText(u, written, y[2]) ELSE redis[y]
    BY <1>16
<1>10. /\ Sets(lines[1], x) <=> x \in Entries(u, written)
       /\ Sets(lines[1], x) => ColumnByName(lines[1], lines[1].new, field) = FieldText(u, written, field)
    BY <1>7, <1>8, <1>9, SetsEntries
<1>11. x[2] = field
    BY <1>7
<1> HIDE DEF x, v
<1>12. \A j \in 1..n - 1 : j + 1 \in 1..n /\ lines'[j] = lines[j + 1]
    BY <1>4
<1>13. CASE \E i \in DOMAIN lines :
              /\ Sets(lines[i], x) /\ ColumnByName(lines[i], lines[i].new, x[2]) = v
              /\ \A j \in DOMAIN lines : j > i => ~Sets(lines[j], x)
    <2>1. PICK i \in 1..n :
              /\ Sets(lines[i], x) /\ ColumnByName(lines[i], lines[i].new, x[2]) = v
              /\ \A j \in 1..n : j > i => ~Sets(lines[j], x)
        BY <1>4, <1>13
    <2>2. CASE i = 1
        <3>1. x \in Entries(u, written) /\ FieldText(u, written, x[2]) = v
            BY <2>1, <2>2, <1>10, <1>11
        <3>2. x \in DOMAIN redis' /\ redis'[x] = v
            BY <3>1, <1>9
        <3>3. \A j \in 1..n - 1 : j + 1 > i
            BY <2>2, <1>4
        <3>4. \A j \in DOMAIN lines' : ~Sets(lines'[j], x)
            BY <2>1, <3>3, <1>4, <1>12
        <3> QED
            BY <3>2, <3>4 DEF Owed, x, v
    <2>3. CASE i # 1
        <3>1. PICK k \in 1..n - 1 : i = k + 1
            <4>1. i - 1 \in 1..n - 1 /\ i = (i - 1) + 1
                BY <2>1, <2>3, <1>4
            <4> QED
                BY <4>1
        <3>2. Sets(lines'[k], x) /\ ColumnByName(lines'[k], lines'[k].new, x[2]) = v
            BY <2>1, <3>1, <1>12
        <3>3. \A j \in 1..n - 1 : j > k => ~Sets(lines'[j], x)
            <4>1. \A j \in 1..n - 1 : j > k => j + 1 > i
                BY <3>1, <1>4
            <4> QED
                BY <4>1, <2>1, <1>12
        <3> QED
            BY <3>2, <3>3, <1>4 DEF Owed, x, v
    <2> QED
        BY <2>2, <2>3
<1>14. CASE /\ x \in DOMAIN redis /\ redis[x] = v
            /\ \A j \in DOMAIN lines : ~Sets(lines[j], x)
    <2>1. 1 \in DOMAIN lines
        BY <1>4
    <2>2. x \notin Entries(u, written)
        BY <2>1, <1>10, <1>14
    <2>3. x \in DOMAIN redis' /\ redis'[x] = v
        BY <2>2, <1>9, <1>14
    <2>4. \A j \in DOMAIN lines' : ~Sets(lines'[j], x)
        BY <1>4, <1>12, <1>14
    <2> QED
        BY <2>3, <2>4 DEF Owed, x, v
<1> QED
    BY <1>6, <1>13, <1>14 DEF Owed

\* What was the last image with the events parsed so far, still is when the log
\* grows behind them.
LEMMA LatestStays ==
    ASSUME NEW c, NEW t, NEW image, Latest(image, c, t)', Logged(t) \subseteq Logged(t)',
           \A i \in 1..c : i \in DOMAIN log /\ Written(i, t)' = Written(i, t)
    PROVE  image \in Logged(t) /\ Latest(image, c, t)
<1>1. PICK i \in 1..c :
          /\ image \in Written(i, t)'
          /\ \A j \in i + 1..c, later \in Logged(t)' :
                 later \in Written(j, t)' => later[1] # image[1]
    BY DEF Latest
<1>2. image \in Written(i, t) /\ image \in Logged(t)
    BY <1>1, WrittenLogged
<1>3. ASSUME NEW j \in i + 1..c, NEW later \in Logged(t), later \in Written(j, t)
      PROVE  later[1] # image[1]
    <2>1. later \in Logged(t)'
        BY <1>3
    <2>2. CASE j \in 1..c
        BY <1>1, <1>3, <2>1, <2>2
    <2>3. CASE j \notin 1..c
        BY <1>1, <1>3, <2>3
    <2> QED
        BY <2>2, <2>3
<1> QED
    BY <1>1, <1>2, <1>3 DEF Latest

\* No step loses what is owed.
LEMMA NextOwed ==
    ASSUME NamesApart, ColumnsExist, KeysApart, ContentIInv, OneImageInv, OwedInv, [Next]_vars
    PROVE  OwedInv'
<1>1. IdsInv /\ LogInv /\ MapsInv /\ TablesOK /\ cursor \in 0..Len(log)
    BY DEF ContentIInv, MirrorInv, MapsInv
<1>2. PICK c, n, N : c = cursor /\ n = Len(log) /\ N = Len(log')
    OBVIOUS
<1>3. c \in Nat /\ n \in Nat /\ c <= n /\ DOMAIN log = 1..n
    BY <1>1, <1>2, LogBasics
<1>4. ASSUME UNCHANGED <<lines, redis, status>>,
             \A t \in Mirrored : \A image \in Logged(t)' :
                 Latest(image, cursor, t)' => image \in Logged(t) /\ Latest(image, c, t)
      PROVE  OwedInv'
    <2>1. \A x, v : Owed(x, v)' <=> Owed(x, v)
        BY <1>4 DEF Owed
    <2>2. SUFFICES ASSUME status = "running", NEW t \in Mirrored, NEW image \in Logged(t)',
                          NEW field \in Imports[Name(t)].values, Latest(image, cursor, t)'
                   PROVE  Owed(Entry(t, image, field), FieldText(t, image, field))'
        BY <1>4 DEF OwedInv
    <2>3. image \in Logged(t) /\ Latest(image, cursor, t)
        BY <1>2, <1>4, <2>2
    <2>4. Owed(Entry(t, image, field), FieldText(t, image, field))
        BY <2>2, <2>3 DEF OwedInv
    <2>5. PICK x, v : x = Entry(t, image, field) /\ v = FieldText(t, image, field)
        OBVIOUS
    <2>6. Owed(x, v)'
        BY <2>1, <2>4, <2>5
    <2> QED
        BY <2>5, <2>6
\* The log grows behind the parser.
<1>5. ASSUME UNCHANGED <<cursor, lines, redis, status>>,
             \A u : \A i \in 1..n : Written(i, u)' = Written(i, u),
             \A u : Logged(u) \subseteq Logged(u)'
      PROVE  OwedInv'
    <2>1. ASSUME NEW t \in Mirrored, NEW image \in Logged(t)', Latest(image, cursor, t)'
          PROVE  image \in Logged(t) /\ Latest(image, c, t)
        <3>1. Latest(image, c, t)'
            BY <1>2, <1>5, <2>1 DEF Latest
        <3>2. \A i \in 1..c : i \in DOMAIN log /\ Written(i, t)' = Written(i, t)
            BY <1>3, <1>5
        <3> QED
            BY <1>5, <3>1, <3>2, LatestStays
    <2> QED
        BY <1>4, <1>5, <2>1
<1>6. ASSUME NEW t \in Tables, NEW kind, NEW images, Effect(t, kind, images),
             UNCHANGED <<types, ids, nextId, parser, sink, resumes, status>>
      PROVE  OwedInv'
    <2>1. LogRows(t, kind, images) /\ UNCHANGED <<ids, types>>
        BY <1>6 DEF Effect
    <2>2. UNCHANGED <<cursor, lines, redis, status>>
        BY <1>6 DEF parser, sink
    <2>3. /\ \A u : \A i \in 1..n : Written(i, u)' = Written(i, u)
          /\ \A u : Logged(u) \subseteq Logged(u)'
        BY <1>1, <1>2, <2>1, StatementWrites
    <2> QED
        BY <1>5, <2>2, <2>3
<1>7. ASSUME Restart PROVE OwedInv'
    <2>1. /\ \A u : \A i \in 1..n : Written(i, u)' = Written(i, u)
          /\ \A u : Logged(u) \subseteq Logged(u)'
        BY <1>1, <1>2, <1>7, RestartWrites
    <2>2. UNCHANGED <<cursor, lines, redis, status>>
        BY <1>7 DEF Restart, parser, sink
    <2> QED
        BY <1>5, <2>1, <2>2
<1>8. ASSUME UNCHANGED <<log, cursor, lines, redis, status>> PROVE OwedInv'
    <2>1. \A u : Logged(u)' = Logged(u) /\ \A i : Written(i, u)' = Written(i, u)
        BY <1>8, SameLog
    <2> QED
        BY <1>5, <1>8, <2>1
<1>9. ASSUME NEW t \in Tables, Alter(t) PROVE OwedInv'
    <2>1. UNCHANGED <<log, cursor, lines, redis, status>>
        BY <1>9 DEF Alter, parser, sink
    <2> QED
        BY <1>8, <2>1
<1>10. ASSUME UNCHANGED vars PROVE OwedInv'
    <2>1. UNCHANGED <<log, cursor, lines, redis, status>>
        BY <1>10 DEF vars, parser, sink
    <2> QED
        BY <1>8, <2>1
\* Nothing is parsed of a dump that begins again.
<1>11. ASSUME ReqBinlog PROVE OwedInv'
    <2>1. cursor' = 0 /\ UNCHANGED <<lines, redis, status>>
        BY <1>11 DEF ReqBinlog, sink
    <2>2. \A t : \A image : ~Latest(image, cursor, t)'
        BY <2>1 DEF Latest
    <2> QED
        BY <1>4, <2>1, <2>2
<1>12. ASSUME ParseFormatEvent \/ ParseTablemapEvent PROVE OwedInv'
    <2>1. /\ log' = log /\ cursor' = cursor + 1 /\ cursor < Len(log)
          /\ log[cursor + 1].type # "rows" /\ UNCHANGED <<lines, redis, status>>
        BY <1>12 DEF ParseFormatEvent, ParseTablemapEvent, Parsing, sink
    <2>2. \A u : Logged(u)' = Logged(u) /\ \A i : Written(i, u)' = Written(i, u)
        BY <2>1, SameLog
    <2>3. \A u : Written(c + 1, u) = {}
        BY <1>2, <2>1 DEF Written
    <2>4. ASSUME NEW t \in Mirrored, NEW image \in Logged(t)', Latest(image, cursor, t)'
          PROVE  image \in Logged(t) /\ Latest(image, c, t)
        <3>1. PICK d : d = c + 1
            OBVIOUS
        <3>2. Latest(image, d, t)'
            BY <1>2, <2>1, <2>4, <3>1 DEF Latest
        <3>3. d \in Nat /\ d >= c /\ \A i \in c + 1..d - 1 : Written(i, t)' = {}
            BY <1>3, <3>1
        <3>4. image \notin Written(d, t)'
            BY <2>2, <2>3, <3>1
        <3>5. Logged(t) \subseteq Logged(t)' /\ \A i \in 1..c : Written(i, t)' = Written(i, t)
            BY <2>2
        <3> QED
            BY <1>3, <2>2, <2>4, <3>2, <3>3, <3>4, <3>5, LatestBefore
    <2> QED
        BY <1>4, <2>1, <2>4
<1>13. ASSUME ParseRowEvent PROVE OwedInv'
    BY <1>13, ParsedOwes
<1>14. ASSUME SendData PROVE OwedInv'
    BY <1>14, SentOwes
<1> QED
    BY <1>1, <1>6, <1>7, <1>9, <1>10, <1>11, <1>12, <1>13, <1>14, Steps

\* AgreementInv holds in every reachable state: the log has the rows' images,
\* the last image of a row is what is in the table, and Redis has, or the queued
\* lines will give it, the last image that was parsed.
THEOREM MirrorAgreement ==
    ASSUME NamesApart, ColumnsExist, KeysApart
    PROVE  Spec => []AgreementInv
<1>1. Init => ContentIInv /\ OneImageInv /\ RowsInv /\ OwedInv
    <2> SUFFICES ASSUME Init PROVE ContentIInv /\ OneImageInv /\ RowsInv /\ OwedInv
        OBVIOUS
    <2>1. ContentIInv
        BY InitContent
    <2>2. log = <<Format>> /\ DOMAIN log = 1..1 /\ Format.type # "rows"
        BY DEF Init, Format
    <2>3. \A u : \A i \in DOMAIN log : Written(i, u) = {}
        BY <2>2 DEF Written
    <2>4. \A u : Logged(u) = {}
        BY <2>3 DEF Logged
    <2> QED
        BY <2>1, <2>3, <2>4 DEF OneImageInv, RowsInv, OwedInv
<1>2. /\ ContentIInv /\ OneImageInv /\ RowsInv /\ OwedInv /\ [Next]_vars
         => (ContentIInv /\ OneImageInv /\ RowsInv /\ OwedInv)'
    BY NextContent, NextOneImage, NextRows, NextOwed
<1>3. ContentIInv /\ OneImageInv /\ RowsInv /\ OwedInv => AgreementInv
    BY DEF ContentIInv, AgreementInv
<1> QED
    BY <1>1, <1>2, <1>3, PTL DEF Spec

\* Of the images logged for a key one is the last.
LEMMA LastImage ==
    ASSUME NEW n \in Nat, DOMAIN log = 1..n, NEW t, NEW k, \E written \in Logged(t) : written[1] = k
    PROVE  \E image \in Logged(t) : image[1] = k /\ Latest(image, n, t)
<1> DEFINE T == {i \in 1..n : \E written \in Written(i, t) : written[1] = k}
<1>1. T \in SUBSET Nat /\ T # {} /\ \A i \in T : i <= n
    BY DEF Logged
<1>2. PICK i \in T : \A j \in T : j <= i
    BY <1>1, Greatest
<1>3. PICK image \in Written(i, t) : image[1] = k
    BY <1>2
<1>4. image \in Logged(t)
    BY <1>2, <1>3 DEF Logged
<1>5. ASSUME NEW j \in i + 1..n, NEW later \in Logged(t), later \in Written(j, t)
      PROVE  later[1] # image[1]
    <2>1. i \in 1..n
        BY <1>2
    <2>2. j \in 1..n /\ j > i
        BY <2>1
    <2>3. j \notin T
        <3> HIDE DEF T
        <3> QED
            BY <1>2, <2>1, <2>2
    <2> QED
        BY <1>3, <1>5, <2>2, <2>3
<1> QED
    BY <1>2, <1>3, <1>4, <1>5 DEF Latest

\* The column that is read for a configured name, every definition has.
LEMMA ColumnLasts ==
    ASSUME ColumnsExist, NEW t \in Mirrored,
           NEW name \in Imports[Name(t)].values \cup {Imports[Name(t)].key}
    PROVE  Column(Name(t), name) \in Lasting
<1>1. /\ DOMAIN Filters[Name(t)] \subseteq Lasting
      /\ \E c \in DOMAIN Filters[Name(t)] : Filters[Name(t)][c] = name
    BY DEF ColumnsExist
<1>2. DOMAIN Filters[Name(t)] \in SUBSET Nat
    BY MirroredConfigs, FilterItem
<1>3. Column(Name(t), name) \in DOMAIN Filters[Name(t)]
    BY <1>1, <1>2, FirstFinds DEF Column
<1> QED
    BY <1>1, <1>3

\* LiveRowsMirrored in every reachable state: when all is parsed and sent, Redis
\* has the present values of each row written since the start.
THEOREM MirrorLiveRowsMirrored ==
    ASSUME NamesApart, ColumnsExist, KeysApart
    PROVE  Spec => []LiveRowsMirrored
<1>1. ASSUME MirrorInv, AgreementInv PROVE LiveRowsMirrored
    <2> SUFFICES ASSUME cursor = Len(log), lines = << >>, status = "running",
                        NEW t \in Mirrored, NEW k \in Keys,
                        Present(t, k), \E written \in Logged(t) : written[1] = k,
                        NEW field \in Imports[Name(t)].values
                 PROVE  LET image == Image(t, k, rows[t][k])
                        IN /\ Entry(t, image, field) \in DOMAIN redis
                           /\ redis[Entry(t, image, field)] = FieldText(t, image, field)
        BY DEF LiveRowsMirrored
    <2>1. Len(log) \in Nat /\ DOMAIN log = 1..Len(log)
        BY <1>1, LogBasics DEF MirrorInv
    <2>2. PICK image \in Logged(t) : image[1] = k /\ Latest(image, Len(log), t)
        <3>1. PICK n : n = Len(log)
            OBVIOUS
        <3> QED
            BY <2>1, <3>1, LastImage
    <2>3. t \in Tables
        BY MirroredConfigs
    <2>4. \A c \in Lasting : image[c] = Image(t, k, rows[t][k])[c]
        BY <1>1, <2>2, <2>3 DEF AgreementInv, RowsInv
    <2>5. Owed(Entry(t, image, field), FieldText(t, image, field))
        BY <1>1, <2>2 DEF AgreementInv, OwedInv
    <2>6. /\ Entry(t, image, field) \in DOMAIN redis
          /\ redis[Entry(t, image, field)] = FieldText(t, image, field)
        BY <2>5 DEF Owed
    <2>7. /\ Column(Name(t), Imports[Name(t)].key) \in Lasting
          /\ Column(Name(t), field) \in Lasting
        BY ColumnLasts
    <2>8. /\ Entry(t, Image(t, k, rows[t][k]), field) = Entry(t, image, field)
          /\ FieldText(t, Image(t, k, rows[t][k]), field) = FieldText(t, image, field)
        BY <2>4, <2>7 DEF Entry, FieldText
    <2> QED
        BY <2>6, <2>8
<1>2. MirrorInv /\ AgreementInv => LiveRowsMirrored
    BY <1>1
<1>3. Spec => []MirrorInv
    BY MirrorContent, PTL
<1> QED
    BY <1>2, <1>3, MirrorAgreement, PTL
=============================================================================
