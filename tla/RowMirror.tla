------------------------------ MODULE RowMirror ------------------------------
(***************************************************************************)
(* What becomes of a changed row: NormalPacket (packet.cpp), TablemapEvent  *)
(* and RowEvent (event.cpp), LineData, Filter and RedisReserve::SendData.   *)
(*                                                                         *)
(* The MySQL server is external: it changes rows and logs each change as    *)
(* Table_map events and one Rows event, whose images carry no names, only   *)
(* values in column order (binlog_row_image=FULL, the default of the MySQL  *)
(* 5.6 the README names).  A table id is good for one definition of one     *)
(* table until the server restarts and begins a new binlog file with a      *)
(* Format event.  A dump starts with a Format event too.                    *)
(*                                                                         *)
(* A column's type stands for the type byte and its metadata; a value can   *)
(* be decoded only with the type it was encoded with.  Names are sequences  *)
(* of tokens, so that the keys the code builds by concatenation are too.    *)
(* The queue and the worker threads between the parser and Redis are the    *)
(* FIFO queue that Pipeline shows them to be; Redis commands succeed.       *)
(***************************************************************************)
EXTENDS Naturals, SequencesExt

CONSTANTS Tables,      \* records with fields db and name
          Keys,        \* values of the first column, the primary key
          RowValues,   \* tuples of values for the other columns
          Schemas,     \* tuples of column types
          InitialSchema, InitialRows,  \* what tables may be like at first
          FilterItems, \* config.yaml, mysql: tuple of records with fields db, table
                       \* and reserve, a tuple of [index, name]
          ImportItems, \* config.yaml, redis: tuple of [db_table, prefix, key, values]
          MaxLog,      \* bound on the events logged
          MaxLag,      \* bound on the events the parser is behind the server
          MaxIds,      \* bound on the table ids used before a restart
          MaxResumes   \* bound on the dumps started again

ASSUME RowMirrorAssumption ==
    /\ IsFiniteSet(Tables)
    /\ Schemas \subseteq Seq(STRING) /\ InitialSchema \in Schemas
    /\ MaxLog \in Nat \ {0} /\ MaxLag \in Nat /\ MaxIds \in Nat /\ MaxResumes \in Nat

\* A primary key is never NULL, and a table has a column beside it.
ASSUME ValuesAssumption ==
    /\ IsFiniteSet(Keys) /\ Keys \subseteq STRING /\ "NULL" \notin Keys
    /\ RowValues \subseteq Seq(STRING) \ {<< >>}
    /\ \A schema \in Schemas : Len(schema) >= 2

\* Indexes are read from the file as uint32_t.
ASSUME ItemsAssumption ==
    /\ FilterItems \in Seq([db : Seq(STRING), table : Seq(STRING),
                            reserve : Seq([index : Nat, name : STRING])])
    /\ ImportItems \in Seq([db_table : Seq(STRING), prefix : Seq(STRING),
                            key : STRING, values : SUBSET STRING])

VARIABLES rows,        \* server: table -> key -> values, << >> if no such row
          types,       \* server: table -> types of its columns
          ids,         \* server: table -> table id
          nextId,      \* server: the next table id
          log,         \* the events the server sends from the position on
          cursor,      \* how many of them the parser has handled
          resumes,     \* dumps started again
          maps,        \* table_id2tablemap_event
          lines,       \* line_data_queue_
          redis,       \* <<hash, field>> -> value
          status       \* "running" or "aborted"

server == <<rows, types, ids, nextId>>
parser == <<cursor, maps>>
sink == <<lines, redis>>
vars == <<server, log, parser, sink, resumes, status>>

Null == "NULL"
Garbage == "?"         \* what decoding with a wrong type yields
NoRow == << >>

\* The text of a value in Redis: NULL becomes the empty string.
Text(value) == IF value = Null THEN "" ELSE value

\* LineData::GetDatabaseTableName and the key LoadMysqlConfig builds.
DbTable(db, name) == db \o <<"_">> \o name

\* A std::map after an assignment map[key] = value for each pair <<key, value>>
\* in turn: the last one for a key stays.
Assigned(pairs) ==
    LET LastOf(key) == CHOOSE i \in DOMAIN pairs :
            pairs[i][1] = key /\ \A j \in DOMAIN pairs : pairs[j][1] = key => j <= i
    IN [key \in {pairs[i][1] : i \in DOMAIN pairs} |-> pairs[LastOf(key)][2]]

\* reserve_columns[index] = name
LoadMysqlFilterConfig(item) ==
    Assigned([i \in DOMAIN item.reserve |-> <<item.reserve[i].index, item.reserve[i].name>>])

\* filter_configs, of which the last item of a table stays, and import_configs.
Filters ==
    Assigned([i \in DOMAIN FilterItems |->
                 <<DbTable(FilterItems[i].db, FilterItems[i].table),
                   LoadMysqlFilterConfig(FilterItems[i])>>])
Imports ==
    Assigned([i \in DOMAIN ImportItems |-> <<ImportItems[i].db_table, ImportItems[i]>>])

Format == [type |-> "format"]
MapEvent(t) == [type |-> "map", id |-> ids[t], table |-> t, types |-> types[t]]

-----------------------------------------------------------------------------
(* The server.                                                             *)

Present(t, k) == rows[t][k] # NoRow

\* The row as the binlog shows it; columns added later are NULL.
Image(t, k, row) ==
    [i \in 1..Len(types[t]) |->
        IF i = 1 THEN k ELSE IF i - 1 <= Len(row) THEN row[i - 1] ELSE Null]

\* A row cut to the width of a table with the given columns.
Cut(row, schema) == [i \in {j \in DOMAIN row : j < Len(schema)} |-> row[i]]

\* The rows a table can get, and all there can ever be.
NewRows(t) == {Cut(row, types[t]) : row \in RowValues}
Rows == {Cut(row, schema) : row \in RowValues, schema \in Schemas}

ASSUME InitialRowsAssumption == InitialRows \subseteq [Keys -> Rows \cup {NoRow}]

\* A statement that changes rows of t.  A statement on several tables, or with
\* a trigger, maps the others too.
LogRows(t, kind, images) ==
    \E others \in SUBSET (Tables \ {t}) :
        LET mapped == SetToSeq(others \cup {t})
        IN /\ Len(log) + Len(mapped) < MaxLog
           /\ log' = log \o [i \in DOMAIN mapped |-> MapEvent(mapped[i])]
                         \o <<[type |-> "rows", kind |-> kind, id |-> ids[t],
                               table |-> t, types |-> types[t], images |-> images]>>

\* One Rows event with one or several rows.
Insert(t) ==
    \E ks \in SUBSET {k \in Keys : ~Present(t, k)} :
    \E new \in [ks -> NewRows(t)] :
        /\ ks # {}
        /\ rows' = [rows EXCEPT ![t] = [k \in Keys |-> IF k \in ks THEN new[k] ELSE @[k]]]
        /\ LET order == SetToSeq(ks)
           IN LogRows(t, "insert", [i \in DOMAIN order |->
                  [old |-> << >>, new |-> Image(t, order[i], new[order[i]])]])
        /\ UNCHANGED <<types, ids, nextId, parser, sink, resumes, status>>

\* The key may change too.
Update(t) ==
    \E from, to \in Keys, new \in NewRows(t) :
        /\ Present(t, from)
        /\ to = from \/ ~Present(t, to)
        /\ rows' = [rows EXCEPT ![t] =
                        [k \in Keys |-> IF k = to THEN new ELSE IF k = from THEN NoRow ELSE @[k]]]
        /\ LogRows(t, "update", <<[old |-> Image(t, from, rows[t][from]),
                                   new |-> Image(t, to, new)]>>)
        /\ UNCHANGED <<types, ids, nextId, parser, sink, resumes, status>>

Delete(t) ==
    \E k \in Keys :
        /\ Present(t, k)
        /\ rows' = [rows EXCEPT ![t][k] = NoRow]
        /\ LogRows(t, "delete", <<[old |-> Image(t, k, rows[t][k]), new |-> << >>]>>)
        /\ UNCHANGED <<types, ids, nextId, parser, sink, resumes, status>>

\* ALTER TABLE: another definition under another table id.  The Query event that
\* logs it is one the parser passes over.
Alter(t) ==
    \E schema \in Schemas \ {types[t]} :
        /\ nextId <= MaxIds
        /\ types' = [types EXCEPT ![t] = schema]
        /\ rows' = [rows EXCEPT ![t] =
                        [k \in Keys |-> Cut(@[k], schema)]]
        /\ ids' = [ids EXCEPT ![t] = nextId]
        /\ nextId' = nextId + 1
        /\ UNCHANGED <<log, parser, sink, resumes, status>>

\* The server restarts: table ids start again, in the order of first use.
Restart ==
    /\ Len(log) < MaxLog
    /\ log' = Append(log, Format)
    /\ ids' \in Injection(Tables, 1..Cardinality(Tables))
    /\ nextId' = Cardinality(Tables) + 1
    /\ UNCHANGED <<rows, types, parser, sink, resumes, status>>

Server ==
    /\ Len(log) - cursor <= MaxLag
    /\ Restart \/ \E t \in Tables : Insert(t) \/ Update(t) \/ Delete(t) \/ Alter(t)

-----------------------------------------------------------------------------
(* The parser.                                                             *)

Parsing(type) ==
    /\ status = "running"
    /\ cursor < Len(log)
    /\ log[cursor + 1].type = type
    /\ cursor' = cursor + 1

Event == log[cursor + 1]

\* main drops the connection and requests the same position again.
ReqBinlog ==
    /\ status = "running"
    /\ cursor > 0
    /\ resumes < MaxResumes
    /\ resumes' = resumes + 1
    /\ cursor' = 0
    /\ UNCHANGED <<server, log, maps, sink, status>>

\* Mutant: the table maps survive a Format event.
KeepTablemaps ==
    /\ Parsing("format")
    /\ UNCHANGED <<server, log, maps, sink, resumes, status>>

\* NormalPacket::ParseFormatEvent forgets all table maps.
ParseFormatEvent ==
    /\ Parsing("format")
    /\ maps' = << >>
    /\ UNCHANGED <<server, log, sink, resumes, status>>

\* TablemapEvent::Parse: an event object found under the id is filled again,
\* but metas_ only ever grows.
Tablemap(metas) ==
    [table |-> Event.table, types |-> Event.types, metas |-> metas \o Event.types]

\* Mutant: only the last table map is kept.
OneTablemap ==
    /\ Parsing("map")
    /\ maps' = [id \in {Event.id} |-> Tablemap(<< >>)]
    /\ UNCHANGED <<server, log, sink, resumes, status>>

\* NormalPacket::ParseTablemapEvent.
ParseTablemapEvent ==
    /\ Parsing("map")
    /\ LET metas == IF Event.id \in DOMAIN maps THEN maps[Event.id].metas ELSE << >>
       IN maps' = [id \in DOMAIN maps \cup {Event.id} |->
                       IF id = Event.id THEN Tablemap(metas) ELSE maps[id]]
    /\ UNCHANGED <<server, log, sink, resumes, status>>

\* A column is read with the type and the metadata the table map has for it.
Readable(map, i) ==
    /\ i <= Len(map.types)
    /\ map.types[i] = Event.types[i]
    /\ map.metas[i] = Event.types[i]

\* RowEvent::ParseRow.  Past a value read with a wrong type the row is garbage.
ParseRow(map, image) ==
    [i \in DOMAIN image |->
        IF image[i] = Null THEN ""
        ELSE IF \A j \in 1..i : image[j] # Null => Readable(map, j) THEN image[i]
        ELSE Garbage]

\* RowEvent::ParseColumnValue: the NEWDECIMAL case falls through to TIMESTAMP2,
\* where the column's precision fails assert(dec <= DATETIME_MAX_DECIMALS).
Unparsable(map, image) ==
    \E i \in DOMAIN image : image[i] # Null /\ i <= Len(map.types) /\ map.types[i] = "decimal"

\* Mutant: an update's images are taken in the wrong order.
SwappedLine(map, image) ==
    LET images == IF Event.kind = "update" THEN [old |-> image.new, new |-> image.old] ELSE image
    IN [action |-> Event.kind,
        db_table |-> DbTable(map.table.db, IF Event.kind = "delete" THEN map.table.db
                                           ELSE map.table.name),
        names |-> << >>,
        old |-> IF Event.kind = "update" THEN ParseRow(map, images.old) ELSE << >>,
        new |-> ParseRow(map, IF Event.kind = "delete" THEN images.old ELSE images.new)]

\* The LineData that RowEvent::Parse makes of a row.  A deleted row is put under
\* the database's name twice, and its image among the new columns.
Line(map, image) ==
    [action |-> Event.kind,
     db_table |-> IF Event.kind = "delete" THEN DbTable(map.table.db, map.table.db)
                  ELSE DbTable(map.table.db, map.table.name),
     names |-> << >>,
     old |-> IF Event.kind = "update" THEN ParseRow(map, image.old) ELSE << >>,
     new |-> ParseRow(map, IF Event.kind = "delete" THEN image.old ELSE image.new)]

\* Mutant: assert(i->first < cnt).
IndexBelow(index, line) == index < Len(line.new)

\* assert(i->first <= cnt), cnt being the greater size.
IndexFits(index, line) ==
    index <= IF Len(line.old) > Len(line.new) THEN Len(line.old) ELSE Len(line.new)

\* The columns a line keeps, in the order of the map: that of their index.
Kept(line) ==
    LET indexes == DOMAIN Filters[line.db_table]
    IN CHOOSE kept \in [1..Cardinality(indexes) -> indexes] :
           \A i, j \in DOMAIN kept : i < j => kept[i] < kept[j]

\* LineData::ReserveSomeColumn meets no false assertion and no missing column.
Reservable(line) ==
    LET used == {c \in {"old", "new"} : \/ c = "old" /\ line.action # "insert"
                                        \/ c = "new" /\ line.action # "delete"}
    IN \A i \in DOMAIN Kept(line) :
           /\ IndexFits(Kept(line)[i], line)
           /\ \A c \in used : Kept(line)[i] \in DOMAIN line[c]

\* Mutant: the columns are counted from the first one, whatever their index.
ReserveFirstColumns(line) ==
    LET kept == Kept(line)
        Pick(column) == [i \in DOMAIN kept |-> column[i]]
    IN [line EXCEPT !.names = [i \in DOMAIN kept |-> Filters[line.db_table][kept[i]]],
                    !.old = IF line.action = "insert" THEN << >> ELSE Pick(@),
                    !.new = IF line.action = "delete" THEN << >> ELSE Pick(@)]

\* LineData::ReserveSomeColumn.
ReserveSomeColumn(line) ==
    LET kept == Kept(line)
        Pick(column) == [i \in DOMAIN kept |-> column[kept[i]]]
    IN IF kept = << >> THEN line
       ELSE [line EXCEPT !.names = [i \in DOMAIN kept |-> Filters[line.db_table][kept[i]]],
                         !.old = IF line.action = "insert" THEN << >> ELSE Pick(@),
                         !.new = IF line.action = "delete" THEN << >> ELSE Pick(@)]

\* Filter::FilterData keeps the lines of configured tables.
FilterData(line) == line.db_table \in DOMAIN Filters

\* RowEvent::Parse: the lines of an event's rows, those that pass the filter.
\* They are all of one table, so that they pass together.
PassedLines(map) ==
    LET all == [i \in DOMAIN Event.images |-> Line(map, Event.images[i])]
    IN IF \A i \in DOMAIN all : FilterData(all[i]) THEN all ELSE << >>

\* NormalPacket::ParseRowEvent and the dispatch in RowEvent::Parse.  Rows of an
\* unknown table id are lost; a false assertion ends the process.
ParseRowEvent ==
    /\ Parsing("rows")
    /\ IF Event.id \notin DOMAIN maps THEN UNCHANGED <<lines, status>>
       ELSE LET map == maps[Event.id]
                passed == PassedLines(map)
            IN IF /\ \A image \in ToSet(Event.images) :
                        ~Unparsable(map, image.old) /\ ~Unparsable(map, image.new)
                  /\ \A line \in ToSet(passed) : Reservable(line)
               THEN /\ lines' = lines \o [i \in DOMAIN passed |-> ReserveSomeColumn(passed[i])]
                    /\ UNCHANGED status
               ELSE status' = "aborted" /\ UNCHANGED lines
    /\ UNCHANGED <<server, log, maps, redis, resumes>>

-----------------------------------------------------------------------------
(* The sink.                                                               *)

\* LineData::GetColumnIndexByName finds the first column of that name.
First(names, name) ==
    CHOOSE i \in DOMAIN names :
        names[i] = name /\ \A j \in DOMAIN names : names[j] = name => i <= j
Named(line, name) == name \in ToSet(line.names)
ColumnByName(line, columns, name) == columns[First(line.names, name)]

\* Mutant: key_prefix is left out.
BareHash(config, key) == <<key>>

\* config.key_prefix + key
HashKey(config, key) == config.prefix \o <<key>>

\* GetColumnByIndex's assertion fails for an index of -1, and for the key ""
\* of the empty configuration that import_config_[...] makes up.
Sendable(line) ==
    /\ line.db_table \in DOMAIN Imports
    /\ Named(line, Imports[line.db_table].key)
    /\ line.action # "delete" => \A f \in Imports[line.db_table].values : Named(line, f)

\* RedisReserve::SendData: hset or hdel for each configured value.
SendData ==
    /\ status = "running"
    /\ lines # << >>
    /\ lines' = Tail(lines)
    /\ LET line == Head(lines)
           config == Imports[line.db_table]
           columns == IF line.action = "delete" THEN line.old ELSE line.new
           hash == HashKey(config, ColumnByName(line, columns, config.key))
           fields == {hash} \X config.values
       IN IF ~Sendable(line) THEN status' = "aborted" /\ UNCHANGED redis
          ELSE /\ redis' = IF line.action = "delete"
                           THEN [x \in DOMAIN redis \ fields |-> redis[x]]
                           ELSE [x \in DOMAIN redis \cup fields |->
                                    IF x \in fields THEN ColumnByName(line, columns, x[2])
                                    ELSE redis[x]]
               /\ UNCHANGED status
    /\ UNCHANGED <<server, log, parser, resumes>>

-----------------------------------------------------------------------------
Init ==
    /\ types = [t \in Tables |-> InitialSchema]
    /\ rows \in [Tables -> InitialRows]
    /\ ids \in Injection(Tables, 1..Cardinality(Tables))
    /\ nextId = Cardinality(Tables) + 1
    /\ log = <<Format>>
    /\ cursor = 0
    /\ resumes = 0
    /\ maps = << >>
    /\ lines = << >>
    /\ redis = << >>
    /\ status = "running"

Next ==
    \/ Server
    \/ ReqBinlog
    \/ ParseFormatEvent \/ ParseTablemapEvent \/ ParseRowEvent
    \/ SendData

Spec == Init /\ [][Next]_vars

-----------------------------------------------------------------------------
(* Properties.                                                             *)

Texts == Keys \cup {""} \cup UNION {ToSet(row) : row \in RowValues}
KeyPrefixes == {Imports[d].prefix : d \in DOMAIN Imports}
Hashes == {prefix \o <<text>> : prefix \in KeyPrefixes, text \in Texts}
Fields == UNION {Imports[d].values : d \in DOMAIN Imports}

TypeOK ==
    /\ \A t \in Tables : types[t] \in Schemas /\ ids[t] \in 1..nextId - 1
    /\ rows \in [Tables -> [Keys -> Rows \cup {NoRow}]]
    /\ cursor \in 0..Len(log) /\ Len(log) <= MaxLog
    /\ resumes \in 0..MaxResumes
    /\ \A id \in DOMAIN maps : maps[id].table \in Tables /\ maps[id].types \in Schemas
    /\ \A i \in DOMAIN lines : ToSet(lines[i].old) \cup ToSet(lines[i].new) \subseteq Texts
    /\ DOMAIN redis \subseteq Hashes \X Fields
    /\ \A x \in DOMAIN redis : redis[x] \in Texts
    /\ status \in {"running", "aborted"}

\* When a Rows event is next, its table id names the table map of the very
\* definition the rows were logged under, metadata included: through changes of
\* a table's definition, restarts that use the ids again, and repeated dumps.
TableMapMatchesRows ==
    status = "running" /\ cursor < Len(log) /\ Event.type = "rows" =>
        /\ Event.id \in DOMAIN maps
        /\ maps[Event.id].table = Event.table
        /\ maps[Event.id].types = Event.types
        /\ SubSeq(maps[Event.id].metas, 1, Len(Event.types)) = Event.types

\* The place of a column in a table, as the configuration has it.
Column(d, name) == First(Filters[d], name)
Name(t) == DbTable(t.db, t.name)
Mirrored ==
    {t \in Tables : /\ \E item \in ToSet(FilterItems) : item.db = t.db /\ item.table = t.name
                   /\ \E item \in ToSet(ImportItems) : item.db_table = Name(t)}

\* The row images that event i, or any event, logged for table t and not for a
\* deletion.
Written(i, t) ==
    IF log[i].type = "rows" /\ log[i].table = t /\ log[i].kind # "delete"
    THEN {image.new : image \in ToSet(log[i].images)} ELSE {}
Logged(t) == UNION {Written(i, t) : i \in DOMAIN log}

\* The entry image has in Redis for a field, and its value.
Entry(t, image, field) ==
    <<HashKey(Imports[Name(t)], Text(image[Column(Name(t), Imports[Name(t)].key)])), field>>
FieldText(t, image, field) == Text(image[Column(Name(t), field)])

\* Once everything logged is parsed and sent, each row that is in the table and
\* was written since the start has its present values in Redis.
LiveRowsMirrored ==
    cursor = Len(log) /\ lines = << >> /\ status = "running" =>
        \A t \in Mirrored, k \in Keys, field \in Fields :
            LET image == Image(t, k, rows[t][k])
            IN /\ Present(t, k)
               /\ \E written \in Logged(t) : written[1] = k
               /\ field \in Imports[Name(t)].values
               => /\ Entry(t, image, field) \in DOMAIN redis
                  /\ redis[Entry(t, image, field)] = FieldText(t, image, field)

\* Redis holds nothing but values that a row of a mirrored table had, under the
\* key of that row: no row of another table, no value of another row or column.
RedisHoldsLoggedValues ==
    \A x \in DOMAIN redis : \E t \in Mirrored : \E image \in Logged(t) :
        x = Entry(t, image, x[2]) /\ redis[x] = FieldText(t, image, x[2])

\* No assertion on the way of a row fails: the columns that the configuration
\* names exist, and every column has a type that can be parsed.
NoAbort == status = "running"

(* What the README says, and the code does not do.                         *)

\* "(Write|Update|Delete)_Rows_Event: insert, delete and update events", and
\* SendData's hdel: once everything is sent, no row that a deletion removed is
\* left in Redis.
DeletedRowsLeave ==
    cursor = Len(log) /\ lines = << >> /\ status = "running" =>
        \A t \in Mirrored, i \in DOMAIN log :
            log[i].type = "rows" /\ log[i].table = t /\ log[i].kind = "delete" =>
                \A image \in ToSet(log[i].images), field \in Imports[Name(t)].values :
                    ~Present(t, image.old[1]) => Entry(t, image.old, field) \notin DOMAIN redis

-----------------------------------------------------------------------------
(* The inductive invariant behind TableMapMatchesRows.                     *)

\* Event i names a table by its id; i and j are in one binlog file.
IsNamed(i) == log[i].type \in {"map", "rows"}
SameFile(i, j) == \A k \in i + 1..j : log[k].type # "format"

\* The tables' present ids are different, and none will be given again in this file.
IdsInv ==
    /\ types \in [Tables -> Schemas] /\ ids \in [Tables -> Nat] /\ nextId \in Nat
    /\ \A t \in Tables : ids[t] < nextId
    /\ \A t, u \in Tables : ids[t] = ids[u] => t = u

LogInv ==
    /\ log \in Seq(ToSet(log)) /\ Len(log) > 0 /\ log[1].type = "format"
    /\ \A i \in DOMAIN log : IsNamed(i) =>
        /\ log[i].table \in Tables /\ log[i].types \in Schemas /\ log[i].id \in Nat
        /\ SameFile(i, Len(log)) => log[i].id < nextId

\* An id means one definition of one table throughout a file.
FileInv ==
    \A i, j \in DOMAIN log :
        i <= j /\ IsNamed(i) /\ IsNamed(j) /\ SameFile(i, j) /\ log[i].id = log[j].id
            => log[i].table = log[j].table /\ log[i].types = log[j].types

\* In the last file a present id means the present definition.
CurrentInv ==
    \A i \in DOMAIN log, t \in Tables :
        IsNamed(i) /\ SameFile(i, Len(log)) /\ log[i].id = ids[t]
            => log[i].table = t /\ log[i].types = types[t]

\* Before rows comes their table map.
MappedInv ==
    \A j \in DOMAIN log : log[j].type = "rows" =>
        \E i \in 1..j - 1 : log[i].type = "map" /\ log[i].id = log[j].id /\ SameFile(i, j)

\* The parser has the table maps of the file it is in, and no others.
MapsInv ==
    /\ cursor \in 0..Len(log)
    /\ \A i \in 1..cursor : log[i].type = "map" /\ SameFile(i, cursor) => log[i].id \in DOMAIN maps
    /\ cursor > 0 => \A id \in DOMAIN maps :
        \E i \in 1..cursor :
            /\ log[i].type = "map" /\ log[i].id = id /\ SameFile(i, cursor)
            /\ maps[id].table = log[i].table /\ maps[id].types = log[i].types
            /\ maps[id].metas \in Seq(STRING) /\ Len(maps[id].metas) >= Len(log[i].types)
            /\ \A c \in 1..Len(log[i].types) : maps[id].metas[c] = log[i].types[c]

\* Ids, definitions and table maps belong together: in each binlog file an id
\* stands for one definition, the tables' present ids for their present ones, and
\* table_id2tablemap_event has the maps of the parser's file and no others.
MirrorInv == IdsInv /\ LogInv /\ FileInv /\ CurrentInv /\ MappedInv /\ MapsInv

-----------------------------------------------------------------------------
(* What the configuration must be like for the properties to hold, whatever *)
(* the tables and rows are.  The program checks none of it.                 *)

\* The columns that every definition has.
Lasting == {c \in 1..Len(InitialSchema) : \A schema \in Schemas : c <= Len(schema)}

\* No other table's joined name is that of a configured one.
NamesApart ==
    \A item \in ToSet(FilterItems), t \in Tables :
        DbTable(item.db, item.table) = Name(t) => item.db = t.db /\ item.table = t.name

\* What is kept of a table, all definitions have; what is imported, is kept.
ColumnsExist ==
    \A t \in Mirrored :
        LET names == Filters[Name(t)]
            import == Imports[Name(t)]
        IN /\ DOMAIN names \subseteq Lasting
           /\ import.values \cup {import.key} \subseteq {names[c] : c \in DOMAIN names}

\* Keys tell rows apart: the key is the primary key and the prefix the table's own.
KeysApart ==
    /\ \A t \in Mirrored : Column(Name(t), Imports[Name(t)].key) = 1
    /\ \A t, u \in Mirrored : Imports[Name(t)].prefix = Imports[Name(u)].prefix => t = u

\* What is kept is imported, no configured table is called like its database, as
\* deleted rows are, and no column is a DECIMAL.
NothingFails ==
    /\ \A t \in Tables : Name(t) \in DOMAIN Filters => Name(t) \in DOMAIN Imports
    /\ \A t \in Tables : DbTable(t.db, t.db) \notin DOMAIN Filters
    /\ \A schema \in Schemas : "decimal" \notin ToSet(schema)

WellConfigured == NamesApart /\ ColumnsExist /\ KeysApart /\ NothingFails

-----------------------------------------------------------------------------
(* The inductive invariants behind the properties about Redis.             *)

Values == Keys \cup {Null} \cup UNION {ToSet(row) : row \in RowValues}
IsImage(image, width) ==
    DOMAIN image = 1..width /\ (\A c \in 1..width : image[c] \in Values) /\ image[1] \in Keys

\* The images of an event are as wide as the definition it was logged under.
AreImages(images, kind, width) ==
    /\ images \in Seq(ToSet(images))
    /\ \A image \in ToSet(images) :
        /\ IF kind = "insert" THEN image.old = << >> ELSE IsImage(image.old, width)
        /\ IF kind = "delete" THEN image.new = << >> ELSE IsImage(image.new, width)
ImagesInv ==
    \A i \in DOMAIN log : log[i].type = "rows" =>
        /\ log[i].kind \in {"insert", "update", "delete"}
        /\ AreImages(log[i].images, log[i].kind, Len(log[i].types))

\* A line in the queue has the names and the values of a logged image, or no
\* columns at all: a deleted row's never pass.
LineOf(line, t, image) ==
    /\ line.action # "delete"
    /\ line.db_table = Name(t) /\ Name(t) \in DOMAIN Filters
    /\ line.names = [c \in DOMAIN Kept(line) |-> Filters[Name(t)][Kept(line)[c]]]
    /\ line.new = [c \in DOMAIN Kept(line) |-> Text(image[Kept(line)[c]])]
LinesInv ==
    /\ lines \in Seq(ToSet(lines))
    /\ \A i \in DOMAIN lines :
        lines[i].names = << >> \/ \E t \in Tables : \E image \in Logged(t) :
                                      LineOf(lines[i], t, image)

\* The log holds images in full, the queue the kept columns of them.
ContentInv == ImagesInv /\ LinesInv

\* The image is the last one that the first n events have for its key.
Latest(image, n, t) ==
    \E i \in 1..n : /\ image \in Written(i, t)
                   /\ \A j \in i + 1..n, later \in Logged(t) :
                          later \in Written(j, t) => later[1] # image[1]

\* An event has one image for a key.
OneImageInv ==
    \A i \in DOMAIN log, t \in Tables : \A a, b \in Written(i, t) : a[1] = b[1] => a = b

\* What is in a table is what was logged last.
RowsInv ==
    \A t \in Tables : \A image \in Logged(t) :
        /\ Latest(image, Len(log), t)
        /\ Present(t, image[1])
        => \A c \in Lasting : image[c] = Image(t, image[1], rows[t][image[1]])[c]

\* Sending the line sets the entry x of Redis.
Sets(line, x) ==
    /\ Sendable(line)
    /\ x[1] = HashKey(Imports[line.db_table],
                      ColumnByName(line, line.new, Imports[line.db_table].key))
    /\ x[2] \in Imports[line.db_table].values

\* Once the queue is empty, Redis will have the value for the entry.
Owed(x, value) ==
    \/ \E i \in DOMAIN lines :
          /\ Sets(lines[i], x) /\ ColumnByName(lines[i], lines[i].new, x[2]) = value
          /\ \A j \in DOMAIN lines : j > i => ~Sets(lines[j], x)
    \/ /\ x \in DOMAIN redis /\ redis[x] = value
       /\ \A j \in DOMAIN lines : ~Sets(lines[j], x)

\* Of what was parsed, Redis gets the last image of each row.
OwedInv ==
    status = "running" =>
        \A t \in Mirrored : \A image \in Logged(t), field \in Imports[Name(t)].values :
            Latest(image, cursor, t) => Owed(Entry(t, image, field), FieldText(t, image, field))

\* Tables, log, queue and Redis agree about each row: through changed keys,
\* changed definitions, and dumps that repeat old images.
AgreementInv == ContentInv /\ OneImageInv /\ RowsInv /\ OwedInv
=============================================================================
