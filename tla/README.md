# MySQL2other in TLA+

MySQL2other poses as a MySQL replica: it logs in to a MySQL server, asks for its
binlog, parses the row events in it and writes configured columns of configured
tables into Redis hashes.  This directory holds TLA+ models of the program, the
TLC runs that check them and TLAPS proofs about them.  Line numbers refer to
the files in `src/`.

## 1. The system

    MySQL server
        | connection: handshake by libmysqlclient, then raw packets
        v
    main's loop --> Packet --> NormalPacket --> Format / Table_map / Rows events
     (parser thread)                                |  rows become LineData,
                                                    v  filtered and cut
    EventDispatcher::PutLineData ---- per sink: line_data_queue_ + mutex_
        |
        +------ one task per sink and row --> ThreadPool's BlockingQueue
                                                    |
                        worker threads: RedisReserve::SendData
                                                    v
                        RedisConnector::ExecuteRedisCmd --> Redis server

There are 1 + N threads: the parser thread, which is `main`, and N pool threads.
They share the pool's task queue (its own mutex and condition variable) and, for
each sink, the sink's queue, its `cur_data_` and its connection, all under the
sink's mutex.  Nothing is persisted: not the binlog position, not the rows.

| component | code | state | operations |
|---|---|---|---|
| Thread pool | `thread_pool.*` | task queue, sleeping threads | `BlockingQueue::put`, `take`, `ThreadPool::Init`, `put`, `runInThread` |
| Event dispatcher and Redis sinks | `event_dispatcher.*`, `reserve_data.*` | `line_data_queue_`, `mutex_`, `cur_data_` | `EventDispatcher::PutLineData`, `RedisReserve::PutLineData`, `SendData` |
| Redis connector | `redis_connector.*` | `redis_`, `reply_`, `ret`, `tries` | constructor, `Connect`, `Auth`, `ExecuteRedisCmd` |
| Binlog session | `main.cpp`, `mysql_connector.*`, `Packet` of `packet.cpp` | file, position, `retry_cnt`, the answers about checksums, `alg_`, the socket, `body_buf_`, `body_len_` | `Connect`, `DisConnect`, `GetNowBinlogPos`, `CheckIsChecksumEnable`, `ReqBinlog`, `Packet::Init`, `Read`, `Parse` |
| Row events | `NormalPacket`, `event.*` | `table_id2tablemap_event`, the column types and metadata of each table map | `ParseFormatEvent`, `ParseTablemapEvent`, `ParseRowEvent` |
| Line data and filter | `line_data.*`, `filter.*` | a row's columns by index and by name | `Init`, `PushBack`, `ReserveSomeColumn`, lookups, `FilterData` |
| Value decoding | `ParseColumnValue`, `ReadMeta`, `util.*`, `my_decimal.*`, `memblock.*` | none (functions of bytes) | |
| Password decoding | `Base64Decode`, `DesDecrypt` | none | |
| Configuration | `config.*` | read once | `LoadMysqlConfig`, `LoadRedisConfig`, ... |
| Factory | `factory.*` | one registration | |

### What is hard here

- **Any worker sends any row.**  A task is the pair (sink, `SendData`) and carries
  no row; the row a worker sends is whatever is first in the sink's queue when
  it gets the mutex.  Rows stay in order only because the mutex is held for all
  of a row's commands and because tasks and rows are counted alike.
- **Two queues.**  The parser puts the row into the sink's queue and then the task
  into the pool's.  Between the two a worker may already take that row.
- **`SendData` may wait on `cond_`** for a row, in a pool thread.
- **Lost replies.**  A command whose reply was lost may have been executed.
- **Failures are ignored.**  `main` ignores what `Read` and `Parse` of a normal
  packet return; `SendData` ignores what `ExecuteRedisCmd` returns.
- **Buffers and variables outlive what they were filled for**: `body_buf_` keeps
  the last packet, `ret` the last connection's result, `metas_` an earlier table
  definition, `table_id2tablemap_event` the ids of an earlier server run.
- **Checksums** are the server's setting, which may change at any time.  The program asks
  for it twice at the start and never again; which events have a CRC behind them
  is said by the Format event of each file.
- **Large events**, of 16 MB and more, come in several packets, and the parser
  takes each packet for an event.
- **Bytes without marks**: a column in a Rows event begins where the type and the metadata
  of the column before it say that it ends.
- **Reconnections** request the position of the start again, and every fifth one
  the end of the log.
- **Column indexes** count from 1 in the configuration, from 0 in the vectors, and
  are renumbered when columns are dropped.

What makes each component correct: the pool never lets a task wait beside an idle
thread; the sinks deliver rows in the order they were put, each once; a Redis
command is retried a bounded number of times and its result says what happened;
a session passes over no event and takes a CRC off exactly where there is one; a row is decoded with the table definition it
was logged under and ends under the right key and fields.

## 2. The modules

| module | models | how |
|---|---|---|
| `ThreadPool` | the pool | `queue`, `waiting` (the workers asleep on the condition variable), `running` (the task each worker runs). `Put` notifies one sleeper if there is one, `Take` and `Wait` are the two outcomes of `take` by a thread that is awake, `SpuriousWake` is the library's freedom |
| `OrderedDelivery` | nothing: an abstract specification | each sink accepts rows and delivers them in order, every one once; two counters for each sink, `accepted` and `delivered` |
| `Pipeline` | dispatcher, pool and sinks | INSTANCEs `ThreadPool` for the pool and adds the parser, the sinks' queues, mutex and `cur_data_`, and SendData command by command |
| `RedisConnector` | one connector and the server it talks to | one action for each outcome of each call of hiredis |
| `EventReplay` | nothing: an abstract specification | events are applied in order from a position, again from there, or from one further on |
| `BinlogSession` | the parser thread as a replication client | a log of events 1, 2, ...; positions are event numbers; CRCs and parts of large events |
| `RowMirror` | the path of a row from the server's table to Redis | the server's tables and log, the parser's table maps, the configuration, the lines, Redis |
| `RowReader` | how the parser finds each column in the bytes of a Table_map and a Rows event | both events byte by byte as the server writes them, and the parser's positions in them, one action per column |
| `ColumnValues` | the bytes of one column and the text it becomes | an operator for each group of types, the server's encoding beside it; extended by `RowReader` |
| `Decimal` | `bin2decimal` and the text made of its words | operators; extended by `ColumnValues` |
| `Base64` | `Base64Decode` | a fold over the characters; checked by an ASSUME of `MCRowReader` |
| `ThreadPoolProofs`, `PipelineProofs`, `RedisConnectorProofs`, `BinlogSessionProofs`, `RowMirrorProofs` | | theorems |
| `RowMirrorRedisProofs` | | theorems about what Redis gets; extends `RowMirrorProofs` |
| `RowReaderProofs`, `RowReaderTextProofs` | | theorems: where a column is read; which text is made of it. The second extends the first |
| `MCRowMirror`, `MCRowReader` | | values of the constants for TLC |

`Pipeline` shows that queue, pool and workers behave like the FIFO queue
`OrderedDelivery`; `RowMirror` uses that result and sends lines in order from one
queue.

### ThreadPool (thread_pool.cpp)

The queue's mutex is held from the test of `while (queue_.empty())` to the pop, so
test and pop are one step.  A thread that was notified is simply awake again
(`Seeking`): it must get the mutex like every other and may find the queue empty.
`MaxQueue` bounds the queue in the model only; the code's queue has no bound.

### Pipeline (reserve_data.cpp, event_dispatcher.cpp)

Rows are numbered; row `n` of a sink has sequence number `n`.  For each row the
parser locks each sink in turn, appends, unlocks, and only then puts the task
(`PutLineData`, `PutTask`).  A worker takes a task, locks the sink (`PopLine`),
moves the first row to `cur_data_`, sends one command for each configured value
(`SendCommand`), each of which may fail without consequence, and unlocks
(`FinishLine`).  `SendCommand` reads `cur` again each time, as the code does.
A worker that found no row would sleep on the sink's `cond_`: the row is the guard
of `PopLine`, and `RowForEveryTask` shows that it is always there.
`MaxLines` bounds the rows.

### RedisConnector (redis_connector.cpp)

`ExecuteRedisCmd` with its loop of three tries (`MaxTries`, the constant of the
code), the reconnection in the loop, `Auth`, lost replies, error replies of the
kinds READONLY and NOSCRIPT, which return, and of other kinds, which do not.
The history variables say how often the server executed the command and what
faults occurred.  Only the last call is remembered: calls begin again for ever.

### BinlogSession (main.cpp, mysql_connector.cpp, packet.cpp)

`pc` follows `main`: connect, locate, ask and init (the two questions about
checksums), then request, read and parse in a loop, with drop between sessions.  A
file and position are the number of the event they start at; 0 is a position the
server does not know.  Uninitialised memory is a nondeterministic choice:
`binlog_pos` when `GetNowBinlogPos` failed, and `body_buf_` before the first packet.
`ReqBinlog` may leave an open connection that was never asked for a dump: when
`mysql_query` reconnects on its own, the socket changes behind the saved `fd`.

`Read` gets a whole event (`ReadEvent`), a Format event (`ReadFormat`), the first packet of
a large event or the rest of it (`ReadHead`, `ReadRest`), an error or EOF packet (`ReadFinal`),
nothing (`ReadNothing`), or the beginning of a packet over the bytes of an older one
(`ReadTorn`).  `Parse` handles what is in the buffer, new or not, and `ParseGarbage` may do
whatever such bytes could mean: set `alg_`, end the process, or nothing.

The server's setting (`checksum`) changes at any time; an event keeps the CRC
it was logged with (`summed`).  A file with CRCs is refused to a connection that did
not ask for them (`asked`).  `Strips` is the code's condition for taking four bytes
off an event: the second answer, and `alg_` of the last Format event.

`EventReplay` is what remains without packets, connections and buffers: events are
applied in order, possibly again from the position, and the position moves only
beyond what was applied.  `At` maps the session to it: the event in hand, the next one of
the stream, or the position of the next request.

### RowMirror (packet.cpp, event.cpp, line_data.cpp, filter.cpp, reserve_data.cpp, config.cpp)

The server changes rows, alters tables (new table id) and restarts (ids begin
again, new Format event).  Each statement logs a Table_map event for each table
it opens, and a Rows event.  The parser keeps table maps by id; `metas` grows and
is never cleared, as in the code.  A value read with a type or metadata other
than its own is `Garbage`, and everything after it in the row.  A line takes
`FilterData` and `ReserveSomeColumn` exactly as the code does, including the
names of a deletion.  A NEWDECIMAL value ends the process.  The keys the code
concatenates are sequences of tokens, so that two different keys are equal only
where the code's strings would be.

`FilterItems` and `ImportItems` are the lists of the configuration file.  `Filters` and `Imports`
are the maps the loading loops make of them, in which a repeated table or index
replaces the earlier one (`Assigned`).  `Kept` is the order in which `ReserveSomeColumn` walks
the map of a table's columns: that of their indexes.  `First` is the search for a name.

Four definitions say what a configuration must be like for the properties to hold; the program checks
none of them.  `NamesApart`: no other table's `database_table` is that of a configured one.
`ColumnsExist`: the columns that are kept exist in every definition a table
ever has, and what is imported is kept.  `KeysApart`: the configured key is the table's
primary key and a prefix belongs to one table.  `NothingFails`: what is kept is
imported, no configured table is called like its database (deleted rows look for that
name), and no column is a DECIMAL.

### RowReader (event.cpp, memblock.cpp, util.cpp)

Here the bytes are modelled.  `TablemapBytes` and `RowBytes` are what a MySQL 5.6 server
writes (external): post headers of both lengths, names, counts in the packed form, types,
metadata, extra data of the second version, a bitmap of present columns for
each image, null bits, values.  `ParseTablemap`, `ReadMeta`, `ParseRowHead`, `BeginRow`, `PushAbsent`,
`PushNull`, `PushValue`, `EndOld` and `EndRow` are the loops of `TablemapEvent::Parse`, `RowEvent::Parse`
and `ParseRow`.  An update's row has two images, each with null bits of its own, and
both go into one line.

`ScenariosAssumption` says which events there are: what each type may be declared as
(`Declared`: the metadata MySQL writes, up to 65 digits of a DECIMAL, six of a fraction, eight bytes of a SET),
what a column may hold (`Storable`: a value that is written as it is has its column's size, and one with a length
in front of it fits the length; a number, date, time or DECIMAL is in the range of its type: `InRange`, whose integers are both the
signed and the unsigned ones), at most 4096 columns, extra data that their two-byte length can count.  The images of an
event may contain any columns.  The instance of the run is one of these, and TLC evaluates the assumption.

`Readable` names the types that are read to the wrong place: the parser goes on
through the rest of the event as if nothing had happened, the model stops (`lost`).
`RowMirror` rests on what `RowReader` shows: with its own metadata, and
behind readable columns, a value is read as it was written.

### ColumnValues, Decimal and Base64 (event.cpp, util.cpp, my_decimal.cpp)

`ParseColumnValue` gives, for each type, by how much `pos` moves on and the text, as a tuple of
the numbers that are printed: a date is year, month and day, and how many zeros
they are printed with is left out.  `Encoded` is what the server writes.  A `char` is signed where the code has one.  TIME(n) goes
through the packed number, kept as its upper bits and its lower 24 bits.
The old types are decimal numbers with two digits for each part.  The server adds the eight bytes of a DATETIME up from
their halves (`OldDatetimeBytes`), and `uint8korr(buf) / 1000000` and `% 1000000` are a long division by bytes
(`Division`), since the number does not fit TLC's integers.
A text is right (`IsRead`) when it has the parts of the value; `WrongParts` names, part by part, those that the code
is known to print otherwise, so that everything else is checked: the day and the second of an old DATETIME, the second of
an old TIME and every part of a negative one, the sign of a negative TIME(n), unsigned values, YEAR 0000.

`Decimal` follows `bin2decimal`: the layout in groups of nine digits, sign and mask,
the words that are too large, leading zeros, the buffer of nine words.  Its text is
pushed before the missing `break` leads to the failing assertion, so the model
sees it and no user of the program does.  The code prints a point after every word but the last, wherever the decimal point
is, and these points are in the text.  `DecimalIsRead` asks for the right sign and the right words of every DECIMAL, and for the whole text
(`DecimalSpelled`, with one point, in front of the fraction, and a 0 in front of it if need be) where
no point is wrong: with at most one word and no fraction, or one word on each side.

`Base64Decode` is a fold over the characters with the state of its two loops.  A password
that is too long for the buffer is reported by a result nobody looks at.

## 3. The runs

| run | shows |
|---|---|
| `pool` | no lost wake-up (`WorkConserving`); every task put is run (`QueuedTaskRuns`) |
| `pipeline` | a worker that gets a sink's mutex finds a row (`RowForEveryTask`); the fields of a sink are those of the rows sent so far, in order, up to failed commands (`FieldsFollowRows`); no command writes a value of an older row over a newer one (`NoStaleOverwrite`); the pipeline implements `OrderedDelivery`, fairness included (`ImplementsDelivery`); the parser always gets the mutex (`ParserNotStarved`); the inductive invariant `IInv` |
| `redis_calls` | two faults are tolerated, a command is executed at most three times, a call returns 0 without an acknowledgement only when all tries were used up, and every call ends unless errors of another kind go on |
| `redis_zero` | violated: 0 is returned for a command that was never acknowledged |
| `redis_other` | violated: errors of another kind return |
| `session` | no event but large ones is passed over after the position last read from the server (`NoGap`) nor, before the fifth disconnection, after the first position (`LossNeedsFiveDrops`); a session does not start on an earlier session's packet (`SessionsStartClean`); a CRC is taken off an event if and only if it has one (`StripsChecksums`); once a dump lasts, all events are parsed (`StreamIsParsed`); the session implements `EventReplay` (`ImplementsReplay`); the inductive invariant `SessionInv` |
| `session_once` | violated: each packet is parsed once |
| `mirror` | every Rows event meets the table map of the definition it was logged under (`TableMapMatchesRows`); when everything is sent, the rows written and still there have their values in Redis (`LiveRowsMirrored`); Redis holds only values some row had, under its key (`RedisHoldsLoggedValues`); no assertion fails (`NoAbort`); the inductive invariants `MirrorInv` and `AgreementInv` |
| `mirror_delete` | violated: deleted rows leave Redis |
| `mirror_decimal` | violated: no assertion fails, with a DECIMAL column |
| `row_reader` | each column gets the type and metadata written for it (`MetasMatch`) and is read where it was written (`RowAligned`), and the text of each column of each image is its own (`TextsMatch`), but for the parts that `WrongParts` names; a DECIMAL's words are right, and its whole text where no point is wrong, and it is passed over right, up to the assertion (`DecimalsRead`); passwords come out of `Base64Decode` as they were (`PasswordsDecoded`, an assumption TLC evaluates) |
| `time_comment` | violated: negative TIME(2) values are decoded as a comment's table says |

### Bounds

- `pool`: three workers, two kinds of tasks, `MaxQueue` 4.  Wake-ups get lost, if at
  all, when a second `put` meets a thread that is already notified; four tasks and
  three threads give every such order.
- `pipeline`: three workers, two sinks, two values to a row, `MaxLines` 2: two rows for
  each sink make four tasks, more than there are workers, and two workers can
  contend for the rows of one sink with values half sent.  Liveness admits no
  symmetry, and the safety properties are proved for all values of the constants.
- `RedisConnector` has no bound but the code's own three tries; history counters
  stop at values that no property tells apart from greater ones.
- `session`: `MaxEvents` 3, of which the second is large: an event before, one after, and
  one still to come while another is in the buffer.  The changes of the setting and the disconnections are
  not bounded; `drops` stops counting at 5, where the code's counter turns over.
- `mirror`: two tables of the same name in different databases, two keys, two
  values, two schemas that differ in a column's type and in width; `MaxLog` 6
  events, so that a table map of each table, changes of the definition and a restart fit;
  `MaxIds` 3 table ids before a restart; `MaxResumes` 1 repeated dump; `MaxLag` 0:
  the server acts when the parser has caught up.  The parser reads only the log,
  which only grows, so what it does cannot depend on how far it is behind; lag
  would only multiply the states.
- `row_reader`: a column of every type and at each of its boundaries (VARCHAR of 255 and
  256 bytes, DATETIME from zero to the last second of 9999, CHAR of more than 255, each precision of the times, signs), alone in one and two rows, and in front of
  a TINY and of a long VARCHAR with every choice of present columns, which shows what it does to
  the next; updates with every two bitmaps; nine columns for the second byte of
  bits; 251 columns, where counts take three bytes; the short post header, extra data;
  DECIMALs of 1 to 65 digits at the bounds of words (zeros, nines, a digit at either end, both signs), among them one that fills
  all nine words.  Passwords of 0 to 4 and 62 to 66 bytes around the buffer's 64, each
  padded, unpadded, and with a line break or another character anywhere.
- The configurations of the mirror runs meet the hypotheses of the theorems: `MCWellConfigured` and
  `MCNothingFails`, assumptions that TLC evaluates.  (`mirror_decimal` has a DECIMAL and is without the last.)
- `CHECK_DEADLOCK FALSE` in the session runs because the process may exit, in the
  mirror runs because the log is full at the end and the process may be aborted, and in the reader
  runs because the event ends.

### Fairness

- Each worker and the parser are threads of a preemptive system: weak fairness
  on `ParserStep` and on `WorkerStep(w)` for each worker in `Pipeline`, and on `Take`, `Wait`
  and `Finish` of each worker in `ThreadPool`.  A thread that waits for a mutex is runnable
  only while the mutex is free, and pthreads promise it no turn, so nothing stronger is assumed.
  `ParserNotStarved` holds all the same because every row ends: when none is left the mutex
  stays free.  The rows are finitely many, so the property says that nothing
  is stuck, not that the mutex is fair under endless load.
- No fairness on `SpuriousWake`, nor on `Dispatch` (new rows need not come).
- `RedisConnector`: the worker runs on, and each call of hiredis returns, with a reply
  or without (the code sets no timeout: this relies on TCP ending a dead connection).
  Nothing is assumed about which of the two happens.
- `BinlogSession`: `main` runs on; `read` returns when the server has an event, a Format
  event or a part of a large one to send, when a request was refused, or when the connection is closed.  No fairness on the end of a dump that runs (`ReadFinal` otherwise), on the server's log, nor on
  anything that would make a lost connection come back; `StreamIsParsed`
  speaks of a dump that lasts.

## 4. The proofs

All theorems hold for every value of the constants that satisfies the module's
named ASSUME.

- **ThreadPoolProofs.**  `TypeOK` is inductive.  `WorkConserving` says that when workers
  sleep there are as many awake workers seeking a task as there are tasks, or
  more; it is inductive with `TypeOK`: `Put` adds a task and wakes a sleeper, `Wait` needs an
  empty queue.  The work is in the cardinalities.
- **PipelineProofs.**  The safety properties are not inductive: that a worker finds a row
  depends on how many tasks are on their way.  `IInv` adds (a) the order of
  rows: what was sent, what is in `cur_data_`, what is queued and what is still to be put are
  consecutive (`OrderInv`); (b) the count: for each sink, tasks in the pool's
  queue, in workers' hands before the pop, and the one the parser is about to put, are as many
  as the rows queued (`TaskInv`); (c) `cur_data_` changes only while the mutex is
  held.  From it follow `FieldsFollowRows`, `RowForEveryTask`, `NoStaleOverwrite` and that each
  step is a step of `OrderedDelivery` or a stutter (`PipelineImplementsDelivery`).
- **RedisConnectorProofs.**  `TypeOK` is inductive (`ConnectorTypeCorrect`).  `ConnectorInv` relates the tries to the faults and
  executions counted so far, at each place of the loop.
- **BinlogSessionProofs.**  `NoGap` alone is not inductive: the event in `body_buf_` may
  be parsed although an earlier one was not, unless one knows that what was sent on
  this connection since its request is parsed or in the buffer.  `SessionInv` adds that
  (`StreamInv`, `HandInv`), that only events of the log are parsed, so that moving on to its end
  leaves no gap behind the new position (`LoggedInv`), that nothing is parsed before the first position is
  read (`StartInv`), that the buffer holds no event between sessions (`BufferInv`), and that the
  position changes only with the fifth disconnection (`DropInv`).  For the checksums it says that what is parsed
  on a stream was just read from it (`FreshInv`), and that `alg_` is what the stream's last Format
  event said, once it is parsed and until a part of a large event came by, and that there are no CRCs
  unless they were asked for (`SumInv`); `SessionStripsChecksums` follows.  `SessionImplementsReplay` maps each step to
  one of `EventReplay`: parsing the event in hand is `Apply`, the rest of a large one is `Pass`,
  losing a stream is `Rewind`, the first position and the fifth disconnection are `Move`.
- **RowMirrorProofs, first half.**  `TableMapMatchesRows` speaks of the next event only.  `MirrorInv` adds what is true of the
  whole log: within a file, between two Format events, an id stands for one definition of one
  table (`FileInv`), because `Alter` takes an id no event of the file has (`IdsInv`, `LogInv`); in the last file the
  tables' ids stand for their present definitions (`CurrentInv`); a Rows event comes behind its
  Table_map event in its file (`MappedInv`); and the parser has the maps of the file it
  is in, and no others, each with its metadata at the front of `metas` (`MapsInv`).  That a map filled again keeps its
  metadata is `FileInv` once more: it is filled with the same.  The set of tables is finite; tables, rows,
  definitions, configuration and all bounds are arbitrary.

- **RowMirrorProofs, second half.**  `MirrorContent` is about what the log and the queue hold
  (`ContentInv`): an event's images are as wide as the definition it was logged under
  (`ImagesInv`), and every line in the queue has the names and the texts of the kept columns of one logged
  image of the table it names, or no names at all (`LinesInv`).  The first needs that rows
  fit their table's definition through every `ALTER TABLE` (`TablesOK`).  The second is the way
  of a row through the parser: the table map is the right one and has its metadata (`MirrorInv`), so every
  column is read as it was written (`RowIsRead`), a passing line is not a deletion's
  (its assertions would fail), and the kept columns are renumbered with their names (`LineIsImages`).
  Nothing is asked of the configuration.  `MirrorTypeOK` follows: `Texts` has no `Garbage`, so the type invariant
  says that no value read with a wrong type gets to the queue or to Redis.
- **RowMirrorRedisProofs.**  `MirrorRedisHoldsLoggedValues` needs `NamesApart` only: a line sent sets the entries of
  its own image, under the key that image has.  `MirrorNoAbort` needs `NamesApart`, `ColumnsExist` and
  `NothingFails`; its invariant is that every line in the queue can be sent.
  `MirrorLiveRowsMirrored` needs `NamesApart`, `ColumnsExist` and `KeysApart`.  It speaks of a state in which everything is parsed and
  sent; the invariant that leads there is `AgreementInv` (`MirrorAgreement`): the last image logged for a key is
  what the table has for that key, in the columns that every definition has (`RowsInv`);
  for the last image among the events parsed so far, Redis has its values and nothing in the queue sets them again, or the last
  line in the queue that sets them has them (`OwedInv`).  A repeated dump sets the parser back, and
  "parsed so far" with it; the older images it sends again are owed in their turn.  Within an event a
  key has one image (`OneImageInv`), or the order of its rows would decide.  When the queue is empty and everything is parsed,
  both last images are the same one.  `KeysApart` is what keeps the rows of two tables, or two rows of one, from
  being sent to the same hash.
  The hypotheses are on constants only; each instance of the mirror runs but `mirror_decimal`, which has a DECIMAL,
  satisfies them, and TLC checks that it does.

- **RowReaderProofs.**  The events are all those of `ScenariosAssumption`.  `EventInv` is what no step changes: the
  bytes are those of such an event.  `MetasAreMatched` adds `MetasInv`: the metadata read so far are those of the first
  columns, and the parser is behind them; `MetaRead` is the case by case comparison of `ReadMeta` with what the server
  writes.  `RowsAreAligned` is not inductive by itself: that the next column begins where this one ends depends on
  which null bit is the column's, that is on how many columns before it the image contains.  `RowsInv` says that
  `presentPos` is that count, that the bitmaps and the null bits the parser holds are those of the image it is in, that
  a line has as many texts as columns were passed, and that between rows the parser is at the place of the next
  one.  The step is `ColumnPassed`: by each type, `ParseColumnValue` moves on by as many bytes as the server wrote
  (`ParsedSize`, `EncodedSize`, for a DECIMAL `DecimalBytesSize`), unless the type is one that `Readable` leaves
  out.  `TypesAreRight` adds `RestInv`: bytes are bytes, the position stays in the event, and neither texts nor lines
  are more than there are columns and rows.

- **RowReaderTextProofs, the texts.**  `TextsAreMatched`: a finished line has, for each column of each image of its row, the text of the
  value stored there, but for the parts that `WrongParts` names.  The invariant `TextsInv` adds the line that is read: its texts are those of
  the columns passed, and nothing of a new image is read before the old one is complete (`LineTexts`).  That the parser is at the
  value's bytes is `RowsInv`; what it makes of them is `ValueRead`, type by type.  An integer, ENUM or length is read as it was
  written (`HighOfHighBytes` from the highest byte on, `SignedLowOfLowBytes` and the byte order reversed), the eight bytes of a BIGINT
  included, which TLC's own integers cannot hold.  A date or time is first packed into one number: `DateParts` and `TimeParts` give
  its parts again, and the bytes of a DATETIME(n) or TIME(n) are cut at 24 bits (`DatetimeParts`, `TimeUnpacked`).  A fraction is
  read as a `char` first (`FractionRead`): its first byte is below 128, since a fraction of one, two or three bytes has at most
  99, 9999 or 999999.
  A negative TIME(n) is the complement of a positive one and loses nothing but its sign (`AbsOfPacked`).  The old DATETIME is a
  number of 48 bits: the server's halves add up to `date * 1000000 + time` (`HalvesAre`), their bytes in the other order are
  that number's (`OldDatetimeIs`), and eight steps of the long division, of which the first four leave nothing over, give
  date and time back (`Divided`); of each, the code gets two parts right (`DatetimeRead`).
- **RowReaderTextProofs, DECIMALs.**  `DecimalsAreRead` is about every precision to 65, scale to 30, digits and sign: the sign and the words
  are right, and the whole text where no point is missing or too many.  The value is
  followed through the server and the parser.  The first bit is free, since a group never needs it (`DigitsFit`), so the sign that
  `bin2decimal` takes off gives back the bytes without it (`SignRead`).  Each group of nine digits is read as its number, behind
  those before it (`PlainIs`, `WordsRead`), which is never too large (`WordBound`); no declared DECIMAL is cut by the buffer of nine words
  (`LayoutIs`).  The words are those of the digits filled up to nines on both sides (`FilledWord`), the last one moved up to the point by `LastWord`,
  and the zeros `bin2decimal` leaves out are those in front (`PrintedIs`).  What is printed are these words in front of the point and behind it
  (`BothSides`), with a point after each but the last, which is the value's text if there is one on each side or nothing behind at most one
  (`PointedIsRead`).  `AbortReads` gives that the step into the failing
  assertion has that text and has moved on by the value's bytes.

Two lemmas of the mirror's proofs carry what would be an induction: `Least` and `Greatest` (a set of numbers with a bound has a
greatest element, by well-foundedness), from which `Increasing` gives that a finite set of
indexes can be listed in order, which is what the `CHOOSE` of `Kept` needs.
In `RowReaderProofs` and `RowReaderTextProofs` it is `LeastNumber` and `UpTo`: a set that has 0 and with
each number below n the next one has them all.  From it follow what `FlattenSeq` makes of sequences (each is read behind
those before it: `FlattenReads`), that the recursive functions of `High`, `SignedHigh` and `Number` exist and what they give
(`PlacesExists` and `NumberIs`, `SignedHighIs`, `NumberBound`), and what is in the products of the columns' values.

Only model-checked: everything about liveness and fairness (`QueuedTaskRuns`, the liveness
part of `ImplementsDelivery`, `ParserNotStarved`, `CallReturns`, `StreamIsParsed`), which is beyond the
prover; and `PasswordsDecoded`, a fold over characters that is compared text by text and would need induction over them.
Properties that are violated for good reasons (`DeletedRowsLeave`
and the others of section 5) are not proved either.

## 5. Where code and documentation part

Each is a run that TLC finds violated; details in `PROJECT.json`.

1. `ExecuteRedisCmd` returns 0 after three lost replies: `ret` still has the result of
   the reconnection (`redis_zero`).
2. An error reply that is neither READONLY nor NOSCRIPT neither returns nor counts,
   so the loop need not end, with the sink's mutex held (`redis_other`).
3. A `Read` that got nothing is followed by parsing the last packet again; when the
   server closes the connection behind a normal packet, for ever (`session_once`).
4. Deleted rows never leave Redis (`mirror_delete`).
5. A DECIMAL value ends the process: a missing `break` (`mirror_decimal`).
6. The fraction of a negative TIME(1) or TIME(2) is sign-extended and comes out wrong
   (`time_comment`), with the text it has after the packed number is taken apart.

Seen while modelling, without a text of the repository that says otherwise:

- After ALTER TABLE leaves fewer columns than the largest configured index, the assertion of `ReserveSomeColumn` fails
  at the table's next row (line_data.cpp:59): `NoAbort` is violated as soon as `Schemas` has such a definition, which
  `ColumnsExist` excludes.
- Two tables whose database and table names join to the same key (config.cpp:24) share a configuration; `NamesApart` excludes them.
- TIME(1), TIME(2), TIMESTAMP(1) and TIMESTAMP(2) leave the read position at the wrong byte; a GEOMETRY
  column ends its row.
- The old TIME prints hours and minutes for its seconds (`t / 100`), and so does the old DATETIME; its day is year and month
  (`d / 100`).  A negative old TIME is read as a large positive number, another time altogether.
- The sign of a negative TIME(n) is lost (event.cpp:673), and microseconds are printed without leading zeros, so that a
  fraction of .000005 reads as .5.
- A DECIMAL has a point after every word of nine digits but the last (event.cpp:621): one with more than nine digits before
  the point, or more than nine behind it, is printed as several numbers, and 0.5 has neither its 0 nor its point.  Only the failing assertion behind it
  (5. above) keeps these texts from the lines.
- An ENUM of one byte is negative from 128 on, YEAR 0000 is printed as 1900, unsigned values are printed as signed ones.
- Events of 16 MB and more are never parsed; if the two questions about checksums are answered yes and no, CRCs stay in
  the rows; the position of a Rotate event is kept and never used.

## 6. Not modelled, and why

- The characters that numbers, dates and words are printed with, and the digits of
  FLOAT and DOUBLE: formatting, which no property tells apart.  Text columns
  with a zero byte in them are sent to Redis by `%s` and end there; values with such bytes are not in the model of the commands.
- `DesDecrypt`, a call of OpenSSL; what it does with a password longer than its buffer is undefined.
- Reading the YAML file and copying connection settings; a missing entry ends the process
  before any thread exists.
- The factory: one registration and one lookup in `main`.
- Statements logged with `binlog_row_image` other than FULL are in `RowReader` as images that
  leave columns out; in `RowMirror` every image is full.
- What a parser that lost its place makes of the rest of an event (`lost`), and of a large event's
  second half beyond what `ParseGarbage` allows.
- A restart of the process: nothing is persisted, so a new process is a new run of the
  model, at whatever the log then is.  What it missed is lost by design.
- The end of the process with threads still running (`main` returns when a reconnection fails):
  static destructors and detached work are the implementation's.
- `Reconnect`, `KeepAlive` and the destructors, which are never called; the memory
  that events never free.
- Functions that end without a return value are undefined behaviour whose outcome
  no caller looks at.
- In `RowMirror` Redis commands succeed; failures are in `Pipeline` and `RedisConnector`.

## 7. Plan

Done, in this order: `ThreadPool`, `OrderedDelivery`, `Pipeline` with proofs, `RedisConnector` with proofs,
`BinlogSession` with proofs, `RowMirror`, `RowReader`; then checksums, large events and `EventReplay` with its refinement
proof, the bytes of whole events with `ColumnValues` and `Decimal`, `Base64`, the loading of the configuration, and
the proofs about `RowMirror`, up to what Redis holds, and about `RowReader`: where it reads, and which texts it makes.

What could follow:

1. `Pipeline` composed with `RedisConnector`: a sink whose call does not end, and the parser that
   needs its mutex.
2. `RowMirror` composed with `BinlogSession`: what Redis holds after connections were lost, by way of `EventReplay`.
3. An instance of `RowMirror` with two tables whose joined names are equal.
4. `RowMirror` over `RowReader`: that `RowMirror`'s value is the text of `RowReader`'s bytes, as a refinement instead of in words.
