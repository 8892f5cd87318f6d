----------------------------- MODULE MCRowReader -----------------------------
\* Columns of every kind, alone, before another one and in updates; tables that
\* are wider than a byte of the null bitmap, and wider than 250 columns.
EXTENDS RowReader, Base64

Of(type, meta, values) == [type |-> type, meta |-> meta, values |-> values \cup {Null}]
NotNull(type, meta, values) == [type |-> type, meta |-> meta, values |-> values]
Zeros(n) == [i \in 1..n |-> 0]

Tiny == Of(T.TINY, 0, {<<-1>>})
Varchar(n) == Of(T.VARCHAR, n, {<<7>>, <<65, 66>>})
Columns ==
    {Tiny, Of(T.TINY, 0, {<<127>>, <<200>>}), Of(T.SHORT, 0, {<<-2>>, <<258>>}),
     Of(T.INT24, 0, {<<-65537>>, <<65536>>}), Of(T.LONG, 0, {<<-16909060>>, <<16909060>>}),
     Of(T.LONGLONG, 0, {<<-1>>, <<16909060>>}), Of(T.DOUBLE, 8, {Zeros(8)}),
     Varchar(255), Varchar(256), Of(T.BLOB, 1, {<<1>>}), Of(T.BLOB, 2, {Empty, <<1>>}),
     Of(T.BLOB, 4, {<<3, 3>>}),
     Of(T.STRING, 254 * 256 + 20, {<<2>>}), Of(T.STRING, 238 * 256 + 44, {<<2>>}),
     Of(T.STRING, T.ENUM * 256 + 1, {<<3>>, <<128>>}), Of(T.STRING, T.ENUM * 256 + 2, {<<300>>}),
     Of(T.STRING, T.SET * 256 + 1, {<<5>>}), Of(T.BIT, 1 * 256 + 1, {<<1, 9>>}),
     Of(T.GEOMETRY, 4, {<<1, 1>>}), Of(T.YEAR, 0, {<<0>>, <<1901>>, <<2155>>}),
     Of(T.DATE, 0, {<<2019, 12, 31>>}), Of(T.TIME, 0, {<<0, 1, 2, 3>>, <<0, 838, 59, 59>>, <<1, 0, 0, 1>>}), Of(T.TIMESTAMP, 0, {<<16909060>>}),
     Of(T.DATETIME, 0, {Zeros(6), <<1000, 1, 1, 0, 0, 1>>, <<2019, 6, 15, 12, 30, 1>>,
                          <<9999, 12, 31, 23, 59, 59>>}),
     Of(T.TIME2, 0, {<<0, 838, 59, 59, 0>>, <<1, 0, 0, 1, 0>>}),
     Of(T.TIME2, 4, {<<1, 0, 0, 0, 100>>, <<1, 1, 2, 3, 0>>, <<0, 1, 2, 3, 999900>>}),
     Of(T.TIME2, 6, {<<1, 1, 2, 3, 1>>, <<0, 0, 0, 0, 999999>>}), Of(T.TIME2, 2, {<<0, 0, 0, 1, 10000>>}),
     Of(T.TIMESTAMP2, 0, {<<16909060, 0>>}), Of(T.TIMESTAMP2, 3, {<<16909060, 999000>>}),
     Of(T.TIMESTAMP2, 6, {<<16909060, 1>>}), Of(T.TIMESTAMP2, 2, {<<16909060, 0>>}),
     Of(T.DATETIME2, 0, {<<1000, 1, 1, 0, 0, 0, 0>>, <<9999, 12, 31, 23, 59, 59, 0>>}),
     Of(T.DATETIME2, 2, {<<2019, 6, 15, 12, 30, 1, 990000>>}),
     Of(T.DATETIME2, 5, {<<2019, 6, 15, 12, 30, 1, 999990>>})}

\* DECIMALs at the bounds of words and bytes: zeros, nines, one digit.
Digits(n) ==
    {Zeros(n), [i \in 1..n |-> 9], [i \in 1..n |-> i % 10],
     [i \in 1..n |-> IF i = 1 THEN 1 ELSE 0], [i \in 1..n |-> IF i = n THEN 1 ELSE 0]}
Decimals(precision) ==
    {<<0>> \o d : d \in Digits(precision)} \cup {<<1>> \o d : d \in Digits(precision) \ {Zeros(precision)}}
DecimalColumns ==
    {NotNull(T.NEWDECIMAL, p * 256 + s, Decimals(p)) : <<p, s>> \in
        {<<p, s>> \in {1, 2, 9, 10, 11, 18, 19, 36, 55, 65} \X {0, 1, 2, 9, 10, 28, 30} : s <= p}}

Scenario(row, choices, codes, numbers) ==
    [columns |-> row, presents |-> choices, cmds |-> codes, rows |-> numbers,
     headLen |-> 8, extra |-> << >>]
All(row) == {DOMAIN row}
Some(row) == SUBSET DOMAIN row \ {{}}

Mixed == <<Tiny, Of(T.BLOB, 1, {<<1, 2>>}), NotNull(T.SHORT, 0, {<<-2>>})>>
Nine == [i \in 1..9 |-> IF i = 9 THEN Of(T.YEAR, 0, {<<1909>>}) ELSE NotNull(T.TINY, 0, {<<i>>})]
Wide == [i \in 1..251 |-> IF i \in {1, 251} THEN NotNull(T.VARCHAR, 9, {<<7, 7>>})
                          ELSE NotNull(T.FLOAT, 4, {<<0, 0, 0, 64>>})]

MCScenarios ==
    {Scenario(<<c>>, All(<<c>>), {23}, {1, 2}) : c \in Columns \cup DecimalColumns}
    \cup {Scenario(<<c, d>>, Some(<<c, d>>), {30}, {1}) : c \in Columns, d \in {Tiny, Varchar(256)}}
    \cup {Scenario(Mixed, Some(Mixed), {24}, {1}), Scenario(Mixed, All(Mixed), {31}, {2}),
          Scenario(Nine, Some(Nine), {32}, {1}), Scenario(Wide, All(Wide), {30}, {1}),
          [Scenario(Mixed, Some(Mixed), {25, 30}, {1}) EXCEPT !.headLen = 6, !.extra = <<1, 2, 3>>]}

\* The negative times of the comment in parse_time_packed_from_binary.
CommentScenarios ==
    LET row == <<Of(T.TIME2, 2, {<<0, 0, 0, 0, 0>>, <<1, 0, 0, 0, 10000>>, <<1, 0, 0, 0, 990000>>,
                                     <<1, 0, 0, 1, 0>>, <<1, 0, 0, 1, 10000>>, <<1, 0, 0, 1, 100000>>}),
                     Tiny>>
    IN {Scenario(row, Some(row), {23}, {1})}

\* Passwords around the end of a group and of the buffer.
MCTexts == {[i \in 1..n |-> (83 * i + 250) % 256] : n \in (0..4) \cup (62..66)} \cup {<<0>>, <<255, 255>>}
ASSUME PasswordsDecoded == PasswordDecoded
=============================================================================
