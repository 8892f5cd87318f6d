--------------------------- MODULE RowMirrorProofs ---------------------------
(***************************************************************************)
(* Proofs about the log, the parser and the queue of RowMirror, for any     *)
(* tables, definitions, rows, configuration, filters and bounds.            *)
(*                                                                         *)
(* The first half proves that every Rows event meets the table map of the   *)
(* definition it was logged under.  The log is what carries the argument:   *)
(* in each file an id stands for one definition (FileInv), because Alter    *)
(* takes an id that no event of the file has (IdsInv, LogInv), and the      *)
(* tables' present ids stand for their present definitions (CurrentInv).    *)
(* The parser's maps are those of the events it handled since the last      *)
(* Format event (MapsInv), and a Rows event comes behind its Table_map      *)
(* event in the same file (MappedInv).                                      *)
(*                                                                         *)
(* The second half is about what the log and the queue hold: the events'    *)
(* images are as wide as their definitions, every line in the queue has the *)
(* kept columns of a logged image (ContentInv), and with them TypeOK.  Its  *)
(* lemmas come in the order of a row's way: the maps of the configuration   *)
(* and the columns it keeps, rows cut to a definition's width, statements   *)
(* and the events they log, the lines RowEvent::Parse makes of them, and    *)
(* the lines SendData takes off the queue.                                  *)
(***************************************************************************)
EXTENDS RowMirror, FiniteSetTheorems, SequenceTheorems, WellFoundedInduction, TLAPS

-----------------------------------------------------------------------------
(* Sequences.                                                              *)

\* A sequence is one of its own elements.
LEMMA SeqOfOwnElements ==
    ASSUME NEW S, NEW s \in Seq(S)
    PROVE  s \in Seq(ToSet(s))
<1>1. Len(s) \in Nat /\ s \in [1..Len(s) -> S] /\ DOMAIN s = 1..Len(s)
    BY LenProperties
<1>2. s \in [1..Len(s) -> ToSet(s)]
    BY <1>1 DEF ToSet
<1> QED
    BY <1>1, <1>2, SeqDef

\* What SetToSeq makes of a finite set has all its elements, and no others.
LEMMA SetToSeqCovers ==
    ASSUME NEW S, IsFiniteSet(S)
    PROVE  /\ SetToSeq(S) \in Seq(S)
           /\ DOMAIN SetToSeq(S) = 1..Len(SetToSeq(S))
           /\ \A x \in S : \E i \in 1..Len(SetToSeq(S)) : SetToSeq(S)[i] = x
<1> DEFINE n == Cardinality(S)
           f == SetToSeq(S)
<1>1. n \in Nat /\ ExistsBijection(1..n, S)
    BY FS_CardinalityType
<1>2. \E g \in [1..n -> S] : IsInjective(g)
    BY <1>1 DEF ExistsBijection, Bijection, Injection
<1>3. f \in [1..n -> S] /\ IsInjective(f)
    BY <1>2 DEF SetToSeq
<1>4. IsFiniteSet(1..n) /\ Cardinality(1..n) = n
    BY <1>1, FS_Interval
<1>5. f \in Injection(1..n, S)
    BY <1>3 DEF Injection
<1>6. f \in Surjection(1..n, S)
    <2>1. Cardinality(1..n) = Cardinality(S) <=> f \in Surjection(1..n, S)
        BY <1>5, FS_Injection
    <2> QED
        BY <2>1, <1>4
<1>7. f \in Seq(S)
    BY <1>1, <1>3, SeqDef
<1>8. DOMAIN f = 1..n /\ DOMAIN f = 1..Len(f)
    BY <1>3, <1>7, LenProperties
<1>9. \A x \in S : \E i \in DOMAIN f : f[i] = x
    BY <1>6, <1>8 DEF Surjection
<1> QED
    BY <1>7, <1>8, <1>9

\* A sequence with another behind it.
LEMMA Concatenation ==
    ASSUME NEW S, NEW s \in Seq(S), NEW T, NEW b \in Seq(T), NEW c, c = s \o b
    PROVE  /\ c \in Seq(S \cup T)
           /\ Len(c) = Len(s) + Len(b)
           /\ \A i \in 1..Len(s) : c[i] = s[i]
           /\ \A i \in Len(s) + 1..Len(s) + Len(b) : c[i] = b[i - Len(s)]
<1>1. s \in Seq(S \cup T) /\ b \in Seq(S \cup T)
    BY SeqMonotonic
<1>2. Len(s) \in Nat /\ Len(b) \in Nat
    BY LenProperties
<1>3. c \in Seq(S \cup T)
    BY <1>1, ConcatProperties
<1>4. Len(c) = Len(s) + Len(b)
    BY <1>1, ConcatProperties
<1>5. \A i \in 1..Len(s) + Len(b) : c[i] = IF i <= Len(s) THEN s[i] ELSE b[i - Len(s)]
    BY <1>1, ConcatProperties
<1>6. /\ \A i \in 1..Len(s) : c[i] = s[i]
      /\ \A i \in Len(s) + 1..Len(s) + Len(b) : c[i] = b[i - Len(s)]
    BY <1>2, <1>5
<1> QED
    BY <1>3, <1>4, <1>6

\* A sequence with another and one more element behind it.
LEMMA BlockAndElement ==
    ASSUME NEW S, NEW s \in Seq(S), NEW T, NEW b \in Seq(T), NEW e,
           NEW c, c = s \o b \o <<e>>,
           NEW n, n = Len(s), NEW m, m = Len(b)
    PROVE  /\ n \in Nat /\ m \in Nat
           /\ c \in Seq(S \cup T \cup {e}) /\ Len(c) = n + m + 1
           /\ \A i \in 1..n : c[i] = s[i]
           /\ \A i \in n + 1..n + m : c[i] = b[i - n]
           /\ c[n + m + 1] = e
<1> DEFINE d == s \o b
           l == <<e>>
<1>1. n \in Nat /\ m \in Nat
    BY LenProperties
<1>2. l \in Seq({e}) /\ Len(l) = 1 /\ l[1] = e
    OBVIOUS
<1>3. c = d \o l
    OBVIOUS
<1> HIDE DEF d, l
<1>4. /\ d \in Seq(S \cup T) /\ Len(d) = n + m
      /\ \A i \in 1..n : d[i] = s[i]
      /\ \A i \in n + 1..n + m : d[i] = b[i - n]
    <2>1. d = s \o b
        BY DEF d
    <2>2. /\ d \in Seq(S \cup T)
          /\ Len(d) = Len(s) + Len(b)
        BY <2>1, Concatenation
    <2>3. \A i \in 1..Len(s) : d[i] = s[i]
        BY <2>1, Concatenation
    <2>4. \A i \in Len(s) + 1..Len(s) + Len(b) : d[i] = b[i - Len(s)]
        BY <2>1, Concatenation
    <2> QED
        BY <2>2, <2>3, <2>4
<1>5. /\ c \in Seq(S \cup T \cup {e}) /\ Len(c) = n + m + 1
      /\ \A i \in 1..n + m : c[i] = d[i]
      /\ \A i \in n + m + 1..n + m + 1 : c[i] = l[i - (n + m)]
    <2> DEFINE U == S \cup T \cup {e}
    <2>1. l \in Seq(U) /\ d \in Seq(U)
        BY <1>2, <1>4, SeqMonotonic
    <2> HIDE DEF U
    <2>2. c \in Seq(U) /\ Len(c) = Len(d) + Len(l)
        BY <2>1, <1>3, ConcatProperties
    <2>3. \A i \in 1..Len(d) + Len(l) :
             (d \o l)[i] = IF i <= Len(d) THEN d[i] ELSE l[i - Len(d)]
        BY <2>1, ConcatProperties
    <2>4. /\ \A i \in 1..n + m : c[i] = d[i]
          /\ \A i \in n + m + 1..n + m + 1 : c[i] = l[i - (n + m)]
        BY <2>3, <1>1, <1>2, <1>3, <1>4
    <2> QED
        BY <2>2, <2>4, <1>2, <1>4 DEF U
<1>6. c[n + m + 1] = e
    BY <1>1, <1>2, <1>5
<1>7. \A i \in 1..n : c[i] = s[i]
    BY <1>1, <1>4, <1>5
<1>8. \A i \in n + 1..n + m : c[i] = b[i - n]
    BY <1>1, <1>4, <1>5
<1> QED
    BY <1>1, <1>5, <1>6, <1>7, <1>8

-----------------------------------------------------------------------------
(* What a statement logs.                                                  *)

\* The events from one place of the log to its end are a statement's: all named
\* after tables as they are, and each Rows event behind its table map.
Statement(first) ==
    \A i \in first..Len(log) :
        /\ IsNamed(i)
        /\ log[i].table \in Tables
        /\ log[i].id = ids[log[i].table] /\ log[i].types = types[log[i].table]
        /\ log[i].type = "rows" =>
            \E m \in first..i - 1 : log[m].type = "map" /\ log[m].id = log[i].id

\* Every statement extends the log so.
LEMMA LogRowsExtends ==
    ASSUME IdsInv, LogInv, UNCHANGED <<ids, types>>,
           NEW t \in Tables, NEW kind, NEW images, LogRows(t, kind, images),
           NEW n, n = Len(log)
    PROVE  /\ log' \in Seq(ToSet(log')) /\ Len(log') > n /\ Len(log') <= MaxLog
           /\ \A i \in 1..n : log'[i] = log[i]
           /\ Statement(n + 1)'
           /\ \A i \in n + 1..Len(log') - 1 : log'[i].type = "map"
           /\ log'[Len(log')] = [type |-> "rows", kind |-> kind, id |-> ids[t],
                                 table |-> t, types |-> types[t], images |-> images]
<1>1. PICK others \in SUBSET (Tables \ {t}) :
          /\ Len(log) + Len(SetToSeq(others \cup {t})) < MaxLog
          /\ log' = log \o [i \in DOMAIN SetToSeq(others \cup {t}) |->
                             MapEvent(SetToSeq(others \cup {t})[i])]
                     \o <<[type |-> "rows", kind |-> kind, id |-> ids[t],
                           table |-> t, types |-> types[t], images |-> images]>>
    BY DEF LogRows
<1> DEFINE opened == others \cup {t}
           mapped == SetToSeq(opened)
           head == [i \in DOMAIN mapped |-> MapEvent(mapped[i])]
           row == [type |-> "rows", kind |-> kind, id |-> ids[t],
                   table |-> t, types |-> types[t], images |-> images]
           m == Len(mapped)
<1>2. opened \subseteq Tables /\ t \in opened /\ IsFiniteSet(opened)
    BY RowMirrorAssumption, FS_Subset
<1>3. /\ mapped \in Seq(opened)
      /\ DOMAIN mapped = 1..m
      /\ \A x \in opened : \E i \in 1..m : mapped[i] = x
    BY <1>2, SetToSeqCovers
<1>4. m \in Nat /\ \A i \in 1..m : mapped[i] \in opened
    BY <1>3, LenProperties, ElementOfSeq
<1>5. head \in Seq(ToSet(head)) /\ Len(head) = m /\ \A i \in 1..m : head[i] = MapEvent(mapped[i])
    <2> DEFINE Mapped == {MapEvent(x) : x \in opened}
    <2>1. DOMAIN head = 1..m /\ \A i \in 1..m : head[i] = MapEvent(mapped[i])
        BY <1>3
    <2>2. head \in [1..m -> Mapped]
        BY <1>3, <1>4
    <2> HIDE DEF head, mapped, Mapped
    <2>3. head \in Seq(Mapped)
        BY <2>2, <1>4, SeqDef
    <2>4. head \in Seq(ToSet(head))
        BY <2>3, SeqOfOwnElements
    <2>5. DOMAIN head = 1..Len(head) /\ Len(head) \in Nat
        BY <2>3, LenProperties
    <2> QED
        BY <2>1, <2>4, <2>5, <1>4
<1>6. log \in Seq(ToSet(log))
    BY DEF LogInv
<1>7. log' = log \o head \o <<row>>
    BY <1>1
<1> HIDE DEF head, row, mapped, m, opened
<1>8. m = Len(head)
    BY <1>5
<1>9. n \in Nat
    BY <1>6, LenProperties
<1>10. /\ log' \in Seq(ToSet(log')) /\ Len(log') = n + m + 1
       /\ \A i \in 1..n : log'[i] = log[i]
       /\ \A i \in n + 1..n + m : log'[i] = head[i - n]
       /\ log'[n + m + 1] = row
    <2>1. head \in Seq(ToSet(head))
        BY <1>5
    <2>2. log' \in Seq(ToSet(log'))
        <3>1. log' \in Seq(ToSet(log) \cup ToSet(head) \cup {row})
            BY <2>1, <1>6, <1>7, <1>8, BlockAndElement
        <3> QED
            BY <3>1, SeqOfOwnElements
    <2>3. Len(log') = n + m + 1
        BY <2>1, <1>6, <1>7, <1>8, BlockAndElement
    <2>4. \A i \in 1..n : log'[i] = log[i]
        BY <2>1, <1>6, <1>7, <1>8, BlockAndElement
    <2>5. \A i \in n + 1..n + m : log'[i] = head[i - n]
        BY <2>1, <1>6, <1>7, <1>8, BlockAndElement
    <2>6. log'[n + m + 1] = row
        BY <2>1, <1>6, <1>7, <1>8, BlockAndElement
    <2> QED
        BY <2>2, <2>3, <2>4, <2>5, <2>6
<1>11. ids' = ids /\ types' = types
    OBVIOUS
<1>12. \A i \in n + 1..n + m : i - n \in 1..m /\ log'[i] = MapEvent(mapped[i - n])
    BY <1>4, <1>5, <1>9, <1>10
<1>13. log'[n + m + 1] = row
    BY <1>10
<1>14. \A i \in n + 1..n + m :
           /\ log'[i].type = "map" /\ log'[i].table = mapped[i - n]
           /\ log'[i].id = ids[mapped[i - n]] /\ log'[i].types = types[mapped[i - n]]
    <2> SUFFICES ASSUME NEW i \in n + 1..n + m
                 PROVE  /\ log'[i].type = "map" /\ log'[i].table = mapped[i - n]
                        /\ log'[i].id = ids[mapped[i - n]]
                        /\ log'[i].types = types[mapped[i - n]]
        OBVIOUS
    <2>1. log'[i] = MapEvent(mapped[i - n])
        BY <1>12
    <2> QED
        BY <2>1 DEF MapEvent
<1>15. /\ log'[n + m + 1].type = "rows" /\ log'[n + m + 1].table = t
       /\ log'[n + m + 1].id = ids[t] /\ log'[n + m + 1].types = types[t]
    BY <1>13 DEF row
<1>16. PICK k \in 1..m : mapped[k] = t
    BY <1>2, <1>3
<1>17. Statement(n + 1)'
    <2> SUFFICES ASSUME NEW i \in n + 1..n + m + 1
                 PROVE  /\ log'[i].type \in {"map", "rows"}
                        /\ log'[i].table \in Tables
                        /\ log'[i].id = ids[log'[i].table] /\ log'[i].types = types[log'[i].table]
                        /\ log'[i].type = "rows" =>
                            \E j \in n + 1..i - 1 :
                                log'[j].type = "map" /\ log'[j].id = log'[i].id
        <3> SUFFICES ASSUME NEW i \in n + 1..Len(log')
                     PROVE  /\ log'[i].type \in {"map", "rows"}
                            /\ log'[i].table \in Tables
                            /\ log'[i].id = ids'[log'[i].table]
                            /\ log'[i].types = types'[log'[i].table]
                            /\ log'[i].type = "rows" =>
                                \E j \in n + 1..i - 1 :
                                    log'[j].type = "map" /\ log'[j].id = log'[i].id
            BY DEF Statement, IsNamed
        <3> QED
            BY <1>10, <1>11
    <2>1. CASE i <= n + m
        BY <2>1, <1>2, <1>4, <1>9, <1>14
    <2>2. CASE i = n + m + 1
        <3>1. n + k \in n + 1..i - 1
            BY <2>2, <1>4, <1>9, <1>16
        <3>2. log'[n + k].type = "map" /\ log'[n + k].id = ids[t]
            BY <1>4, <1>9, <1>14, <1>16
        <3> QED
            BY <2>2, <3>1, <3>2, <1>15
    <2> QED
        BY <2>1, <2>2, <1>4, <1>9
<1>18. \A i \in n + 1..Len(log') - 1 : log'[i].type = "map"
    BY <1>4, <1>9, <1>10, <1>14
<1>19. log'[Len(log')] = [type |-> "rows", kind |-> kind, id |-> ids[t],
                         table |-> t, types |-> types[t], images |-> images]
    BY <1>10 DEF row
<1>20. Len(log') <= MaxLog
    <2>1. n + m < MaxLog /\ MaxLog \in Nat
        BY <1>1, RowMirrorAssumption DEF m, mapped, opened
    <2> QED
        BY <2>1, <1>4, <1>9, <1>10
<1> QED
    BY <1>4, <1>9, <1>10, <1>17, <1>18, <1>19, <1>20

-----------------------------------------------------------------------------
(* The server's steps keep the invariant.                                  *)

\* What the parser relies on, apart from where it is.
LogPart == IdsInv /\ LogInv /\ FileInv /\ CurrentInv /\ MappedInv

\* The log as a sequence, under its invariant.
LEMMA LogBasics ==
    ASSUME LogInv
    PROVE  Len(log) \in Nat /\ DOMAIN log = 1..Len(log)
BY LenProperties DEF LogInv

\* A statement keeps it: its events have the present ids and definitions, which
\* CurrentInv has for the earlier events of the file too.
LEMMA StatementKeepsLog ==
    ASSUME LogPart, UNCHANGED <<types, ids, nextId>>,
           NEW n, n = Len(log), NEW N, N = Len(log'),
           log' \in Seq(ToSet(log')), N > n,
           \A i \in 1..n : log'[i] = log[i],
           Statement(n + 1)'
    PROVE  LogPart'
<1> USE DEF IsNamed
<1>1. n \in Nat /\ n > 0 /\ DOMAIN log = 1..n
    BY LogBasics DEF LogPart, LogInv
<1>2. N \in Nat /\ N > n /\ DOMAIN log' = 1..N
    BY LenProperties
<1>3. types' = types /\ ids' = ids /\ nextId' = nextId
    OBVIOUS
<1>4. \A i \in n + 1..N :
          /\ log'[i].type \in {"map", "rows"} /\ log'[i].table \in Tables
          /\ log'[i].id = ids[log'[i].table] /\ log'[i].types = types[log'[i].table]
          /\ log'[i].type = "rows" =>
              \E m \in n + 1..i - 1 : log'[m].type = "map" /\ log'[m].id = log'[i].id
    BY <1>3 DEF Statement
<1>5. \A i \in 1..n, j \in 1..n : SameFile(i, j)' <=> SameFile(i, j)
    BY <1>1 DEF SameFile
<1>6. \A i \in 1..n, j \in n..N : SameFile(i, j)' => SameFile(i, n)
    BY <1>1, <1>2 DEF SameFile
<1>7. \A i \in n + 1..N, j \in 1..N : SameFile(i, j)'
    BY <1>1, <1>2, <1>4 DEF SameFile
<1>8. IdsInv'
    BY <1>3 DEF LogPart, IdsInv
<1>9. LogInv'
    <2>1. log'[1].type = "format"
        BY <1>1 DEF LogPart, LogInv
    <2>2. ASSUME NEW i \in 1..N, log'[i].type \in {"map", "rows"}
          PROVE  /\ log'[i].table \in Tables /\ log'[i].types \in Schemas /\ log'[i].id \in Nat
                 /\ SameFile(i, N)' => log'[i].id < nextId
        <3>1. CASE i \in 1..n
            <4>1. SameFile(i, N)' => SameFile(i, n)
                BY <3>1, <1>2, <1>6
            <4> QED
                BY <3>1, <4>1, <2>2, <1>1 DEF LogPart, LogInv
        <3>2. CASE i \in n + 1..N
            BY <3>2, <1>4 DEF LogPart, IdsInv
        <3> QED
            BY <3>1, <3>2, <1>1, <1>2
    <2> QED
        BY <2>1, <2>2, <1>1, <1>2, <1>3 DEF LogInv
<1>10. FileInv'
    <2> SUFFICES ASSUME NEW i \in 1..N, NEW j \in 1..N, i <= j,
                        log'[i].type \in {"map", "rows"}, log'[j].type \in {"map", "rows"},
                        SameFile(i, j)', log'[i].id = log'[j].id
                 PROVE  log'[i].table = log'[j].table /\ log'[i].types = log'[j].types
        BY <1>2 DEF FileInv
    <2>1. CASE j \in 1..n
        <3>1. i \in 1..n
            BY <2>1, <1>1
        <3>2. SameFile(i, j) /\ log'[i] = log[i] /\ log'[j] = log[j]
            BY <2>1, <3>1, <1>5
        <3> QED
            BY <2>1, <3>1, <3>2, <1>1 DEF LogPart, FileInv
    <2>2. CASE i \in 1..n /\ j \in n + 1..N
        <3>1. SameFile(i, n) /\ log'[i] = log[i]
            BY <2>2, <1>1, <1>2, <1>6
        <3>2. log[i].id = ids[log'[j].table] /\ log'[j].table \in Tables
            BY <2>2, <3>1, <1>4
        <3>3. log[i].table = log'[j].table /\ log[i].types = types[log'[j].table]
            BY <2>2, <3>1, <3>2, <1>1 DEF LogPart, CurrentInv
        <3> QED
            BY <2>2, <3>1, <3>3, <1>4
    <2>3. CASE i \in n + 1..N /\ j \in n + 1..N
        BY <2>3, <1>4 DEF LogPart, IdsInv
    <2> QED
        BY <2>1, <2>2, <2>3, <1>1, <1>2
<1>11. CurrentInv'
    <2> SUFFICES ASSUME NEW i \in 1..N, NEW t \in Tables,
                        log'[i].type \in {"map", "rows"}, SameFile(i, N)', log'[i].id = ids[t]
                 PROVE  log'[i].table = t /\ log'[i].types = types[t]
        BY <1>2, <1>3 DEF CurrentInv
    <2>1. CASE i \in 1..n
        <3>1. SameFile(i, n)
            BY <2>1, <1>2, <1>6
        <3> QED
            BY <2>1, <3>1, <1>1 DEF LogPart, CurrentInv
    <2>2. CASE i \in n + 1..N
        BY <2>2, <1>4 DEF LogPart, IdsInv
    <2> QED
        BY <2>1, <2>2, <1>1, <1>2
<1>12. MappedInv'
    <2> SUFFICES ASSUME NEW j \in 1..N, log'[j].type = "rows"
                 PROVE  \E i \in 1..j - 1 :
                            /\ log'[i].type = "map" /\ log'[i].id = log'[j].id
                            /\ SameFile(i, j)'
        BY <1>2 DEF MappedInv
    <2>1. CASE j \in 1..n
        <3>1. PICK i \in 1..j - 1 :
                  log[i].type = "map" /\ log[i].id = log[j].id /\ SameFile(i, j)
            BY <2>1, <1>1 DEF LogPart, MappedInv
        <3>2. i \in 1..n
            BY <2>1, <1>1
        <3> QED
            BY <2>1, <3>1, <3>2, <1>5
    <2>2. CASE j \in n + 1..N
        <3>1. PICK i \in n + 1..j - 1 : log'[i].type = "map" /\ log'[i].id = log'[j].id
            BY <2>2, <1>4
        <3>2. i \in 1..j - 1 /\ i \in n + 1..N
            BY <2>2, <1>1, <1>2
        <3> QED
            BY <3>1, <3>2, <1>7
    <2> QED
        BY <2>1, <2>2, <1>1, <1>2
<1> QED
    BY <1>8, <1>9, <1>10, <1>11, <1>12 DEF LogPart

\* A restarted server's Format event ends the file of all events before.
LEMMA RestartKeepsLog ==
    ASSUME LogPart, Restart, NEW n, n = Len(log)
    PROVE  /\ LogPart'
           /\ log' \in Seq(ToSet(log')) /\ Len(log') > n
           /\ \A i \in 1..n : log'[i] = log[i]
<1> USE DEF IsNamed
<1>1. n \in Nat /\ n > 0 /\ DOMAIN log = 1..n
    BY LogBasics DEF LogPart, LogInv
<1>2. /\ log' \in Seq(ToSet(log')) /\ Len(log') = n + 1
      /\ \A i \in 1..n : log'[i] = log[i]
      /\ log'[n + 1] = Format
    <2>1. log \in Seq(ToSet(log) \cup {Format}) /\ log' = Append(log, Format)
        BY SeqMonotonic DEF Restart, LogPart, LogInv
    <2>2. /\ log' \in Seq(ToSet(log) \cup {Format})
          /\ Len(log') = n + 1
          /\ \A i \in 1..n : log'[i] = log[i]
          /\ log'[n + 1] = Format
        BY <2>1, AppendProperties
    <2> QED
        BY <2>2, SeqOfOwnElements
<1>3. DOMAIN log' = 1..n + 1
    BY <1>2, LenProperties
<1>4. log'[n + 1].type = "format"
    BY <1>2 DEF Format
<1>5. \A i \in 1..n, j \in 1..n : SameFile(i, j)' <=> SameFile(i, j)
    BY <1>1, <1>2 DEF SameFile
<1>6. \A i \in 1..n : ~SameFile(i, n + 1)'
    <2> SUFFICES ASSUME NEW i \in 1..n
                 PROVE  \E k \in i + 1..n + 1 : log'[k].type = "format"
        BY <1>1 DEF SameFile
    <2> QED
        BY <1>1, <1>4
<1>7. IdsInv'
    <2>1. Cardinality(Tables) \in Nat
        BY RowMirrorAssumption, FS_CardinalityType
    <2>2. ids' \in [Tables -> 1..Cardinality(Tables)] /\ IsInjective(ids')
        BY DEF Restart, Injection
    <2>3. nextId' = Cardinality(Tables) + 1 /\ types' = types
        BY DEF Restart
    <2> QED
        BY <2>1, <2>2, <2>3 DEF LogPart, IdsInv, IsInjective
<1>8. LogInv'
    <2>1. ASSUME NEW i \in 1..n + 1, log'[i].type \in {"map", "rows"}
          PROVE  /\ log'[i].table \in Tables /\ log'[i].types \in Schemas /\ log'[i].id \in Nat
                 /\ ~SameFile(i, n + 1)'
        <3>1. i \in 1..n
            BY <2>1, <1>1, <1>4
        <3> QED
            BY <2>1, <3>1, <1>1, <1>2, <1>6 DEF LogPart, LogInv
    <2>2. log'[1].type = "format"
        BY <1>1, <1>2 DEF LogPart, LogInv
    <2> QED
        BY <2>1, <2>2, <1>1, <1>2, <1>3 DEF LogInv
<1>9. FileInv'
    <2> SUFFICES ASSUME NEW i \in 1..n + 1, NEW j \in 1..n + 1, i <= j,
                        log'[i].type \in {"map", "rows"}, log'[j].type \in {"map", "rows"},
                        SameFile(i, j)', log'[i].id = log'[j].id
                 PROVE  log'[i].table = log'[j].table /\ log'[i].types = log'[j].types
        BY <1>3 DEF FileInv
    <2>1. i \in 1..n /\ j \in 1..n
        BY <1>1, <1>4
    <2> QED
        BY <2>1, <1>1, <1>2, <1>5 DEF LogPart, FileInv
<1>10. CurrentInv'
    <2> SUFFICES ASSUME NEW i \in 1..n + 1, log'[i].type \in {"map", "rows"},
                        SameFile(i, n + 1)'
                 PROVE  FALSE
        BY <1>2, <1>3 DEF CurrentInv
    <2> QED
        BY <1>1, <1>4, <1>6
<1>11. MappedInv'
    <2> SUFFICES ASSUME NEW j \in 1..n + 1, log'[j].type = "rows"
                 PROVE  \E i \in 1..j - 1 :
                            /\ log'[i].type = "map" /\ log'[i].id = log'[j].id
                            /\ SameFile(i, j)'
        BY <1>3 DEF MappedInv
    <2>1. j \in 1..n
        BY <1>1, <1>4
    <2>2. PICK i \in 1..j - 1 :
              log[i].type = "map" /\ log[i].id = log[j].id /\ SameFile(i, j)
        BY <2>1, <1>1, <1>2 DEF LogPart, MappedInv
    <2>3. i \in 1..n
        BY <2>1, <1>1
    <2> QED
        BY <2>1, <2>2, <2>3, <1>2, <1>5
<1> QED
    BY <1>1, <1>2, <1>7, <1>8, <1>9, <1>10, <1>11 DEF LogPart

\* An altered table gets an id that no event of the file has.
LEMMA AlterKeepsLog ==
    ASSUME LogPart, NEW t \in Tables, Alter(t)
    PROVE  LogPart'
<1> USE DEF IsNamed
<1>1. PICK schema \in Schemas :
          types' = [types EXCEPT ![t] = schema]
    BY DEF Alter
<1>2. ids' = [ids EXCEPT ![t] = nextId] /\ nextId' = nextId + 1 /\ log' = log
    BY DEF Alter
<1>3. IdsInv
    BY DEF LogPart
<1>4. IdsInv'
    BY <1>1, <1>2, <1>3 DEF IdsInv
<1>5. \A i, j : SameFile(i, j)' <=> SameFile(i, j)
    BY <1>2 DEF SameFile
<1>6. LogInv'
    BY <1>2, <1>3, <1>5 DEF LogPart, LogInv, IdsInv
<1>7. FileInv'
    BY <1>2, <1>5 DEF LogPart, FileInv
<1>8. CurrentInv'
    <2> SUFFICES ASSUME NEW i \in DOMAIN log, NEW u \in Tables,
                        log[i].type \in {"map", "rows"},
                        SameFile(i, Len(log)), log[i].id = ids'[u]
                 PROVE  log[i].table = u /\ log[i].types = types'[u]
        BY <1>2, <1>5 DEF CurrentInv
    <2>1. log[i].id < nextId /\ log[i].id \in Nat
        BY DEF LogPart, LogInv
    <2>2. u # t
        BY <2>1, <1>2, <1>3 DEF IdsInv
    <2>3. ids'[u] = ids[u] /\ types'[u] = types[u]
        BY <2>2, <1>1, <1>2, <1>3 DEF IdsInv
    <2> QED
        BY <2>3 DEF LogPart, CurrentInv
<1>9. MappedInv'
    BY <1>2, <1>5 DEF LogPart, MappedInv
<1> QED
    BY <1>4, <1>6, <1>7, <1>8, <1>9 DEF LogPart

\* Events behind the parser do not change what it has.
LEMMA GrowingKeepsMaps ==
    ASSUME MapsInv, NEW n, n = Len(log), n \in Nat,
           log' \in Seq(ToSet(log')), Len(log') >= n,
           \A i \in 1..n : log'[i] = log[i],
           UNCHANGED <<cursor, maps>>
    PROVE  MapsInv'
<1>1. cursor \in 0..n /\ cursor' = cursor /\ maps' = maps
    BY DEF MapsInv
<1>2. Len(log') \in Nat
    BY LenProperties
<1>3. \A i \in 1..cursor : SameFile(i, cursor)' <=> SameFile(i, cursor)
    BY <1>1 DEF SameFile
<1>4. \A i \in 1..cursor : log'[i] = log[i]
    BY <1>1
<1>5. cursor' \in 0..Len(log')
    BY <1>1, <1>2
<1>6. \A i \in 1..cursor :
          log'[i].type = "map" /\ SameFile(i, cursor)' => log'[i].id \in DOMAIN maps
    BY <1>3, <1>4 DEF MapsInv
<1>7. ASSUME cursor > 0, NEW id \in DOMAIN maps
      PROVE  \E i \in 1..cursor :
                /\ log'[i].type = "map" /\ log'[i].id = id /\ SameFile(i, cursor)'
                /\ maps[id].table = log'[i].table /\ maps[id].types = log'[i].types
                /\ maps[id].metas \in Seq(STRING) /\ Len(maps[id].metas) >= Len(log'[i].types)
                /\ \A c \in 1..Len(log'[i].types) : maps[id].metas[c] = log'[i].types[c]
    <2>1. PICK i \in 1..cursor :
                /\ log[i].type = "map" /\ log[i].id = id /\ SameFile(i, cursor)
                /\ maps[id].table = log[i].table /\ maps[id].types = log[i].types
                /\ maps[id].metas \in Seq(STRING) /\ Len(maps[id].metas) >= Len(log[i].types)
                /\ \A c \in 1..Len(log[i].types) : maps[id].metas[c] = log[i].types[c]
        BY <1>7 DEF MapsInv
    <2> QED
        BY <2>1, <1>3, <1>4
<1>8. \A i \in 1..cursor' : log'[i].type = "map" /\ SameFile(i, cursor)' => log'[i].id \in DOMAIN maps'
    BY <1>1, <1>6
<1>9. cursor' > 0 => \A id \in DOMAIN maps' :
          \E i \in 1..cursor' :
              /\ log'[i].type = "map" /\ log'[i].id = id /\ SameFile(i, cursor)'
              /\ maps'[id].table = log'[i].table /\ maps'[id].types = log'[i].types
              /\ maps'[id].metas \in Seq(STRING) /\ Len(maps'[id].metas) >= Len(log'[i].types)
              /\ \A c \in 1..Len(log'[i].types) : maps'[id].metas[c] = log'[i].types[c]
    <2>1. SUFFICES ASSUME cursor > 0, NEW id \in DOMAIN maps
                   PROVE  \E i \in 1..cursor :
                              /\ log'[i].type = "map" /\ log'[i].id = id /\ SameFile(i, cursor)'
                              /\ maps[id].table = log'[i].table /\ maps[id].types = log'[i].types
                              /\ maps[id].metas \in Seq(STRING)
                              /\ Len(maps[id].metas) >= Len(log'[i].types)
                              /\ \A c \in 1..Len(log'[i].types) : maps[id].metas[c] = log'[i].types[c]
        BY <1>1
    <2> QED
        BY <2>1, <1>7
<1> QED
    BY <1>5, <1>8, <1>9 DEF MapsInv

-----------------------------------------------------------------------------
(* The parser's steps keep it.                                             *)

\* The first event is a Format event, and one of another type does not end the
\* file the parser is in.
LEMMA ParsingOn ==
    ASSUME LogPart, MapsInv, NEW type, Parsing(type), type # "format"
    PROVE  /\ cursor \in Nat /\ cursor > 0 /\ cursor + 1 \in DOMAIN log
           /\ \A i \in 1..cursor : SameFile(i, cursor + 1) <=> SameFile(i, cursor)
           /\ SameFile(cursor + 1, cursor + 1)
<1>1. Len(log) \in Nat /\ DOMAIN log = 1..Len(log) /\ log[1].type = "format"
    BY LogBasics DEF LogPart, LogInv
<1>2. cursor \in 0..Len(log) /\ cursor < Len(log) /\ log[cursor + 1].type # "format"
    BY DEF MapsInv, Parsing
<1>3. cursor # 0
    BY <1>1, <1>2
<1> QED
    BY <1>1, <1>2, <1>3 DEF SameFile

\* A Format event makes the parser forget, and a new file begins.
LEMMA FormatKeepsMaps ==
    ASSUME LogPart, MapsInv, ParseFormatEvent
    PROVE  MapsInv'
<1>1. /\ cursor \in 0..Len(log) /\ cursor < Len(log) /\ Len(log) \in Nat
      /\ cursor' = cursor + 1 /\ log' = log
      /\ log[cursor + 1].type = "format"
      /\ maps' = << >>
    BY LogBasics DEF LogPart, MapsInv, ParseFormatEvent, Parsing
<1>2. cursor' \in 0..Len(log')
    BY <1>1
<1>3. \A i \in 1..cursor + 1 : ~(log[i].type = "map" /\ SameFile(i, cursor + 1))
    <2> SUFFICES ASSUME NEW i \in 1..cursor + 1, i # cursor + 1
                 PROVE  \E k \in i + 1..cursor + 1 : log[k].type = "format"
        BY <1>1 DEF SameFile
    <2> QED
        BY <1>1
<1>4. DOMAIN maps' = {}
    BY <1>1
<1>5. \A i \in 1..cursor' : ~(log'[i].type = "map" /\ SameFile(i, cursor)')
    BY <1>1, <1>3 DEF SameFile
<1> QED
    BY <1>2, <1>4, <1>5 DEF MapsInv

\* A table map is added, or filled again by an event with the same definition:
\* the id stood for no other in this file (FileInv).
LEMMA TablemapKeepsMaps ==
    ASSUME LogPart, MapsInv, ParseTablemapEvent
    PROVE  MapsInv'
<1> DEFINE e == log[cursor + 1]
           old == IF e.id \in DOMAIN maps THEN maps[e.id].metas ELSE << >>
           new == [table |-> e.table, types |-> e.types, metas |-> old \o e.types]
<1> USE DEF IsNamed
<1>1. /\ Parsing("map") /\ cursor' = cursor + 1 /\ log' = log /\ e.type = "map"
      /\ maps' = [id \in DOMAIN maps \cup {e.id} |-> IF id = e.id THEN new ELSE maps[id]]
    BY DEF ParseTablemapEvent, Parsing, Event, Tablemap
<1>2. /\ cursor \in Nat /\ cursor > 0 /\ cursor + 1 \in DOMAIN log
      /\ \A i \in 1..cursor : SameFile(i, cursor + 1) <=> SameFile(i, cursor)
      /\ SameFile(cursor + 1, cursor + 1)
    BY <1>1, ParsingOn
<1>3. DOMAIN log = 1..Len(log) /\ Len(log) \in Nat
    BY LogBasics DEF LogPart
<1>4. e.table \in Tables /\ e.types \in Seq(STRING) /\ Len(e.types) \in Nat
    <2>1. e.table \in Tables /\ e.types \in Schemas
        BY <1>1, <1>2 DEF LogPart, LogInv
    <2> QED
        BY <2>1, RowMirrorAssumption, LenProperties
<1>5. \A i, j : SameFile(i, j)' <=> SameFile(i, j)
    BY <1>1 DEF SameFile
<1>6. /\ DOMAIN maps' = DOMAIN maps \cup {e.id}
      /\ maps'[e.id] = new
      /\ \A id \in DOMAIN maps \ {e.id} : maps'[id] = maps[id]
    <2>1. maps' = [id \in DOMAIN maps \cup {e.id} |-> IF id = e.id THEN new ELSE maps[id]]
        BY <1>1
    <2> HIDE DEF e, new
    <2> QED
        BY <2>1
<1> HIDE DEF e
<1>9. /\ new.metas \in Seq(STRING) /\ Len(new.metas) >= Len(e.types)
      /\ \A c \in 1..Len(e.types) : new.metas[c] = e.types[c]
    <2>1. CASE e.id \notin DOMAIN maps
        <3>1. new.metas = << >> \o e.types
            BY <2>1
        <3>2. << >> \o e.types = e.types
            BY <1>4, ConcatEmptySeq
        <3> HIDE DEF new
        <3> QED
            BY <3>1, <3>2, <1>4
    <2>2. CASE e.id \in DOMAIN maps
        <3>1. PICK i \in 1..cursor :
                /\ log[i].type = "map" /\ log[i].id = e.id /\ SameFile(i, cursor)
                /\ old \in Seq(STRING) /\ Len(old) >= Len(log[i].types)
                /\ \A c \in 1..Len(log[i].types) : old[c] = log[i].types[c]
            BY <2>2, <1>2 DEF MapsInv
        <3>2. log[i].types = e.types
            <4>1. i \in DOMAIN log /\ i <= cursor + 1 /\ SameFile(i, cursor + 1)
                BY <3>1, <1>2, <1>3
            <4> QED
                BY <4>1, <3>1, <1>1, <1>2 DEF LogPart, FileInv, e
        <3>3. /\ new.metas \in Seq(STRING)
              /\ Len(new.metas) = Len(old) + Len(e.types)
              /\ \A c \in 1..Len(old) + Len(e.types) :
                    new.metas[c] = IF c <= Len(old) THEN old[c] ELSE e.types[c - Len(old)]
            <4> HIDE DEF old
            <4>1. new.metas = old \o e.types
                OBVIOUS
            <4> HIDE DEF new
            <4> QED
                BY <4>1, <3>1, <1>4, ConcatProperties
        <3>4. Len(old) \in Nat
            BY <3>1, LenProperties
        <3> HIDE DEF new, old
        <3>5. Len(new.metas) >= Len(e.types)
            BY <3>3, <3>4, <1>4
        <3>6. \A c \in 1..Len(e.types) : new.metas[c] = e.types[c]
            <4> SUFFICES ASSUME NEW c \in 1..Len(e.types)
                         PROVE  new.metas[c] = e.types[c]
                OBVIOUS
            <4>1. c \in 1..Len(log[i].types) /\ c <= Len(old) /\ c \in 1..Len(old) + Len(e.types)
                BY <3>1, <3>2, <3>4, <1>4
            <4>2. old[c] = e.types[c]
                BY <4>1, <3>1, <3>2
            <4> QED
                BY <4>1, <4>2, <3>3
        <3> QED
            BY <3>3, <3>5, <3>6
    <2> QED
        BY <2>1, <2>2
<1>10. new.table = e.table /\ new.types = e.types
    OBVIOUS
<1> HIDE DEF new
<1>11. cursor' \in 0..Len(log')
    BY <1>1, <1>2, <1>3
<1>12. ASSUME NEW i \in 1..cursor + 1, log[i].type = "map", SameFile(i, cursor + 1)
       PROVE  log[i].id \in DOMAIN maps'
    <2>1. CASE i = cursor + 1
        BY <2>1, <1>6 DEF e
    <2>2. CASE i \in 1..cursor
        BY <2>2, <1>2, <1>6, <1>12 DEF MapsInv
    <2> QED
        BY <2>1, <2>2, <1>2
<1>13. ASSUME NEW id \in DOMAIN maps'
       PROVE  \E i \in 1..cursor + 1 :
                /\ log[i].type = "map" /\ log[i].id = id /\ SameFile(i, cursor + 1)
                /\ maps'[id].table = log[i].table /\ maps'[id].types = log[i].types
                /\ maps'[id].metas \in Seq(STRING) /\ Len(maps'[id].metas) >= Len(log[i].types)
                /\ \A c \in 1..Len(log[i].types) : maps'[id].metas[c] = log[i].types[c]
    <2>1. CASE id = e.id
        <3>1. cursor + 1 \in 1..cursor + 1
            BY <1>2
        <3> QED
            BY <2>1, <3>1, <1>1, <1>2, <1>6, <1>9, <1>10 DEF e
    <2>2. CASE id # e.id
        <3>1. id \in DOMAIN maps /\ maps'[id] = maps[id]
            BY <2>2, <1>6
        <3>2. PICK i \in 1..cursor :
                /\ log[i].type = "map" /\ log[i].id = id /\ SameFile(i, cursor)
                /\ maps[id].table = log[i].table /\ maps[id].types = log[i].types
                /\ maps[id].metas \in Seq(STRING) /\ Len(maps[id].metas) >= Len(log[i].types)
                /\ \A c \in 1..Len(log[i].types) : maps[id].metas[c] = log[i].types[c]
            BY <3>1, <1>2 DEF MapsInv
        <3>3. i \in 1..cursor + 1 /\ SameFile(i, cursor + 1)
            BY <3>2, <1>2
        <3> QED
            BY <3>1, <3>2, <3>3
    <2> QED
        BY <2>1, <2>2
<1>14. \A i \in 1..cursor' :
           log'[i].type = "map" /\ SameFile(i, cursor)' => log'[i].id \in DOMAIN maps'
    BY <1>1, <1>12 DEF SameFile
<1>15. ASSUME NEW id \in DOMAIN maps'
       PROVE  \E i \in 1..cursor' :
                /\ log'[i].type = "map" /\ log'[i].id = id /\ SameFile(i, cursor)'
                /\ maps'[id].table = log'[i].table /\ maps'[id].types = log'[i].types
                /\ maps'[id].metas \in Seq(STRING) /\ Len(maps'[id].metas) >= Len(log'[i].types)
                /\ \A c \in 1..Len(log'[i].types) : maps'[id].metas[c] = log'[i].types[c]
    <2>1. PICK i \in 1..cursor + 1 :
                /\ log[i].type = "map" /\ log[i].id = id /\ SameFile(i, cursor + 1)
                /\ maps'[id].table = log[i].table /\ maps'[id].types = log[i].types
                /\ maps'[id].metas \in Seq(STRING) /\ Len(maps'[id].metas) >= Len(log[i].types)
                /\ \A c \in 1..Len(log[i].types) : maps'[id].metas[c] = log[i].types[c]
        BY <1>13
    <2>2. SameFile(i, cursor)'
        BY <2>1, <1>1 DEF SameFile
    <2> QED
        BY <2>1, <2>2, <1>1
<1> QED
    BY <1>11, <1>14, <1>15 DEF MapsInv

\* Rows come behind their table map, which the parser has read in this file.
LEMMA RowsKeepMaps ==
    ASSUME LogPart, MapsInv, ParseRowEvent
    PROVE  MapsInv'
<1>1. /\ Parsing("rows") /\ cursor' = cursor + 1 /\ log' = log /\ maps' = maps
      /\ log[cursor + 1].type = "rows"
    BY DEF ParseRowEvent, Parsing, server
<1>2. /\ cursor \in Nat /\ cursor > 0 /\ cursor + 1 \in DOMAIN log
      /\ \A i \in 1..cursor : SameFile(i, cursor + 1) <=> SameFile(i, cursor)
    BY <1>1, ParsingOn
<1>3. cursor' \in 0..Len(log')
    BY <1>1, <1>2, LogBasics DEF LogPart
<1>4. \A i \in 1..cursor : SameFile(i, cursor)' <=> SameFile(i, cursor)
    BY <1>1, <1>2 DEF SameFile
<1>5. \A i \in 1..cursor' :
          log'[i].type = "map" /\ SameFile(i, cursor)' => log'[i].id \in DOMAIN maps'
    <2> SUFFICES ASSUME NEW i \in 1..cursor + 1, log[i].type = "map", SameFile(i, cursor)'
                 PROVE  log[i].id \in DOMAIN maps
        BY <1>1
    <2>1. i \in 1..cursor
        BY <1>1, <1>2
    <2> QED
        BY <2>1, <1>4 DEF MapsInv
<1>6. ASSUME NEW id \in DOMAIN maps'
      PROVE  \E i \in 1..cursor' :
                /\ log'[i].type = "map" /\ log'[i].id = id /\ SameFile(i, cursor)'
                /\ maps'[id].table = log'[i].table /\ maps'[id].types = log'[i].types
                /\ maps'[id].metas \in Seq(STRING) /\ Len(maps'[id].metas) >= Len(log'[i].types)
                /\ \A c \in 1..Len(log'[i].types) : maps'[id].metas[c] = log'[i].types[c]
    <2>1. PICK i \in 1..cursor :
                /\ log[i].type = "map" /\ log[i].id = id /\ SameFile(i, cursor)
                /\ maps[id].table = log[i].table /\ maps[id].types = log[i].types
                /\ maps[id].metas \in Seq(STRING) /\ Len(maps[id].metas) >= Len(log[i].types)
                /\ \A c \in 1..Len(log[i].types) : maps[id].metas[c] = log[i].types[c]
        BY <1>1, <1>2 DEF MapsInv
    <2>2. i \in 1..cursor' /\ SameFile(i, cursor)'
        BY <2>1, <1>1, <1>2, <1>4
    <2> QED
        BY <2>1, <2>2, <1>1
<1> QED
    BY <1>3, <1>5, <1>6 DEF MapsInv

\* A step that touches neither log, definitions nor maps.
LEMMA OthersKeepMirror ==
    ASSUME MirrorInv, UNCHANGED <<types, ids, nextId, log, cursor, maps>>
    PROVE  MirrorInv'
BY DEF MirrorInv, IdsInv, LogInv, FileInv, CurrentInv, MappedInv, MapsInv, IsNamed, SameFile

\* A statement's step.
LEMMA StatementKeepsMirror ==
    ASSUME MirrorInv, NEW t \in Tables, NEW kind, NEW images, LogRows(t, kind, images),
           UNCHANGED <<types, ids, nextId, cursor, maps>>
    PROVE  MirrorInv'
<1> DEFINE n == Len(log)
<1>1. n \in Nat
    BY LogBasics DEF MirrorInv
<1>2. LogPart /\ IdsInv /\ LogInv /\ MapsInv
    BY DEF MirrorInv, LogPart
<1>3. PICK m : m = n
    OBVIOUS
<1>4. /\ log' \in Seq(ToSet(log')) /\ Len(log') > m
      /\ \A i \in 1..m : log'[i] = log[i]
      /\ Statement(m + 1)'
    BY <1>2, <1>3, LogRowsExtends
<1>5. LogPart'
    <2>1. PICK N : N = Len(log')
        OBVIOUS
    <2> QED
        BY <1>2, <1>3, <1>4, <2>1, StatementKeepsLog
<1>6. MapsInv'
    <2>1. Len(log') \in Nat
        BY <1>4, LenProperties
    <2>2. Len(log') >= m /\ m \in Nat
        BY <1>1, <1>3, <1>4, <2>1
    <2> QED
        BY <1>2, <1>3, <1>4, <2>2, GrowingKeepsMaps
<1> QED
    BY <1>5, <1>6 DEF MirrorInv, LogPart

-----------------------------------------------------------------------------
(* The theorems.                                                           *)

\* It holds at first: the log is one Format event.
LEMMA InitMirror == Init => MirrorInv
<1> SUFFICES ASSUME Init PROVE MirrorInv
    OBVIOUS
<1> USE DEF IsNamed
<1>1. /\ log = <<Format>> /\ Len(log) = 1 /\ DOMAIN log = {1} /\ log[1].type = "format"
      /\ cursor = 0 /\ maps = << >>
      /\ types = [t \in Tables |-> InitialSchema]
      /\ nextId = Cardinality(Tables) + 1
      /\ ids \in [Tables -> 1..Cardinality(Tables)] /\ IsInjective(ids)
    BY DEF Init, Format, Injection
<1>2. Cardinality(Tables) \in Nat
    BY RowMirrorAssumption, FS_CardinalityType
<1>3. IdsInv
    BY <1>1, <1>2, RowMirrorAssumption DEF IdsInv, IsInjective
<1>4. LogInv
    <2>1. log \in Seq({Format})
        BY <1>1
    <2>2. log \in Seq(ToSet(log))
        BY <2>1, SeqOfOwnElements
    <2> QED
        BY <2>2, <1>1 DEF LogInv
<1>5. FileInv /\ CurrentInv /\ MappedInv
    BY <1>1 DEF FileInv, CurrentInv, MappedInv
<1>6. MapsInv
    BY <1>1 DEF MapsInv
<1> QED
    BY <1>3, <1>4, <1>5, <1>6 DEF MirrorInv

\* Every step keeps it.
LEMMA NextMirror == MirrorInv /\ [Next]_vars => MirrorInv'
<1> SUFFICES ASSUME MirrorInv, [Next]_vars PROVE MirrorInv'
    OBVIOUS
<1>1. LogPart /\ MapsInv
    BY DEF MirrorInv, LogPart
<1>2. ASSUME NEW t \in Tables, Insert(t) PROVE MirrorInv'
    <2>1. \E images : LogRows(t, "insert", images)
        BY <1>2 DEF Insert
    <2>2. UNCHANGED <<types, ids, nextId, cursor, maps>>
        BY <1>2 DEF Insert, parser
    <2> QED
        BY <2>1, <2>2, StatementKeepsMirror
<1>3. ASSUME NEW t \in Tables, Update(t) PROVE MirrorInv'
    <2>1. \E images : LogRows(t, "update", images)
        BY <1>3 DEF Update
    <2>2. UNCHANGED <<types, ids, nextId, cursor, maps>>
        BY <1>3 DEF Update, parser
    <2> QED
        BY <2>1, <2>2, StatementKeepsMirror
<1>4. ASSUME NEW t \in Tables, Delete(t) PROVE MirrorInv'
    <2>1. \E images : LogRows(t, "delete", images)
        BY <1>4 DEF Delete
    <2>2. UNCHANGED <<types, ids, nextId, cursor, maps>>
        BY <1>4 DEF Delete, parser
    <2> QED
        BY <2>1, <2>2, StatementKeepsMirror
<1>5. ASSUME NEW t \in Tables, Alter(t) PROVE MirrorInv'
    <2>1. LogPart'
        BY <1>1, <1>5, AlterKeepsLog
    <2>2. UNCHANGED <<log, cursor, maps>>
        BY <1>5 DEF Alter, parser
    <2>3. MapsInv'
        BY <1>1, <2>2 DEF MapsInv, SameFile
    <2> QED
        BY <2>1, <2>3 DEF MirrorInv, LogPart
<1>6. ASSUME Restart PROVE MirrorInv'
    <2>1. PICK n : n = Len(log)
        OBVIOUS
    <2>2. /\ LogPart'
          /\ log' \in Seq(ToSet(log')) /\ Len(log') > n
          /\ \A i \in 1..n : log'[i] = log[i]
        BY <1>1, <1>6, <2>1, RestartKeepsLog
    <2>3. n \in Nat /\ Len(log') \in Nat
        BY <1>1, <2>1, <2>2, LogBasics, LenProperties DEF LogPart
    <2>4. Len(log') >= n
        BY <2>2, <2>3
    <2>5. UNCHANGED <<cursor, maps>>
        BY <1>6 DEF Restart, parser
    <2>6. MapsInv'
        BY <1>1, <2>1, <2>2, <2>3, <2>4, <2>5, GrowingKeepsMaps
    <2> QED
        BY <2>2, <2>6 DEF MirrorInv, LogPart
<1>7. ASSUME ReqBinlog PROVE MirrorInv'
    <2>1. UNCHANGED <<types, ids, nextId, log, maps>> /\ cursor' = 0
        BY <1>7 DEF ReqBinlog, server
    <2>2. LogPart'
        BY <1>1, <2>1 DEF LogPart, IdsInv, LogInv, FileInv, CurrentInv, MappedInv, IsNamed, SameFile
    <2>3. MapsInv'
        BY <1>1, <2>1, LogBasics DEF LogPart, MapsInv
    <2> QED
        BY <2>2, <2>3 DEF MirrorInv, LogPart
<1>8. ASSUME ParseFormatEvent \/ ParseTablemapEvent \/ ParseRowEvent PROVE MirrorInv'
    <2>1. UNCHANGED <<types, ids, nextId, log>>
        BY <1>8 DEF ParseFormatEvent, ParseTablemapEvent, ParseRowEvent, server
    <2>2. LogPart'
        BY <1>1, <2>1 DEF LogPart, IdsInv, LogInv, FileInv, CurrentInv, MappedInv, IsNamed, SameFile
    <2>3. MapsInv'
        BY <1>1, <1>8, FormatKeepsMaps, TablemapKeepsMaps, RowsKeepMaps
    <2> QED
        BY <2>2, <2>3 DEF MirrorInv, LogPart
<1>9. ASSUME SendData \/ UNCHANGED vars PROVE MirrorInv'
    BY <1>9, OthersKeepMirror DEF SendData, vars, server, parser
<1> QED
    BY <1>2, <1>3, <1>4, <1>5, <1>6, <1>7, <1>8, <1>9 DEF Next, Server

\* The ids of the log, the tables' present definitions and the parser's maps
\* belong together, whatever is altered, restarted or dumped again.
THEOREM MirrorInductive == Spec => []MirrorInv
<1>1. Init => MirrorInv
    BY InitMirror
<1>2. MirrorInv /\ [Next]_vars => MirrorInv'
    BY NextMirror
<1> QED
    BY <1>1, <1>2, PTL DEF Spec

\* Where a Rows event is next, its id has the table map of its definition.
LEMMA EventMap ==
    ASSUME MirrorInv, cursor < Len(log), Event.type = "rows",
           NEW map, map = maps[Event.id]
    PROVE  /\ cursor + 1 \in DOMAIN log
           /\ Event.table \in Tables /\ Event.types \in Schemas
           /\ Event.id \in DOMAIN maps
           /\ map.table = Event.table /\ map.types = Event.types
           /\ map.metas \in Seq(STRING) /\ Len(map.metas) >= Len(Event.types)
           /\ \A k \in 1..Len(Event.types) : map.metas[k] = Event.types[k]
<1> DEFINE c == cursor
           id == Event.id
<1> USE DEF IsNamed
<1>1. LogInv /\ FileInv /\ MappedInv /\ MapsInv
    BY DEF MirrorInv
<1>2. /\ Len(log) \in Nat /\ DOMAIN log = 1..Len(log) /\ log[1].type = "format"
      /\ c \in 0..Len(log) /\ c < Len(log) /\ Event = log[c + 1]
    BY <1>1, LogBasics DEF LogInv, MapsInv, Event
<1>3. c > 0 /\ c + 1 \in DOMAIN log
    BY <1>2
<1>4. PICK j \in 1..c : log[j].type = "map" /\ log[j].id = id /\ SameFile(j, c + 1)
    BY <1>1, <1>2, <1>3 DEF MappedInv
<1>5. SameFile(j, c)
    BY <1>2, <1>4 DEF SameFile
<1>6. id \in DOMAIN maps
    BY <1>1, <1>4, <1>5 DEF MapsInv
<1>7. PICK i \in 1..c :
          /\ log[i].type = "map" /\ log[i].id = id /\ SameFile(i, c)
          /\ maps[id].table = log[i].table /\ maps[id].types = log[i].types
          /\ maps[id].metas \in Seq(STRING) /\ Len(maps[id].metas) >= Len(log[i].types)
          /\ \A k \in 1..Len(log[i].types) : maps[id].metas[k] = log[i].types[k]
    BY <1>1, <1>3, <1>6 DEF MapsInv
<1>8. SameFile(i, c + 1)
    BY <1>2, <1>7 DEF SameFile
<1>9. log[i].table = Event.table /\ log[i].types = Event.types
    <2>1. i \in DOMAIN log /\ i <= c + 1
        BY <1>2, <1>7
    <2> QED
        BY <2>1, <1>1, <1>2, <1>3, <1>7, <1>8 DEF FileInv
<1>10. Event.table \in Tables /\ Event.types \in Schemas
    BY <1>1, <1>2, <1>3 DEF LogInv
<1> QED
    BY <1>3, <1>6, <1>7, <1>9, <1>10

\* So it gives the parser the right table map.
LEMMA MirrorGivesMap == MirrorInv => TableMapMatchesRows
<1> SUFFICES ASSUME MirrorInv, cursor < Len(log), Event.type = "rows"
             PROVE  /\ Event.id \in DOMAIN maps
                    /\ maps[Event.id].table = Event.table
                    /\ maps[Event.id].types = Event.types
                    /\ SubSeq(maps[Event.id].metas, 1, Len(Event.types)) = Event.types
    BY DEF TableMapMatchesRows
<1> DEFINE metas == maps[Event.id].metas
           own == Event.types
<1>1. /\ Event.id \in DOMAIN maps /\ maps[Event.id].table = Event.table
      /\ maps[Event.id].types = own /\ own \in Schemas
      /\ metas \in Seq(STRING) /\ Len(metas) >= Len(own)
      /\ \A k \in 1..Len(own) : metas[k] = own[k]
    BY EventMap
<1>2. own \in Seq(STRING)
    BY <1>1, RowMirrorAssumption
<1>3. SubSeq(metas, 1, Len(own)) = own
    <2>1. /\ metas \in Seq(STRING) /\ own \in Seq(STRING)
          /\ Len(metas) >= Len(own) /\ Len(metas) \in Nat /\ Len(own) \in Nat
          /\ \A k \in 1..Len(own) : metas[k] = own[k] /\ metas[k] \in STRING
        BY <1>1, <1>2, LenProperties, ElementOfSeq
    <2> HIDE DEF metas, own
    <2>2. /\ SubSeq(metas, 1, Len(own)) \in Seq(STRING)
          /\ Len(SubSeq(metas, 1, Len(own))) = Len(own)
          /\ \A k \in 1..Len(own) : SubSeq(metas, 1, Len(own))[k] = metas[k]
        BY <2>1
    <2> QED
        BY <2>1, <2>2, SeqEqual
<1> QED
    BY <1>1, <1>3

\* Every Rows event the parser handles meets the table map of the definition it
\* was logged under: NormalPacket's map of table ids is never stale.
THEOREM MirrorTableMapMatchesRows == Spec => []TableMapMatchesRows
<1>1. MirrorInv => TableMapMatchesRows
    BY MirrorGivesMap
<1> QED
    BY <1>1, MirrorInductive, PTL

-----------------------------------------------------------------------------
(* Numbers and maps.                                                       *)

\* A set of numbers has a least element.
LEMMA Least ==
    ASSUME NEW T \in SUBSET Nat, T # {}
    PROVE  \E m \in T : \A k \in T : m <= k
<1> DEFINE R == OpToRel(<, Nat)
<1>1. IsWellFoundedOn(R, Nat)
    BY NatLessThanWellFounded
<1>2. \A x, y \in Nat : y < x => <<y, x>> \in R
    BY DEF OpToRel
<1> HIDE DEF R
<1>3. PICK m \in T : \A y \in T : <<y, m>> \notin R
    BY <1>1, WFMin
<1>4. ASSUME NEW k \in T PROVE m <= k
    <2>1. k \in Nat /\ m \in Nat /\ ~(k < m)
        BY <1>2, <1>3
    <2> QED
        BY <2>1
<1> QED
    BY <1>4

\* A set of numbers with a bound has a greatest element.
LEMMA Greatest ==
    ASSUME NEW T \in SUBSET Nat, T # {}, NEW n \in Nat, \A k \in T : k <= n
    PROVE  \E m \in T : \A k \in T : k <= m
<1> DEFINE U == {n - k : k \in T}
<1>1. U \in SUBSET Nat /\ U # {}
    <2>1. \A k \in T : k \in Nat /\ n - k \in Nat
        OBVIOUS
    <2> QED
        BY <2>1
<1>2. PICK u \in U : \A v \in U : u <= v
    BY <1>1, Least
<1>3. PICK m \in T : u = n - m
    OBVIOUS
<1>4. ASSUME NEW k \in T PROVE k <= m
    <2>1. n - k \in U
        OBVIOUS
    <2>2. n - m <= n - k
        BY <1>2, <1>3, <2>1
    <2> QED
        BY <2>2
<1> QED
    BY <1>4

\* A finite set of numbers can be put in increasing order.
LEMMA Increasing ==
    ASSUME NEW S \in SUBSET Nat, IsFiniteSet(S)
    PROVE  \E s \in [1..Cardinality(S) -> S] : \A i, j \in DOMAIN s : i < j => s[i] < s[j]
<1> DEFINE Ordered(U) ==
               \E s \in [1..Cardinality(U) -> U] : \A i, j \in DOMAIN s : i < j => s[i] < s[j]
           Bad == {Cardinality(U) : U \in {V \in SUBSET S : ~Ordered(V)}}
<1>1. \A U \in SUBSET S : IsFiniteSet(U) /\ Cardinality(U) \in Nat
    BY FS_Subset, FS_CardinalityType
<1>2. SUFFICES ASSUME Bad # {} PROVE FALSE
    OBVIOUS
<1>3. Bad \in SUBSET Nat
    BY <1>1
<1>4. PICK n \in Bad : \A k \in Bad : n <= k
    BY <1>2, <1>3, Least
<1>5. PICK U \in SUBSET S : n = Cardinality(U) /\ ~Ordered(U)
    OBVIOUS
<1>6. U # {}
    <2> SUFFICES ASSUME U = {} PROVE FALSE
        OBVIOUS
    <2>1. Cardinality(U) = 0
        BY FS_EmptySet
    <2>2. << >> \in [1..0 -> U]
        OBVIOUS
    <2> QED
        BY <2>1, <2>2, <1>5
<1>7. PICK m \in U : \A k \in U : m <= k
    BY <1>6, Least
<1> DEFINE V == U \ {m}
<1>8. V \in SUBSET S /\ Cardinality(V) = n - 1 /\ n \in Nat /\ n > 0
    <2>1. Cardinality(V) = n - 1 /\ Cardinality(V) \in Nat
        BY <1>1, <1>5, FS_RemoveElement
    <2> QED
        BY <2>1, <1>3
<1>9. Ordered(V)
    <2>1. SUFFICES ASSUME ~Ordered(V) PROVE FALSE
        OBVIOUS
    <2>2. Cardinality(V) \in Bad
        BY <2>1, <1>8
    <2>3. n <= n - 1
        BY <2>2, <1>4, <1>8
    <2> QED
        BY <2>3, <1>8
<1>10. PICK s \in [1..n - 1 -> V] : \A i, j \in 1..n - 1 : i < j => s[i] < s[j]
    BY <1>8, <1>9
<1> DEFINE t == [i \in 1..n |-> IF i = 1 THEN m ELSE s[i - 1]]
<1> HIDE DEF Bad, Ordered
<1>11. \A i \in 1..n : i # 1 => i - 1 \in 1..n - 1
    BY <1>8
<1>12. t[1] = m /\ \A i \in 1..n : i # 1 => t[i] = s[i - 1] /\ s[i - 1] \in V
    BY <1>8, <1>10, <1>11
<1>13. t \in [1..n -> U]
    BY <1>12
<1>14. ASSUME NEW i \in 1..n, NEW j \in 1..n, i < j PROVE t[i] < t[j]
    <2>1. j # 1 /\ t[j] = s[j - 1] /\ s[j - 1] \in V
        BY <1>14, <1>12
    <2>2. CASE i = 1
        <3>1. m <= s[j - 1] /\ m # s[j - 1] /\ m \in Nat /\ s[j - 1] \in Nat
            BY <2>1, <1>7, <1>8
        <3> QED
            BY <2>1, <2>2, <3>1, <1>12
    <2>3. CASE i # 1
        <3>1. t[i] = s[i - 1] /\ i - 1 \in 1..n - 1 /\ j - 1 \in 1..n - 1 /\ i - 1 < j - 1
            BY <2>1, <2>3, <1>14, <1>11, <1>12
        <3> QED
            BY <2>1, <3>1, <1>10
    <2> QED
        BY <2>2, <2>3
<1> QED
    <2>1. Ordered(U)
        BY <1>5, <1>13, <1>14 DEF Ordered
    <2> QED
        BY <2>1, <1>5

\* First finds the least place, if there is one.
LEMMA FirstFinds ==
    ASSUME NEW f, DOMAIN f \in SUBSET Nat, NEW name, \E c \in DOMAIN f : f[c] = name
    PROVE  /\ First(f, name) \in DOMAIN f /\ f[First(f, name)] = name
           /\ \A c \in DOMAIN f : f[c] = name => First(f, name) <= c
<1> DEFINE T == {c \in DOMAIN f : f[c] = name}
<1>1. T \in SUBSET Nat /\ T # {}
    OBVIOUS
<1>2. PICK m \in T : \A k \in T : m <= k
    BY <1>1, Least
<1>3. m \in DOMAIN f /\ f[m] = name /\ \A c \in DOMAIN f : f[c] = name => m <= c
    BY <1>2
<1> QED
    BY <1>3 DEF First

\* A map has the keys assigned to it.
LEMMA AssignedKeys ==
    ASSUME NEW n, NEW pairs, DOMAIN pairs = 1..n
    PROVE  DOMAIN Assigned(pairs) = {pairs[i][1] : i \in 1..n}
BY DEF Assigned

\* Each of them has a value that was assigned to it.
LEMMA AssignedValue ==
    ASSUME NEW n \in Nat, NEW pairs, DOMAIN pairs = 1..n, NEW key \in DOMAIN Assigned(pairs)
    PROVE  \E i \in 1..n : pairs[i][1] = key /\ pairs[i][2] = Assigned(pairs)[key]
<1> DEFINE T == {i \in 1..n : pairs[i][1] = key}
<1>1. key \in {pairs[i][1] : i \in DOMAIN pairs}
    BY DEF Assigned
<1>2. T \in SUBSET Nat /\ T # {} /\ \A k \in T : k <= n
    BY <1>1
<1>3. PICK m \in T : \A k \in T : k <= m
    BY <1>2, Greatest
<1> DEFINE last == CHOOSE i \in DOMAIN pairs :
               pairs[i][1] = key /\ \A j \in DOMAIN pairs : pairs[j][1] = key => j <= i
<1>4. m \in DOMAIN pairs /\ pairs[m][1] = key
      /\ \A j \in DOMAIN pairs : pairs[j][1] = key => j <= m
    BY <1>3
<1>5. last \in DOMAIN pairs /\ pairs[last][1] = key
    BY <1>4
<1>6. Assigned(pairs)[key] = pairs[last][2]
    BY <1>1 DEF Assigned
<1> QED
    BY <1>5, <1>6

-----------------------------------------------------------------------------
(* The configuration.                                                      *)

\* Each configured table has a finite map of columns and came with an item.
LEMMA FilterItem ==
    ASSUME NEW d \in DOMAIN Filters
    PROVE  /\ DOMAIN Filters[d] \in SUBSET Nat /\ IsFiniteSet(DOMAIN Filters[d])
           /\ \E item \in ToSet(FilterItems) : DbTable(item.db, item.table) = d
<1> DEFINE n == Len(FilterItems)
           pairs == [i \in DOMAIN FilterItems |->
                        <<DbTable(FilterItems[i].db, FilterItems[i].table),
                          LoadMysqlFilterConfig(FilterItems[i])>>]
           Item == [db : Seq(STRING), table : Seq(STRING),
                    reserve : Seq([index : Nat, name : STRING])]
<1>1. n \in Nat /\ DOMAIN FilterItems = 1..n /\ \A i \in 1..n : FilterItems[i] \in Item
    <2>1. FilterItems \in Seq(Item)
        BY ItemsAssumption
    <2> HIDE DEF Item
    <2> QED
        BY <2>1, LenProperties, ElementOfSeq
<1>2. DOMAIN pairs = 1..n
    BY <1>1
<1>3. Filters = Assigned(pairs)
    BY DEF Filters
<1> HIDE DEF pairs, n
<1>4. PICK i \in 1..n : pairs[i][1] = d /\ Filters[d] = pairs[i][2]
    <2>1. n \in Nat
        BY <1>1
    <2>2. d \in DOMAIN Assigned(pairs)
        BY <1>3
    <2>3. \E i \in 1..n : pairs[i][1] = d /\ pairs[i][2] = Assigned(pairs)[d]
        BY <2>1, <2>2, <1>2, AssignedValue
    <2> QED
        BY <2>3, <1>3
<1>5. /\ DbTable(FilterItems[i].db, FilterItems[i].table) = d
      /\ Filters[d] = LoadMysqlFilterConfig(FilterItems[i])
    BY <1>1, <1>4 DEF pairs
<1>6. \E item \in ToSet(FilterItems) : DbTable(item.db, item.table) = d
    BY <1>1, <1>5 DEF ToSet
<1> DEFINE reserve == FilterItems[i].reserve
           m == Len(reserve)
           columns == [j \in DOMAIN reserve |-> <<reserve[j].index, reserve[j].name>>]
<1>7. reserve \in Seq([index : Nat, name : STRING])
    BY <1>1
<1> HIDE DEF reserve
<1>8. m \in Nat /\ DOMAIN reserve = 1..m /\ \A j \in 1..m : reserve[j].index \in Nat
    <2>1. m \in Nat /\ DOMAIN reserve = 1..m
        BY <1>7, LenProperties
    <2>2. \A j \in 1..m : reserve[j] \in [index : Nat, name : STRING]
        BY <1>7, ElementOfSeq
    <2> QED
        BY <2>1, <2>2
<1> HIDE DEF m
<1>9. DOMAIN columns = 1..m /\ \A j \in 1..m : columns[j][1] \in Nat
    BY <1>8
<1>10. Filters[d] = Assigned(columns)
    BY <1>5 DEF LoadMysqlFilterConfig, reserve
<1> HIDE DEF columns
<1>11. DOMAIN Filters[d] = {columns[j][1] : j \in 1..m}
    BY <1>8, <1>9, <1>10, AssignedKeys
<1>12. IsFiniteSet(DOMAIN Filters[d])
    <2> DEFINE index == [j \in 1..m |-> columns[j][1]]
    <2>1. index \in Surjection(1..m, DOMAIN Filters[d])
        BY <1>11 DEF Surjection
    <2>2. IsFiniteSet(1..m)
        BY <1>8, FS_Interval
    <2> HIDE DEF index
    <2> QED
        BY <2>1, <2>2, FS_Surjection
<1> QED
    BY <1>6, <1>9, <1>11, <1>12

\* Each imported table came with its item.
LEMMA ImportItem ==
    ASSUME NEW d \in DOMAIN Imports
    PROVE  Imports[d] \in ToSet(ImportItems) /\ Imports[d].db_table = d
<1> DEFINE n == Len(ImportItems)
           pairs == [i \in DOMAIN ImportItems |-> <<ImportItems[i].db_table, ImportItems[i]>>]
<1>1. n \in Nat /\ DOMAIN ImportItems = 1..n
    BY ItemsAssumption, LenProperties
<1>2. DOMAIN pairs = 1..n
    BY <1>1
<1>3. Imports = Assigned(pairs)
    BY DEF Imports
<1> HIDE DEF pairs, n
<1>4. PICK i \in 1..n : pairs[i][1] = d /\ Imports[d] = pairs[i][2]
    <2>1. n \in Nat
        BY <1>1
    <2>2. d \in DOMAIN Assigned(pairs)
        BY <1>3
    <2>3. \E i \in 1..n : pairs[i][1] = d /\ pairs[i][2] = Assigned(pairs)[d]
        BY <2>1, <2>2, <1>2, AssignedValue
    <2> QED
        BY <2>3, <1>3
<1>5. ImportItems[i].db_table = d /\ Imports[d] = ImportItems[i]
    BY <1>1, <1>4 DEF pairs
<1> QED
    BY <1>1, <1>5 DEF ToSet

\* Kept lists the configured columns, all of them, in increasing order.
LEMMA KeptLists ==
    ASSUME NEW line, line.db_table \in DOMAIN Filters,
           NEW kept, kept = Kept(line), NEW columns, columns = DOMAIN Filters[line.db_table],
           NEW n, n = Cardinality(columns)
    PROVE  /\ n \in Nat
           /\ kept \in [1..n -> columns]
           /\ \A i, j \in 1..n : i < j => kept[i] < kept[j]
           /\ \A c \in columns : \E i \in 1..n : kept[i] = c
<1>1. columns \in SUBSET Nat /\ IsFiniteSet(columns)
    BY FilterItem
<1>2. n \in Nat
    BY <1>1, FS_CardinalityType
<1>3. \E s \in [1..n -> columns] : \A i, j \in DOMAIN s : i < j => s[i] < s[j]
    BY <1>1, Increasing
<1>4. kept = CHOOSE s \in [1..n -> columns] : \A i, j \in DOMAIN s : i < j => s[i] < s[j]
    BY DEF Kept
<1>5. kept \in [1..n -> columns] /\ \A i, j \in DOMAIN kept : i < j => kept[i] < kept[j]
    BY <1>3, <1>4
<1>6. \A i, j \in 1..n : i < j => kept[i] < kept[j]
    BY <1>5
<1>7. kept \in Injection(1..n, columns)
    <2>1. ASSUME NEW i \in 1..n, NEW j \in 1..n, i # j PROVE kept[i] # kept[j]
        <3>1. kept[i] \in Nat /\ kept[j] \in Nat
            BY <1>1, <1>5
        <3>2. CASE i < j
            BY <3>1, <3>2, <1>6
        <3>3. CASE j < i
            BY <3>1, <3>3, <1>6
        <3> QED
            BY <3>2, <3>3, <1>2, <2>1
    <2> QED
        BY <2>1, <1>5 DEF Injection, IsInjective
<1>8. Cardinality(1..n) = n
    BY <1>2, FS_Interval
<1>9. kept \in Surjection(1..n, columns)
    <2>1. Cardinality(columns) = n
        OBVIOUS
    <2> QED
        BY <2>1, <1>1, <1>7, <1>8, FS_Injection
<1>10. \A c \in columns : \E i \in 1..n : kept[i] = c
    BY <1>9 DEF Surjection
<1> QED
    BY <1>2, <1>5, <1>6, <1>10

\* The names of the kept columns.
NamesOf(d, kept) == [c \in DOMAIN kept |-> Filters[d][kept[c]]]

\* GetColumnIndexByName finds in them the first configured column of a name.
LEMMA KeptFirst ==
    ASSUME NEW line, NEW d, d = line.db_table, d \in DOMAIN Filters,
           NEW kept, kept = Kept(line), NEW name
    PROVE  /\ name \in ToSet(NamesOf(d, kept))
                  <=> \E c \in DOMAIN Filters[d] : Filters[d][c] = name
           /\ name \in ToSet(NamesOf(d, kept)) =>
                  /\ First(NamesOf(d, kept), name) \in DOMAIN kept
                  /\ kept[First(NamesOf(d, kept), name)] = First(Filters[d], name)
<1> DEFINE columns == DOMAIN Filters[d]
           names == NamesOf(d, kept)
           n == Cardinality(columns)
<1>1. /\ n \in Nat
      /\ kept \in [1..n -> columns]
      /\ \A i, j \in 1..n : i < j => kept[i] < kept[j]
      /\ \A c \in columns : \E i \in 1..n : kept[i] = c
    BY KeptLists
<1> HIDE DEF n
<1>2. columns \in SUBSET Nat
    BY FilterItem
<1>3. DOMAIN names = 1..n /\ \A i \in 1..n : names[i] = Filters[d][kept[i]]
    BY <1>1 DEF NamesOf
<1> HIDE DEF names
<1>4. name \in ToSet(names) <=> \E c \in columns : Filters[d][c] = name
    BY <1>1, <1>3 DEF ToSet
<1>5. ASSUME name \in ToSet(names)
      PROVE  First(names, name) \in DOMAIN kept /\ kept[First(names, name)] = First(Filters[d], name)
    <2> DEFINE f == First(names, name)
               g == First(Filters[d], name)
    <2>1. \E i \in DOMAIN names : names[i] = name
        BY <1>5 DEF ToSet
    <2>2. DOMAIN names \in SUBSET Nat
        BY <1>3
    <2>3. f \in 1..n /\ names[f] = name /\ \A i \in 1..n : names[i] = name => f <= i
        BY <2>1, <2>2, <1>3, FirstFinds
    <2>4. g \in columns /\ Filters[d][g] = name /\ \A c \in columns : Filters[d][c] = name => g <= c
        BY <1>2, <1>4, <1>5, FirstFinds
    <2>5. PICK i \in 1..n : kept[i] = g
        BY <2>4, <1>1
    <2>6. f <= i
        BY <2>3, <2>4, <2>5, <1>3
    <2>7. kept[f] \in columns /\ Filters[d][kept[f]] = name
        BY <2>3, <1>1, <1>3
    <2>8. g <= kept[f]
        BY <2>4, <2>7
    <2>9. g \in Nat /\ kept[f] \in Nat
        BY <2>4, <2>7, <1>2
    <2>10. f = i
        <3>1. CASE f < i
            <4>1. kept[f] < g
                BY <3>1, <2>3, <2>5, <1>1
            <4> QED
                BY <4>1, <2>8, <2>9
        <3> QED
            BY <3>1, <2>3, <2>5, <2>6
    <2> QED
        BY <2>3, <2>5, <2>10, <1>1
<1> QED
    BY <1>4, <1>5 DEF names
-----------------------------------------------------------------------------
(* Rows and their images.                                                  *)

\* A row has one value or more, all of them from RowValues.
LEMMA RowShape ==
    ASSUME NEW row \in Rows
    PROVE  /\ Len(row) \in Nat /\ Len(row) >= 1 /\ DOMAIN row = 1..Len(row)
           /\ \A i \in 1..Len(row) : row[i] \in UNION {ToSet(r) : r \in RowValues}
<1>1. PICK full \in RowValues, schema \in Schemas : row = Cut(full, schema)
    BY DEF Rows
<1>2. full \in Seq(STRING) /\ full # << >> /\ Len(schema) >= 2
    BY ValuesAssumption
<1>3. schema \in Seq(STRING)
    BY RowMirrorAssumption
<1> DEFINE n == Len(full)
           w == Len(schema)
<1>4. n \in Nat /\ DOMAIN full = 1..n /\ w \in Nat /\ n >= 1
    <2>1. n \in Nat /\ DOMAIN full = 1..n /\ w \in Nat
        BY <1>2, <1>3, LenProperties
    <2>2. n # 0
        BY <1>2, EmptySeq
    <2> QED
        BY <2>1, <2>2
<1> HIDE DEF n
<1>5. row = [i \in {j \in 1..n : j < w} |-> full[i]]
    BY <1>1, <1>4 DEF Cut
<1> HIDE DEF w
<1>6. w >= 2
    BY <1>2 DEF w
<1>7. PICK m \in Nat : m >= 1 /\ m <= n /\ {j \in 1..n : j < w} = 1..m
    <2>1. CASE n < w
        BY <2>1, <1>4
    <2>2. CASE w <= n
        <3>1. w - 1 \in Nat /\ w - 1 >= 1 /\ w - 1 <= n
              /\ {j \in 1..n : j < w} = 1..w - 1
            BY <2>2, <1>4, <1>6 DEF w
        <3> QED
            BY <3>1
    <2> QED
        BY <2>1, <2>2, <1>4 DEF w
<1>8. row = [i \in 1..m |-> full[i]]
    BY <1>5, <1>7
<1>9. \A i \in 1..m : full[i] \in ToSet(full)
    BY <1>4, <1>7 DEF ToSet
<1>10. row \in Seq(ToSet(full)) /\ Len(row) = m
    <2>1. row \in [1..m -> ToSet(full)]
        BY <1>8, <1>9
    <2>2. row \in Seq(ToSet(full))
        BY <2>1, <1>7, SeqDef
    <2> QED
        BY <2>1, <2>2, <1>7, LenProperties
<1> QED
    BY <1>1, <1>7, <1>8, <1>9, <1>10

\* A row cut to a definition is a row, with the values it had.
LEMMA CutShape ==
    ASSUME NEW row \in Rows \cup {NoRow}, NEW schema \in Schemas
    PROVE  /\ Cut(row, schema) \in Rows \cup {NoRow}
           /\ Cut(row, schema) = NoRow <=> row = NoRow
           /\ row # NoRow => /\ Len(Cut(row, schema)) =
                                   IF Len(row) < Len(schema) THEN Len(row) ELSE Len(schema) - 1
                             /\ \A i \in 1..Len(Cut(row, schema)) : Cut(row, schema)[i] = row[i]
<1>1. CASE row = NoRow
    BY <1>1 DEF Cut, NoRow
<1>2. CASE row # NoRow
    <2>1. PICK full \in RowValues, first \in Schemas : row = Cut(full, first)
        BY <1>2 DEF Rows
    <2>2. Len(first) \in Nat /\ Len(schema) \in Nat /\ Len(schema) >= 2
        BY RowMirrorAssumption, ValuesAssumption, LenProperties
    <2>3. full \in Seq(STRING) /\ DOMAIN full = 1..Len(full) /\ Len(full) \in Nat
        BY ValuesAssumption, LenProperties
    <2>4. row \in Rows /\ Len(row) \in Nat /\ Len(row) >= 1 /\ DOMAIN row = 1..Len(row)
        BY <1>2, RowShape
    <2>5. Cut(row, schema) \in Rows
        <3>1. row = [i \in {j \in 1..Len(full) : j < Len(first)} |-> full[i]]
            BY <2>1, <2>3 DEF Cut
        <3>2. Cut(row, schema) =
                  [i \in {j \in 1..Len(full) : j < Len(first) /\ j < Len(schema)} |-> full[i]]
            BY <3>1 DEF Cut
        <3>3. CASE Len(first) <= Len(schema)
            <4>1. {j \in 1..Len(full) : j < Len(first) /\ j < Len(schema)}
                      = {j \in 1..Len(full) : j < Len(first)}
                BY <3>3, <2>2, <2>3
            <4> QED
                BY <4>1, <3>1, <3>2, <2>4
        <3>4. CASE Len(schema) < Len(first)
            <4>1. {j \in 1..Len(full) : j < Len(first) /\ j < Len(schema)}
                      = {j \in 1..Len(full) : j < Len(schema)}
                BY <3>4, <2>2, <2>3
            <4>2. Cut(row, schema) = Cut(full, schema)
                BY <4>1, <3>2, <2>3 DEF Cut
            <4> QED
                BY <4>2 DEF Rows
        <3> QED
            BY <3>3, <3>4, <2>2
    <2> DEFINE cut == Cut(row, schema)
               n == IF Len(row) < Len(schema) THEN Len(row) ELSE Len(schema) - 1
    <2>6. /\ DOMAIN cut = 1..n /\ n \in Nat /\ n >= 1 /\ \A i \in 1..n : cut[i] = row[i]
          /\ cut = [i \in 1..n |-> row[i]]
        <3>1. cut = [i \in {j \in 1..Len(row) : j < Len(schema)} |-> row[i]]
            BY <2>4 DEF Cut
        <3>2. {j \in 1..Len(row) : j < Len(schema)} = 1..n
            BY <2>2, <2>4
        <3> QED
            BY <3>1, <3>2, <2>2, <2>4
    <2>7. Len(cut) = n
        <3> DEFINE R == {row[i] : i \in 1..n}
        <3> HIDE DEF cut, n
        <3>1. cut \in [1..n -> R]
            BY <2>6
        <3> HIDE DEF R
        <3>2. cut \in Seq(R)
            BY <3>1, <2>6, SeqDef
        <3> QED
            BY <3>1, <3>2, <2>6, LenProperties
    <2>8. cut # NoRow
        <3>1. 1 \in DOMAIN cut
            BY <2>6
        <3> HIDE DEF cut
        <3> QED
            BY <3>1 DEF NoRow
    <2> QED
        BY <1>2, <2>5, <2>6, <2>7, <2>8
<1> QED
    BY <1>1, <1>2

\* The server's tables.
TablesOK ==
    /\ types \in [Tables -> Schemas]
    /\ rows \in [Tables -> [Keys -> Rows \cup {NoRow}]]

\* What a statement writes is a row.
LEMMA NewRowsAreRows ==
    ASSUME TablesOK, NEW t \in Tables, NEW row \in NewRows(t)
    PROVE  row \in Rows
BY DEF TablesOK, NewRows, Rows

\* The binlog shows a row in full.
LEMMA ImageShape ==
    ASSUME TablesOK, NEW t \in Tables, NEW k \in Keys, NEW row \in Rows
    PROVE  /\ IsImage(Image(t, k, row), Len(types[t])) /\ Image(t, k, row)[1] = k
           /\ Len(types[t]) \in Nat /\ Len(types[t]) >= 2
<1> DEFINE w == Len(types[t])
           image == Image(t, k, row)
<1>1. w \in Nat /\ w >= 2
    BY RowMirrorAssumption, ValuesAssumption, LenProperties DEF TablesOK
<1>2. /\ Len(row) \in Nat /\ DOMAIN row = 1..Len(row)
      /\ \A i \in 1..Len(row) : row[i] \in Values
    BY RowShape DEF Values
<1> HIDE DEF w
<1>3. image = [i \in 1..w |-> IF i = 1 THEN k ELSE IF i - 1 <= Len(row) THEN row[i - 1] ELSE Null]
    BY DEF Image, w
<1>4. \A c \in 1..w : image[c] \in Values
    <2> SUFFICES ASSUME NEW c \in 1..w PROVE image[c] \in Values
        OBVIOUS
    <2>1. CASE c = 1
        <3>1. image[c] = k
            BY <2>1, <1>3
        <3> QED
            BY <3>1 DEF Values
    <2>2. CASE c # 1 /\ c - 1 <= Len(row)
        <3>1. c - 1 \in 1..Len(row)
            BY <2>2, <1>1, <1>2
        <3>2. image[c] = row[c - 1]
            BY <2>2, <1>3
        <3>3. row[c - 1] \in Values
            BY <3>1, <1>2
        <3> HIDE DEF image
        <3> QED
            BY <3>2, <3>3
    <2>3. CASE c # 1 /\ ~(c - 1 <= Len(row))
        <3>1. image[c] = Null
            BY <2>3, <1>3
        <3> QED
            BY <3>1 DEF Values
    <2> HIDE DEF image
    <2> QED
        BY <2>1, <2>2, <2>3
<1>5. 1 \in 1..w /\ image[1] = k
    BY <1>1, <1>3
<1>6. DOMAIN image = 1..w
    BY <1>3
<1> HIDE DEF image
<1>7. IsImage(image, w) /\ image[1] = k
    BY <1>4, <1>5, <1>6 DEF IsImage
<1> QED
    BY <1>1, <1>7 DEF image, w
-----------------------------------------------------------------------------
(* Statements.                                                             *)

\* A statement leaves other tables alone, logs what the rows become, and changes
\* no other row of its table but to remove it.
Effect(t, kind, images) ==
    /\ LogRows(t, kind, images)
    /\ kind \in {"insert", "update", "delete"}
    /\ AreImages(images, kind, Len(types[t]))
    /\ \A u \in Tables \ {t} : rows'[u] = rows[u]
    /\ kind # "delete" =>
        \A image \in ToSet(images) :
            /\ image.new[1] \in Keys
            /\ image.new = Image(t, image.new[1], rows'[t][image.new[1]])
    /\ \A k \in Keys :
        \/ rows'[t][k] = rows[t][k] \/ rows'[t][k] = NoRow
        \/ kind # "delete" /\ \E image \in ToSet(images) : image.new[1] = k

\* The rows inserted are those logged, the others stay.
LEMMA InsertEffect ==
    ASSUME TablesOK, NEW t \in Tables, Insert(t)
    PROVE  TablesOK' /\ \E images : Effect(t, "insert", images)
<1>a. PICK ks \in SUBSET {k \in Keys : ~Present(t, k)} : \E new \in [ks -> NewRows(t)] :
          /\ rows' = [rows EXCEPT ![t] = [k \in Keys |-> IF k \in ks THEN new[k] ELSE @[k]]]
          /\ LET order == SetToSeq(ks)
             IN LogRows(t, "insert", [i \in DOMAIN order |->
                    [old |-> << >>, new |-> Image(t, order[i], new[order[i]])]])
    BY DEF Insert
<1>1. PICK new \in [ks -> NewRows(t)] :
          /\ rows' = [rows EXCEPT ![t] = [k \in Keys |-> IF k \in ks THEN new[k] ELSE @[k]]]
          /\ LogRows(t, "insert", [i \in DOMAIN SetToSeq(ks) |->
                 [old |-> << >>, new |-> Image(t, SetToSeq(ks)[i], new[SetToSeq(ks)[i]])]])
    BY <1>a
<1> DEFINE order == SetToSeq(ks)
           images == [i \in DOMAIN order |->
                         [old |-> << >>, new |-> Image(t, order[i], new[order[i]])]]
           n == Len(order)
<1>2. types' = types
    BY DEF Insert
<1>3. ks \subseteq Keys /\ IsFiniteSet(ks)
    BY ValuesAssumption, FS_Subset
<1>4. \A k \in ks : new[k] \in Rows
    BY NewRowsAreRows
<1>5. /\ DOMAIN order = 1..n /\ n \in Nat /\ \A i \in 1..n : order[i] \in ks
      /\ \A k \in ks : \E i \in 1..n : order[i] = k
    <2>1. order \in Seq(ks) /\ DOMAIN order = 1..n /\ \A k \in ks : \E i \in 1..n : order[i] = k
        BY <1>3, SetToSeqCovers
    <2> HIDE DEF order
    <2> QED
        BY <2>1, LenProperties, ElementOfSeq
<1>6. rows' \in [Tables -> [Keys -> Rows \cup {NoRow}]]
      /\ \A k \in Keys : rows'[t][k] = IF k \in ks THEN new[k] ELSE rows[t][k]
    BY <1>1, <1>3, <1>4 DEF TablesOK
<1>7. TablesOK'
    BY <1>2, <1>6 DEF TablesOK
<1>8. LogRows(t, "insert", images)
    BY <1>1
<1> HIDE DEF order, n
<1>9. DOMAIN images = 1..n
      /\ \A i \in 1..n : images[i] = [old |-> << >>, new |-> Image(t, order[i], new[order[i]])]
    BY <1>5
<1> HIDE DEF images
<1>10. images \in Seq(ToSet(images))
    <2>1. images \in [1..n -> ToSet(images)]
        <3>1. images = [i \in 1..n |->
                           [old |-> << >>, new |-> Image(t, order[i], new[order[i]])]]
            BY <1>5 DEF images
        <3>2. \A i \in 1..n : images[i] \in ToSet(images)
            BY <1>9 DEF ToSet
        <3> QED
            BY <3>1, <3>2
    <2> QED
        BY <2>1, <1>5, SeqDef
<1>11. ASSUME NEW image \in ToSet(images)
       PROVE  /\ image.old = << >> /\ IsImage(image.new, Len(types[t]))
              /\ image.new[1] \in Keys
              /\ image.new = Image(t, image.new[1], rows'[t][image.new[1]])
    <2>1. PICK i \in 1..n : image = images[i]
        BY <1>9 DEF ToSet
    <2> DEFINE k == order[i]
    <2>2. k \in ks /\ k \in Keys /\ new[k] \in Rows
        BY <1>3, <1>4, <1>5
    <2>3. image.old = << >> /\ image.new = Image(t, k, new[k])
        BY <2>1, <1>9
    <2>4. IsImage(Image(t, k, new[k]), Len(types[t])) /\ Image(t, k, new[k])[1] = k
        BY <2>2, ImageShape
    <2>5. rows'[t][k] = new[k]
        BY <2>2, <1>6
    <2> QED
        BY <2>2, <2>3, <2>4, <2>5
<1>12. AreImages(images, "insert", Len(types[t]))
    BY <1>10, <1>11 DEF AreImages
<1>13. \A u \in Tables \ {t} : rows'[u] = rows[u]
    BY <1>1 DEF TablesOK
<1>14. ASSUME NEW k \in ks PROVE \E image \in ToSet(images) : image.new[1] = k
    <2>1. PICK i \in 1..n : order[i] = k
        BY <1>5
    <2>2. images[i].new = Image(t, k, new[k]) /\ images[i] \in ToSet(images)
        BY <2>1, <1>9 DEF ToSet
    <2>3. Image(t, k, new[k])[1] = k
        BY <1>3, <1>4, ImageShape
    <2> QED
        BY <2>2, <2>3
<1>15. Effect(t, "insert", images)
    BY <1>6, <1>8, <1>11, <1>12, <1>13, <1>14 DEF Effect
<1> QED
    BY <1>7, <1>15

\* The row updated is the one logged; a row whose key it leaves is gone.
LEMMA UpdateEffect ==
    ASSUME TablesOK, NEW t \in Tables, Update(t)
    PROVE  TablesOK' /\ \E images : Effect(t, "update", images)
<1>1. PICK from \in Keys, to \in Keys, new \in NewRows(t) :
          /\ Present(t, from)
          /\ rows' = [rows EXCEPT ![t] =
                         [k \in Keys |-> IF k = to THEN new ELSE IF k = from THEN NoRow ELSE @[k]]]
          /\ LogRows(t, "update", <<[old |-> Image(t, from, rows[t][from]),
                                     new |-> Image(t, to, new)]>>)
    BY DEF Update
<1> DEFINE image == [old |-> Image(t, from, rows[t][from]), new |-> Image(t, to, new)]
           images == <<image>>
<1>2. types' = types
    BY DEF Update
<1>3. new \in Rows /\ rows[t][from] \in Rows
    BY <1>1, NewRowsAreRows DEF TablesOK, Present
<1>4. /\ rows' \in [Tables -> [Keys -> Rows \cup {NoRow}]]
      /\ rows'[t][to] = new
      /\ \A k \in Keys : k = to \/ rows'[t][k] = NoRow \/ rows'[t][k] = rows[t][k]
    <2> DEFINE row == [k \in Keys |-> IF k = to THEN new ELSE IF k = from THEN NoRow ELSE rows[t][k]]
    <2>1. rows' = [rows EXCEPT ![t] = row]
        BY <1>1
    <2>2. row \in [Keys -> Rows \cup {NoRow}]
        BY <1>3 DEF TablesOK
    <2>3. /\ row[to] = new
          /\ \A k \in Keys : k = to \/ row[k] = NoRow \/ row[k] = rows[t][k]
        OBVIOUS
    <2> HIDE DEF row
    <2> QED
        BY <2>1, <2>2, <2>3 DEF TablesOK
<1>5. TablesOK'
    BY <1>2, <1>4 DEF TablesOK
<1>6. /\ IsImage(image.old, Len(types[t])) /\ IsImage(image.new, Len(types[t]))
      /\ image.new[1] = to /\ image.new = Image(t, to, rows'[t][to])
    BY <1>3, <1>4, ImageShape
<1>7. LogRows(t, "update", images)
    BY <1>1
<1> HIDE DEF image
<1>8. images \in Seq({image}) /\ ToSet(images) = {image}
    BY DEF ToSet
<1>9. AreImages(images, "update", Len(types[t]))
    BY <1>6, <1>8 DEF AreImages
<1>10. \A u \in Tables \ {t} : rows'[u] = rows[u]
    BY <1>1 DEF TablesOK
<1> HIDE DEF images
<1>11. Effect(t, "update", images)
    BY <1>4, <1>6, <1>7, <1>8, <1>9, <1>10 DEF Effect
<1> QED
    BY <1>5, <1>11

\* The row deleted is gone, and nothing is written.
LEMMA DeleteEffect ==
    ASSUME TablesOK, NEW t \in Tables, Delete(t)
    PROVE  TablesOK' /\ \E images : Effect(t, "delete", images)
<1>1. PICK from \in Keys :
          /\ Present(t, from)
          /\ rows' = [rows EXCEPT ![t][from] = NoRow]
          /\ LogRows(t, "delete", <<[old |-> Image(t, from, rows[t][from]), new |-> << >>]>>)
    BY DEF Delete
<1> DEFINE image == [old |-> Image(t, from, rows[t][from]), new |-> << >>]
           images == <<image>>
<1>2. types' = types
    BY DEF Delete
<1>3. rows[t][from] \in Rows
    BY <1>1 DEF TablesOK, Present
<1>4. /\ rows' \in [Tables -> [Keys -> Rows \cup {NoRow}]]
      /\ \A k \in Keys : rows'[t][k] = NoRow \/ rows'[t][k] = rows[t][k]
    BY <1>1, <1>3 DEF TablesOK
<1>5. TablesOK'
    BY <1>2, <1>4 DEF TablesOK
<1>6. IsImage(image.old, Len(types[t])) /\ image.new = << >>
    BY <1>3, ImageShape
<1>7. LogRows(t, "delete", images)
    BY <1>1
<1> HIDE DEF image
<1>8. images \in Seq({image}) /\ ToSet(images) = {image}
    BY DEF ToSet
<1>9. AreImages(images, "delete", Len(types[t]))
    BY <1>6, <1>8 DEF AreImages
<1>10. \A u \in Tables \ {t} : rows'[u] = rows[u]
    BY <1>1 DEF TablesOK
<1> HIDE DEF images
<1>11. Effect(t, "delete", images)
    BY <1>4, <1>7, <1>9, <1>10 DEF Effect
<1> QED
    BY <1>5, <1>11
-----------------------------------------------------------------------------
(* The growing log.                                                        *)

\* Of a longer log, the old part writes what it wrote.
LEMMA WrittenStays ==
    ASSUME LogInv, NEW n, n = Len(log), NEW N, N = Len(log'), N >= n,
           log' \in Seq(ToSet(log')), \A i \in 1..n : log'[i] = log[i], NEW u
    PROVE  /\ n \in Nat /\ N \in Nat /\ DOMAIN log = 1..n /\ DOMAIN log' = 1..N
           /\ \A i \in 1..n : Written(i, u)' = Written(i, u)
           /\ Logged(u) \subseteq Logged(u)'
<1>1. n \in Nat /\ DOMAIN log = 1..n
    BY LogBasics
<1>2. N \in Nat /\ DOMAIN log' = 1..N
    BY LenProperties
<1>3. \A i \in 1..n : Written(i, u)' = Written(i, u)
    BY DEF Written
<1>4. \A i \in 1..n : i \in 1..N
    BY <1>1, <1>2
<1>5. Logged(u) \subseteq Logged(u)'
    BY <1>1, <1>2, <1>3, <1>4 DEF Logged
<1> QED
    BY <1>1, <1>2, <1>3, <1>5

\* A step that leaves the log alone.
LEMMA SameLog ==
    ASSUME log' = log, NEW u
    PROVE  Logged(u)' = Logged(u) /\ \A i : Written(i, u)' = Written(i, u)
BY DEF Logged, Written

\* A statement writes its images with its last event, under its own table.
LEMMA StatementWrites ==
    ASSUME IdsInv, LogInv, UNCHANGED <<ids, types>>,
           NEW t \in Tables, NEW kind, NEW images, LogRows(t, kind, images),
           NEW n, n = Len(log), NEW N, N = Len(log')
    PROVE  /\ n \in Nat /\ N \in Nat /\ N > n /\ DOMAIN log = 1..n /\ DOMAIN log' = 1..N
           /\ \A i \in 1..n : log'[i] = log[i]
           /\ \A i \in n + 1..N - 1 : log'[i].type = "map"
           /\ \A u : \A i \in 1..n : Written(i, u)' = Written(i, u)
           /\ \A u : \A i \in n + 1..N - 1 : Written(i, u)' = {}
           /\ \A u : Written(N, u)' =
                         IF u = t /\ kind # "delete" THEN {image.new : image \in ToSet(images)}
                         ELSE {}
           /\ \A u : Logged(u) \subseteq Logged(u)'
<1> DEFINE row == [type |-> "rows", kind |-> kind, id |-> ids[t],
                   table |-> t, types |-> types[t], images |-> images]
<1>1. /\ log' \in Seq(ToSet(log')) /\ N > n /\ \A i \in 1..n : log'[i] = log[i]
      /\ \A i \in n + 1..N - 1 : log'[i].type = "map"
      /\ log'[N] = row
    BY LogRowsExtends
<1>2. N \in Nat /\ n \in Nat
    BY <1>1, LogBasics, LenProperties
<1>3. N >= n
    BY <1>1, <1>2
<1>4. \A u : /\ DOMAIN log = 1..n /\ DOMAIN log' = 1..N
             /\ \A i \in 1..n : Written(i, u)' = Written(i, u)
             /\ Logged(u) \subseteq Logged(u)'
    BY <1>1, <1>3, WrittenStays
<1>5. \A u : \A i \in n + 1..N - 1 : Written(i, u)' = {}
    BY <1>1 DEF Written
<1>6. row.type = "rows" /\ row.table = t /\ row.kind = kind /\ row.images = images
    OBVIOUS
<1> HIDE DEF row
<1>7. \A u : Written(N, u)' = IF u = t /\ kind # "delete"
                             THEN {image.new : image \in ToSet(images)} ELSE {}
    BY <1>1, <1>6 DEF Written
<1> QED
    BY <1>1, <1>2, <1>4, <1>5, <1>7

\* A restart writes nothing.
LEMMA RestartWrites ==
    ASSUME LogInv, Restart, NEW n, n = Len(log), NEW N, N = Len(log')
    PROVE  /\ n \in Nat /\ N = n + 1 /\ DOMAIN log = 1..n /\ DOMAIN log' = 1..N
           /\ \A i \in 1..n : log'[i] = log[i]
           /\ log'[N].type = "format"
           /\ \A u : \A i \in 1..n : Written(i, u)' = Written(i, u)
           /\ \A u : Written(N, u)' = {}
           /\ \A u : Logged(u) \subseteq Logged(u)'
<1>1. log' = Append(log, Format) /\ log \in Seq(ToSet(log)) /\ n \in Nat
    BY LogBasics DEF Restart, LogInv
<1>2. /\ log' \in Seq(ToSet(log) \cup {Format}) /\ N = n + 1 /\ log'[N] = Format
      /\ \A i \in 1..n : log'[i] = log[i]
    <2> DEFINE U == ToSet(log) \cup {Format}
    <2>1. log \in Seq(U) /\ Format \in U
        BY <1>1, SeqMonotonic
    <2> HIDE DEF U
    <2> QED
        BY <2>1, <1>1, AppendProperties DEF U
<1>3. log' \in Seq(ToSet(log'))
    BY <1>2, SeqOfOwnElements
<1>4. N >= n
    BY <1>1, <1>2
<1>5. \A u : /\ DOMAIN log = 1..n /\ DOMAIN log' = 1..N
             /\ \A i \in 1..n : Written(i, u)' = Written(i, u)
             /\ Logged(u) \subseteq Logged(u)'
    BY <1>2, <1>3, <1>4, WrittenStays
<1>6. Format.type = "format"
    BY DEF Format
<1>7. \A u : Written(N, u)' = {}
    BY <1>2, <1>6 DEF Written
<1> QED
    BY <1>1, <1>2, <1>5, <1>6, <1>7

-----------------------------------------------------------------------------
(* What is in the log.                                                     *)

\* The images of every event are as wide as their definition.
LEMMA StatementKeepsImages ==
    ASSUME IdsInv, LogInv, ImagesInv, UNCHANGED <<ids, types>>,
           NEW t \in Tables, NEW kind, NEW images, Effect(t, kind, images)
    PROVE  ImagesInv'
<1> DEFINE n == Len(log)
           N == Len(log')
<1>1. LogRows(t, kind, images)
    BY DEF Effect
<1>2. /\ n \in Nat /\ N \in Nat /\ N > n /\ DOMAIN log = 1..n /\ DOMAIN log' = 1..N
      /\ \A i \in 1..n : log'[i] = log[i]
      /\ \A i \in n + 1..N - 1 : log'[i].type = "map"
    BY <1>1, StatementWrites
<1>3. log'[N].kind = kind /\ log'[N].types = types[t] /\ log'[N].images = images
    <2>1. log'[N] = [type |-> "rows", kind |-> kind, id |-> ids[t],
                     table |-> t, types |-> types[t], images |-> images]
        BY <1>1, LogRowsExtends
    <2> QED
        BY <2>1
<1> HIDE DEF n, N
<1>4. ASSUME NEW i \in 1..N, log'[i].type = "rows"
      PROVE  /\ log'[i].kind \in {"insert", "update", "delete"}
             /\ AreImages(log'[i].images, log'[i].kind, Len(log'[i].types))
    <2>1. CASE i \in 1..n
        BY <2>1, <1>2, <1>4 DEF ImagesInv
    <2>2. CASE i = N
        BY <2>2, <1>3 DEF Effect
    <2>3. i \in 1..n \/ i \in n + 1..N - 1 \/ i = N
        BY <1>2
    <2> QED
        BY <2>1, <2>2, <2>3, <1>2, <1>4
<1>5. \A i \in DOMAIN log' : log'[i].type = "rows" =>
          /\ log'[i].kind \in {"insert", "update", "delete"}
          /\ AreImages(log'[i].images, log'[i].kind, Len(log'[i].types))
    BY <1>2, <1>4
<1> QED
    BY <1>5 DEF ImagesInv, AreImages, IsImage, Values
-----------------------------------------------------------------------------
(* Lines.                                                                  *)

\* The images of the event the parser is at.
LEMMA EventImages ==
    ASSUME MirrorInv, ImagesInv, cursor < Len(log), Event.type = "rows",
           NEW image \in ToSet(Event.images)
    PROVE  /\ Event.kind \in {"insert", "update", "delete"}
           /\ IF Event.kind = "insert" THEN image.old = << >>
              ELSE IsImage(image.old, Len(Event.types))
           /\ IF Event.kind = "delete" THEN image.new = << >>
              ELSE IsImage(image.new, Len(Event.types))
<1>1. cursor + 1 \in DOMAIN log /\ Event = log[cursor + 1]
    BY EventMap DEF Event
<1>2. AreImages(Event.images, Event.kind, Len(Event.types)) /\ Event.kind \in {"insert", "update", "delete"}
    BY <1>1 DEF ImagesInv
<1> QED
    BY <1>2 DEF AreImages

\* Each of their values is read with its own type.
LEMMA RowIsRead ==
    ASSUME MirrorInv, cursor < Len(log), Event.type = "rows",
           NEW map, map = maps[Event.id], NEW row, IsImage(row, Len(Event.types))
    PROVE  ParseRow(map, row) = [i \in DOMAIN row |-> Text(row[i])]
<1> DEFINE w == Len(Event.types)
<1>1. /\ map.types = Event.types /\ Event.types \in Schemas
      /\ \A k \in 1..w : map.metas[k] = Event.types[k]
    BY EventMap
<1>2. w \in Nat
    BY <1>1, RowMirrorAssumption, LenProperties
<1>3. DOMAIN row = 1..w
    BY DEF IsImage
<1>4. \A j \in 1..w : Readable(map, j)
    BY <1>1, <1>2 DEF Readable
<1>5. ASSUME NEW i \in 1..w
      PROVE  Text(row[i]) =
                 IF row[i] = Null THEN ""
                 ELSE IF \A j \in 1..i : row[j] # Null => Readable(map, j) THEN row[i]
                 ELSE Garbage
    <2>1. \A j \in 1..i : Readable(map, j)
        BY <1>2, <1>4
    <2> QED
        BY <2>1 DEF Text
<1> HIDE DEF w
<1> QED
    BY <1>3, <1>5 DEF ParseRow

\* The line of a written row, once its columns are picked, is the image's.  No
\* line of a deleted row gets so far, unless no column is kept at all.
LEMMA LineIsImages ==
    ASSUME MirrorInv, ImagesInv, cursor < Len(log), Event.type = "rows",
           NEW map, map = maps[Event.id], NEW image \in ToSet(Event.images),
           NEW line, line = Line(map, image), FilterData(line), Reservable(line),
           NEW done, done = ReserveSomeColumn(line), Kept(line) # << >>
    PROVE  /\ Event.kind # "delete"
           /\ LineOf(done, Event.table, image.new)
           /\ \A i \in DOMAIN Kept(line) : Kept(line)[i] \in 1..Len(Event.types)
<1> DEFINE t == Event.table
           w == Len(Event.types)
           d == line.db_table
           kept == Kept(line)
           n == Cardinality(DOMAIN Filters[d])
<1>1. map.table = t
    BY EventMap
<1>2. d \in DOMAIN Filters
    BY DEF FilterData
<1>3. n \in Nat /\ kept \in [1..n -> DOMAIN Filters[d]]
    BY <1>2, KeptLists
<1>4. PICK i \in DOMAIN kept : TRUE
    <2>1. n # 0
        BY <1>3
    <2> HIDE DEF kept, n
    <2>2. 1 \in 1..n
        BY <2>1, <1>3
    <2>3. DOMAIN kept = 1..n
        BY <1>3
    <2> QED
        BY <2>2, <2>3
<1>5. /\ line.action = Event.kind
      /\ line.old = IF Event.kind = "update" THEN ParseRow(map, image.old) ELSE << >>
      /\ line.new = ParseRow(map, IF Event.kind = "delete" THEN image.old ELSE image.new)
      /\ d = IF Event.kind = "delete" THEN DbTable(t.db, t.db) ELSE Name(t)
    BY <1>1 DEF Line, Name
<1>6. Event.kind # "delete"
    <2> SUFFICES ASSUME Event.kind = "delete" PROVE FALSE
        OBVIOUS
    <2>1. line.old = << >> /\ line.action = "delete"
        BY <1>5
    <2>2. kept[i] \in DOMAIN line["old"]
        BY <2>1, <1>4 DEF Reservable
    <2>3. line["old"] = << >>
        BY <2>1
    <2> QED
        BY <2>2, <2>3
<1>7. IsImage(image.new, w)
    BY <1>6, EventImages
<1>8. line.new = [c \in DOMAIN image.new |-> Text(image.new[c])] /\ DOMAIN image.new = 1..w
    BY <1>5, <1>6, <1>7, RowIsRead, SMTT(30) DEF IsImage
<1>9. \A c \in DOMAIN kept : kept[c] \in 1..w
    <2>1. \A c \in DOMAIN kept : kept[c] \in DOMAIN line["new"]
        BY <1>5, <1>6 DEF Reservable
    <2> QED
        BY <2>1, <1>8
<1>10. /\ done.action = Event.kind /\ done.db_table = d
       /\ done.names = [c \in DOMAIN kept |-> Filters[d][kept[c]]]
       /\ done.new = [c \in DOMAIN kept |-> line.new[kept[c]]]
    BY <1>5, <1>6 DEF ReserveSomeColumn, Line
<1>11. Kept(done) = kept
    BY <1>10 DEF Kept
<1>12. done.new = [c \in DOMAIN kept |-> Text(image.new[kept[c]])]
    <2> HIDE DEF kept
    <2>1. \A c \in DOMAIN kept : line.new[kept[c]] = Text(image.new[kept[c]])
        BY <1>8, <1>9
    <2> QED
        BY <2>1, <1>10
<1>13. d = Name(t)
    BY <1>5, <1>6
<1> HIDE DEF kept
<1>14. LineOf(done, t, image.new)
    BY <1>2, <1>6, <1>10, <1>11, <1>12, <1>13 DEF LineOf
<1> QED
    BY <1>6, <1>9, <1>14 DEF kept
\* A function on the first m numbers is a sequence.
LEMMA SeqOfFunction ==
    ASSUME NEW m \in Nat, NEW f, f = [i \in 1..m |-> f[i]]
    PROVE  f \in Seq(ToSet(f)) /\ Len(f) = m
<1>1. f \in [1..m -> ToSet(f)]
    <2>1. \A i \in 1..m : f[i] \in ToSet(f)
        BY DEF ToSet
    <2> QED
        BY <2>1
<1>2. f \in Seq(ToSet(f))
    BY <1>1, SeqDef
<1> QED
    BY <1>1, <1>2, LenProperties

\* One sequence behind another.
LEMMA Joined ==
    ASSUME NEW s, NEW b, s \in Seq(ToSet(s)), b \in Seq(ToSet(b))
    PROVE  /\ Len(s \o b) = Len(s) + Len(b)
           /\ s \o b \in Seq(ToSet(s \o b))
           /\ \A i \in 1..Len(s) : (s \o b)[i] = s[i]
           /\ \A i \in Len(s) + 1..Len(s) + Len(b) : (s \o b)[i] = b[i - Len(s)]
<1> DEFINE U == ToSet(s) \cup ToSet(b)
<1>1. s \in Seq(U) /\ b \in Seq(U)
    BY SeqMonotonic
<1>2. Len(s) \in Nat /\ Len(b) \in Nat
    BY LenProperties
<1> HIDE DEF U
<1>3. /\ s \o b \in Seq(U) /\ Len(s \o b) = Len(s) + Len(b)
      /\ \A i \in 1..Len(s) + Len(b) :
             (s \o b)[i] = IF i <= Len(s) THEN s[i] ELSE b[i - Len(s)]
    BY <1>1, ConcatProperties
<1>4. s \o b \in Seq(ToSet(s \o b))
    BY <1>3, SeqOfOwnElements
<1> QED
    BY <1>2, <1>3, <1>4

\* What becomes of a row that passes the filter.
Passed(done, image) ==
    LET line == Line(maps[Event.id], image)
    IN FilterData(line) /\ Reservable(line) /\ done = ReserveSomeColumn(line)

\* A parsed Rows event puts all of its rows behind the queue, in their order, or
\* none: when an assertion fails, or they are of a table without a filter.
LEMMA ParsedLines ==
    ASSUME MirrorInv, ImagesInv, lines \in Seq(ToSet(lines)), ParseRowEvent,
           NEW n, n = Len(lines)
    PROVE  /\ n \in Nat
           /\ lines' \in Seq(ToSet(lines')) /\ DOMAIN lines' = 1..Len(lines')
           /\ \A i \in 1..n : lines'[i] = lines[i]
           /\ \/ Len(lines') = n
              \/ /\ Len(lines') = n + Len(Event.images) /\ Len(Event.images) \in Nat
                 /\ \A i \in 1..Len(Event.images) : Passed(lines'[n + i], Event.images[i])
           /\ \/ Len(lines') = n + Len(Event.images)
              \/ status' = "aborted"
              \/ \E image \in ToSet(Event.images) : ~FilterData(Line(maps[Event.id], image))
<1> DEFINE map == maps[Event.id]
           images == Event.images
           m == Len(images)
           all == [i \in DOMAIN images |-> Line(map, images[i])]
           passed == PassedLines(map)
           new == [i \in DOMAIN passed |-> ReserveSomeColumn(passed[i])]
<1>1. n \in Nat /\ DOMAIN lines = 1..n
    BY LenProperties
<1>2. cursor < Len(log) /\ Event.type = "rows"
    BY DEF ParseRowEvent, Parsing, Event
<1>3. Event.id \in DOMAIN maps /\ cursor + 1 \in DOMAIN log
    BY <1>2, EventMap
<1>4. images \in Seq(ToSet(images)) /\ m \in Nat /\ DOMAIN images = 1..m
    <2>1. images \in Seq(ToSet(images))
        BY <1>2, <1>3 DEF ImagesInv, AreImages, Event
    <2> HIDE DEF images
    <2> QED
        BY <2>1, LenProperties
<1>5. passed = all =>
          /\ new \in Seq(ToSet(new)) /\ Len(new) = m
          /\ \A i \in 1..m : new[i] = ReserveSomeColumn(Line(map, images[i]))
    <2> SUFFICES ASSUME passed = all
                 PROVE  /\ new \in Seq(ToSet(new)) /\ Len(new) = m
                        /\ \A i \in 1..m : new[i] = ReserveSomeColumn(Line(map, images[i]))
        OBVIOUS
    <2>1. /\ new = [i \in 1..m |-> new[i]]
          /\ \A i \in 1..m : new[i] = ReserveSomeColumn(Line(map, images[i]))
        BY <1>4
    <2> HIDE DEF new
    <2> QED
        BY <2>1, <1>4, SeqOfFunction
<1>6. CASE lines' = lines
    <2>1. Len(lines') = n + m \/ status' = "aborted"
          \/ \E image \in ToSet(images) : ~FilterData(Line(map, image))
        <3>1. SUFFICES ASSUME status' # "aborted",
                              \A image \in ToSet(images) : FilterData(Line(map, image))
                       PROVE  Len(lines') = n + m
            OBVIOUS
        <3>2. lines' = lines \o new
            BY <1>3, <3>1 DEF ParseRowEvent
        <3>3. passed = all
            BY <3>1, <1>4 DEF PassedLines, ToSet
        <3>4. new \in Seq(ToSet(new)) /\ Len(new) = m
            BY <3>3, <1>5
        <3> HIDE DEF new
        <3>5. Len(lines \o new) = Len(lines) + Len(new)
            BY <3>4, Joined
        <3> QED
            BY <3>2, <3>4, <3>5
    <2> QED
        BY <2>1, <1>1, <1>6
<1>7. CASE lines' # lines
    <2>1. lines' = lines \o new /\ \A line \in ToSet(passed) : Reservable(line)
        BY <1>7 DEF ParseRowEvent
    <2>2. passed = all /\ \A i \in DOMAIN all : FilterData(all[i])
        <3>1. SUFFICES ASSUME passed = << >> PROVE FALSE
            BY DEF PassedLines
        <3>2. new = << >>
            BY <3>1
        <3>3. lines' = lines
            BY <3>2, <2>1, ConcatEmptySeq
        <3> QED
            BY <3>3, <1>7
    <2>3. \A i \in 1..m : FilterData(Line(map, images[i])) /\ Reservable(Line(map, images[i]))
        BY <2>1, <2>2, <1>4 DEF ToSet
    <2>4. new \in Seq(ToSet(new)) /\ Len(new) = m
        BY <2>2, <1>5
    <2>5. \A i \in 1..m : Passed(new[i], images[i])
        BY <2>2, <2>3, <1>5 DEF Passed
    <2> HIDE DEF new
    <2>6. Len(lines \o new) = Len(lines) + Len(new) /\ lines \o new \in Seq(ToSet(lines \o new))
        BY <2>4, Joined
    <2>7. \A i \in 1..n : (lines \o new)[i] = lines[i]
        BY <2>4, Joined
    <2>8. \A i \in n + 1..n + m : (lines \o new)[i] = new[i - n]
        BY <2>4, Joined
    <2> HIDE DEF m, images
    <2>9. \A i \in 1..m : Passed(lines'[n + i], images[i])
        <3>1. \A i \in 1..m : n + i \in n + 1..n + m /\ (n + i) - n = i
            BY <1>1, <1>4
        <3> QED
            BY <3>1, <2>1, <2>5, <2>8
    <2>a. Len(lines') = n + m
        BY <2>1, <2>4, <2>6
    <2>10. lines' \in Seq(ToSet(lines')) /\ DOMAIN lines' = 1..Len(lines')
        BY <2>1, <2>6, LenProperties
    <2> QED
        BY <2>1, <2>7, <2>9, <2>a, <2>10, <1>1, <1>4 DEF m, images
<1> QED
    BY <1>6, <1>7
\* A parsed line has no columns, or an image's that the event wrote.
LEMMA PassedLine ==
    ASSUME MirrorInv, ImagesInv, cursor < Len(log), Event.type = "rows",
           NEW image \in ToSet(Event.images), NEW done, Passed(done, image)
    PROVE  \/ done.names = << >>
           \/ /\ Event.kind # "delete"
              /\ image.new \in Written(cursor + 1, Event.table)
              /\ LineOf(done, Event.table, image.new)
<1> DEFINE line == Line(maps[Event.id], image)
<1>1. FilterData(line) /\ Reservable(line) /\ done = ReserveSomeColumn(line)
    BY DEF Passed
<1>2. CASE Kept(line) = << >>
    <2>1. done = line
        BY <1>1, <1>2 DEF ReserveSomeColumn
    <2>2. line.names = << >>
        BY DEF Line
    <2> HIDE DEF line
    <2> QED
        BY <2>1, <2>2
<1>3. CASE Kept(line) # << >>
    <2>1. Event.kind # "delete" /\ LineOf(done, Event.table, image.new)
        BY <1>1, <1>3, LineIsImages
    <2>2. image.new \in Written(cursor + 1, Event.table)
        BY <2>1 DEF Written, Event
    <2> QED
        BY <2>1, <2>2
<1> QED
    BY <1>2, <1>3

\* What an event wrote was logged.
LEMMA WrittenLogged ==
    ASSUME NEW i \in DOMAIN log, NEW t
    PROVE  Written(i, t) \subseteq Logged(t)
BY DEF Logged

\* The queue stays one of images.
LEMMA ParsedKeepsLines ==
    ASSUME MirrorInv, ImagesInv, LinesInv, ParseRowEvent
    PROVE  LinesInv'
<1> DEFINE n == Len(lines)
           m == Len(Event.images)
<1>1. cursor < Len(log) /\ Event.type = "rows" /\ log' = log
    BY DEF ParseRowEvent, Parsing, Event
<1>2. /\ cursor + 1 \in DOMAIN log /\ Event.table \in Tables
    BY <1>1, EventMap
<1>3. lines \in Seq(ToSet(lines)) /\ DOMAIN lines = 1..n
    BY LenProperties DEF LinesInv
<1>4. /\ n \in Nat
      /\ lines' \in Seq(ToSet(lines')) /\ DOMAIN lines' = 1..Len(lines')
      /\ \A i \in 1..n : lines'[i] = lines[i]
      /\ \/ Len(lines') = n
         \/ /\ Len(lines') = n + m /\ m \in Nat
            /\ \A i \in 1..m : Passed(lines'[n + i], Event.images[i])
    BY <1>3, ParsedLines
<1>5. DOMAIN Event.images = 1..m
    BY <1>1, <1>2, LenProperties DEF ImagesInv, AreImages, Event
<1> HIDE DEF n, m
<1>6. ASSUME NEW i \in 1..Len(lines')
      PROVE  \/ lines'[i].names = << >>
             \/ \E t \in Tables : \E image \in Logged(t) : LineOf(lines'[i], t, image)
    <2>1. CASE i \in 1..n
        BY <2>1, <1>3, <1>4 DEF LinesInv
    <2>2. CASE i \notin 1..n
        <3>1. PICK k \in 1..m : i = n + k
            <4>1. Len(lines') = n + m /\ m \in Nat
                BY <2>2, <1>4
            <4>2. i - n \in 1..m /\ i = n + (i - n)
                BY <4>1, <2>2, <1>4
            <4> QED
                BY <4>2
        <3>2. Passed(lines'[i], Event.images[k])
            BY <3>1, <2>2, <1>4
        <3>3. Event.images[k] \in ToSet(Event.images)
            BY <3>1, <1>5 DEF ToSet
        <3>4. \/ lines'[i].names = << >>
              \/ /\ Event.images[k].new \in Written(cursor + 1, Event.table)
                 /\ LineOf(lines'[i], Event.table, Event.images[k].new)
            BY <3>2, <3>3, <1>1, PassedLine
        <3>5. Written(cursor + 1, Event.table) \subseteq Logged(Event.table)
            BY <1>2, WrittenLogged
        <3> QED
            BY <3>4, <3>5, <1>2
    <2> QED
        BY <2>1, <2>2
<1>7. \A t : Logged(t)' = Logged(t)
    BY <1>1, SameLog
<1> QED
    BY <1>4, <1>6, <1>7 DEF LinesInv

\* Sending takes the first line.
LEMMA SentLines ==
    ASSUME lines \in Seq(ToSet(lines)), SendData
    PROVE  /\ lines' \in Seq(ToSet(lines')) /\ Len(lines) \in Nat /\ Len(lines) >= 1
           /\ DOMAIN lines = 1..Len(lines) /\ Len(lines') = Len(lines) - 1
           /\ DOMAIN lines' = 1..Len(lines) - 1 /\ Head(lines) = lines[1]
           /\ \A i \in 1..Len(lines) - 1 : lines'[i] = lines[i + 1]
<1>1. lines' = Tail(lines) /\ lines # << >>
    BY DEF SendData
<1> DEFINE U == ToSet(lines)
<1>2. lines \in Seq(U)
    OBVIOUS
<1> HIDE DEF U
<1>3. /\ Tail(lines) \in Seq(U) /\ Len(Tail(lines)) = Len(lines) - 1
      /\ \A i \in 1..Len(lines) - 1 : Tail(lines)[i] = lines[i + 1]
    BY <1>1, <1>2, HeadTailProperties
<1>4. Len(lines) \in Nat /\ DOMAIN lines = 1..Len(lines) /\ Len(lines) # 0
    BY <1>1, <1>2, LenProperties, EmptySeq
<1>5. Head(lines) = lines[1]
    BY <1>1, <1>2
<1>6. lines' \in Seq(ToSet(lines')) /\ DOMAIN lines' = 1..Len(lines')
    BY <1>1, <1>3, SeqOfOwnElements, LenProperties
<1> QED
    BY <1>1, <1>3, <1>4, <1>5, <1>6

\* The rest of the queue is as it was.
LEMMA SentKeepsLines ==
    ASSUME LinesInv, SendData
    PROVE  LinesInv'
<1>1. /\ lines' \in Seq(ToSet(lines')) /\ Len(lines) \in Nat
      /\ DOMAIN lines = 1..Len(lines) /\ DOMAIN lines' = 1..Len(lines) - 1
      /\ \A i \in 1..Len(lines) - 1 : lines'[i] = lines[i + 1]
    BY SentLines DEF LinesInv
<1>2. \A i \in DOMAIN lines' : i + 1 \in DOMAIN lines /\ lines'[i] = lines[i + 1]
    BY <1>1
<1>3. \A t : Logged(t)' = Logged(t)
    BY SameLog DEF SendData
<1> QED
    BY <1>1, <1>2, <1>3 DEF LinesInv

\* A longer log still has the images of the queue.
LEMMA GrowingKeepsLines ==
    ASSUME LinesInv, lines' = lines, \A u : Logged(u) \subseteq Logged(u)'
    PROVE  LinesInv'
BY DEF LinesInv
-----------------------------------------------------------------------------
(* The content of log and queue.                                           *)

\* The steps: a statement has an effect, the rest are what they are.
LEMMA Steps ==
    ASSUME TablesOK, [Next]_vars
    PROVE  /\ TablesOK'
           /\ \/ \E t \in Tables, kind \in {"insert", "update", "delete"} : \E images :
                     /\ Effect(t, kind, images)
                     /\ UNCHANGED <<types, ids, nextId, parser, sink, resumes, status>>
              \/ \E t \in Tables : Alter(t)
              \/ Restart \/ ReqBinlog \/ ParseFormatEvent \/ ParseTablemapEvent
              \/ ParseRowEvent \/ SendData \/ UNCHANGED vars
<1>1. ASSUME NEW t \in Tables, Insert(t) \/ Update(t) \/ Delete(t)
      PROVE  /\ TablesOK'
             /\ \E kind \in {"insert", "update", "delete"} : \E images : Effect(t, kind, images)
             /\ UNCHANGED <<types, ids, nextId, parser, sink, resumes, status>>
    <2>1. TablesOK' /\ \E kind \in {"insert", "update", "delete"} : \E images : Effect(t, kind, images)
        BY <1>1, InsertEffect, UpdateEffect, DeleteEffect
    <2>2. UNCHANGED <<types, ids, nextId, parser, sink, resumes, status>>
        BY <1>1 DEF Insert, Update, Delete
    <2> QED
        BY <2>1, <2>2
<1>2. ASSUME NEW t \in Tables, Alter(t) PROVE TablesOK'
    <2>1. PICK schema \in Schemas :
              /\ types' = [types EXCEPT ![t] = schema]
              /\ rows' = [rows EXCEPT ![t] = [k \in Keys |-> Cut(@[k], schema)]]
        BY <1>2 DEF Alter
    <2> DEFINE row == [k \in Keys |-> Cut(rows[t][k], schema)]
    <2>2. rows[t] \in [Keys -> Rows \cup {NoRow}]
        BY DEF TablesOK
    <2>3. \A k \in Keys : Cut(rows[t][k], schema) \in Rows \cup {NoRow}
        BY <2>2, CutShape
    <2>4. row \in [Keys -> Rows \cup {NoRow}]
        BY <2>3
    <2>5. rows' = [rows EXCEPT ![t] = row]
        BY <2>1
    <2> HIDE DEF row
    <2> QED
        BY <2>1, <2>4, <2>5 DEF TablesOK
<1>3. ASSUME Restart \/ ReqBinlog \/ ParseFormatEvent \/ ParseTablemapEvent
             \/ ParseRowEvent \/ SendData \/ UNCHANGED vars
      PROVE  TablesOK'
    BY <1>3 DEF TablesOK, Restart, ReqBinlog, ParseFormatEvent, ParseTablemapEvent,
                ParseRowEvent, SendData, vars, server
<1>4. CASE Server
    BY <1>1, <1>2, <1>3, <1>4 DEF Server
<1> QED
    BY <1>3, <1>4 DEF Next

\* The tables, at first.
LEMMA InitTables == Init => TablesOK
<1> SUFFICES ASSUME Init PROVE TablesOK
    OBVIOUS
<1>1. types = [t \in Tables |-> InitialSchema] /\ rows \in [Tables -> InitialRows]
    BY DEF Init
<1> QED
    BY <1>1, RowMirrorAssumption, InitialRowsAssumption DEF TablesOK

\* Tables, log and queue.
ContentIInv == MirrorInv /\ TablesOK /\ ContentInv

\* At first nothing is logged or queued.
LEMMA InitContent == Init => ContentIInv
<1> SUFFICES ASSUME Init PROVE ContentInv
    BY InitMirror, InitTables DEF ContentIInv
<1>1. DOMAIN log = {1} /\ log[1].type = "format" /\ lines = << >>
    BY DEF Init, Format
<1>2. ImagesInv
    BY <1>1 DEF ImagesInv
<1>3. LinesInv
    BY <1>1 DEF LinesInv
<1> QED
    BY <1>2, <1>3 DEF ContentInv

\* Every step keeps the images of the log and the lines of the queue what they are.
LEMMA NextContent == ContentIInv /\ [Next]_vars => ContentIInv'
<1> SUFFICES ASSUME ContentIInv, [Next]_vars PROVE ContentInv'
    <2>1. ContentIInv /\ [Next]_vars => MirrorInv' /\ TablesOK'
        BY NextMirror, Steps DEF ContentIInv
    <2> QED
        BY <2>1 DEF ContentIInv
<1>1. MirrorInv /\ IdsInv /\ LogInv /\ TablesOK /\ ImagesInv /\ LinesInv
    BY DEF ContentIInv, MirrorInv, ContentInv
<1>2. ASSUME NEW t \in Tables, NEW kind \in {"insert", "update", "delete"}, NEW images,
             Effect(t, kind, images),
             UNCHANGED <<types, ids, nextId, parser, sink, resumes, status>>
      PROVE  ContentInv'
    <2>1. ImagesInv'
        BY <1>1, <1>2, StatementKeepsImages
    <2>2. LogRows(t, kind, images)
        BY <1>2 DEF Effect
    <2>3. \A u : Logged(u) \subseteq Logged(u)'
        <3>1. UNCHANGED <<ids, types>>
            BY <1>2
        <3>2. PICK n, N : n = Len(log) /\ N = Len(log')
            OBVIOUS
        <3> QED
            BY <1>1, <2>2, <3>1, <3>2, StatementWrites
    <2>4. LinesInv'
        BY <1>1, <1>2, <2>3, GrowingKeepsLines DEF sink
    <2> QED
        BY <2>1, <2>4 DEF ContentInv
<1>3. ASSUME Restart PROVE ContentInv'
    <2>1. PICK n, N : n = Len(log) /\ N = Len(log')
        OBVIOUS
    <2>2. /\ n \in Nat /\ N = n + 1 /\ DOMAIN log = 1..n /\ DOMAIN log' = 1..N
          /\ \A i \in 1..n : log'[i] = log[i]
          /\ log'[N].type = "format"
          /\ \A u : Logged(u) \subseteq Logged(u)'
        BY <1>1, <1>3, <2>1, RestartWrites
    <2>3. ImagesInv'
        <3>1. \A i \in 1..N : i \in 1..n \/ i = N
            BY <2>2
        <3>2. \A i \in 1..n : log'[i].type = "rows" =>
                  /\ log'[i].kind \in {"insert", "update", "delete"}
                  /\ AreImages(log'[i].images, log'[i].kind, Len(log'[i].types))
            BY <1>1, <2>2 DEF ImagesInv
        <3>3. \A i \in DOMAIN log' : log'[i].type = "rows" =>
                  /\ log'[i].kind \in {"insert", "update", "delete"}
                  /\ AreImages(log'[i].images, log'[i].kind, Len(log'[i].types))
            BY <2>2, <3>1, <3>2
        <3> QED
            BY <3>3 DEF ImagesInv, AreImages, IsImage, Values
    <2>4. LinesInv'
        BY <1>1, <1>3, <2>2, GrowingKeepsLines DEF Restart, sink
    <2> QED
        BY <2>3, <2>4 DEF ContentInv
<1>4. ASSUME UNCHANGED log PROVE ImagesInv'
    BY <1>1, <1>4 DEF ImagesInv, AreImages, IsImage, Values
<1>5. ASSUME UNCHANGED <<log, lines>> PROVE ContentInv'
    <2>1. \A u : Logged(u) \subseteq Logged(u)'
        BY <1>5, SameLog
    <2> QED
        BY <1>1, <1>4, <1>5, <2>1, GrowingKeepsLines DEF ContentInv
<1>6. ASSUME NEW t \in Tables, Alter(t) PROVE ContentInv'
    BY <1>5, <1>6 DEF Alter, sink
<1>7. ASSUME ReqBinlog \/ ParseFormatEvent \/ ParseTablemapEvent \/ UNCHANGED vars
      PROVE  ContentInv'
    BY <1>5, <1>7 DEF ReqBinlog, ParseFormatEvent, ParseTablemapEvent, vars, sink
<1>8. ASSUME ParseRowEvent PROVE ContentInv'
    <2>1. ImagesInv'
        BY <1>4, <1>8 DEF ParseRowEvent
    <2>2. LinesInv'
        BY <1>1, <1>8, ParsedKeepsLines
    <2> QED
        BY <2>1, <2>2 DEF ContentInv
<1>9. ASSUME SendData PROVE ContentInv'
    <2>1. ImagesInv'
        BY <1>4, <1>9 DEF SendData
    <2>2. LinesInv'
        BY <1>1, <1>9, SentKeepsLines
    <2> QED
        BY <2>1, <2>2 DEF ContentInv
<1> QED
    BY <1>1, <1>2, <1>3, <1>6, <1>7, <1>8, <1>9, Steps

\* The log has full images of rows of every statement, and the queue has the kept
\* columns of logged images: no line mixes rows, columns or definitions.
THEOREM MirrorContent == Spec => [](MirrorInv /\ TablesOK /\ ContentInv)
<1>1. Init => ContentIInv
    BY InitContent
<1>2. ContentIInv /\ [Next]_vars => ContentIInv'
    BY NextContent
<1>3. ContentIInv => MirrorInv /\ TablesOK /\ ContentInv
    BY DEF ContentIInv
<1> QED
    BY <1>1, <1>2, <1>3, PTL DEF Spec
-----------------------------------------------------------------------------
(* Types.                                                                  *)

\* A parsed row has texts, and nothing else.
LEMMA ParsedTexts ==
    ASSUME MirrorInv, cursor < Len(log), Event.type = "rows",
           NEW map, map = maps[Event.id], NEW row, IsImage(row, Len(Event.types))
    PROVE  \A i \in DOMAIN ParseRow(map, row) : ParseRow(map, row)[i] \in Texts
<1>1. ParseRow(map, row) = [i \in DOMAIN row |-> Text(row[i])]
    BY RowIsRead
<1>2. \A v \in Values : Text(v) \in Texts
    BY DEF Values, Texts, Text
<1>3. \A i \in DOMAIN row : row[i] \in Values
    BY DEF IsImage
<1> QED
    BY <1>1, <1>2, <1>3

\* So has a line.
LEMMA LineTexts ==
    ASSUME MirrorInv, ImagesInv, cursor < Len(log), Event.type = "rows",
           NEW image \in ToSet(Event.images), NEW done, Passed(done, image)
    PROVE  ToSet(done.old) \cup ToSet(done.new) \subseteq Texts
<1> DEFINE map == maps[Event.id]
           line == Line(map, image)
           kept == Kept(line)
<1>1. FilterData(line) /\ Reservable(line) /\ done = ReserveSomeColumn(line)
    BY DEF Passed
<1>2. /\ line.action = Event.kind
      /\ line.old = IF Event.kind = "update" THEN ParseRow(map, image.old) ELSE << >>
      /\ line.new = ParseRow(map, IF Event.kind = "delete" THEN image.old ELSE image.new)
    BY DEF Line
<1>3. /\ Event.kind \in {"insert", "update", "delete"}
      /\ Event.kind # "insert" => IsImage(image.old, Len(Event.types))
      /\ Event.kind # "delete" => IsImage(image.new, Len(Event.types))
    BY EventImages
<1>4. (\A i \in DOMAIN line.old : line.old[i] \in Texts) /\ (\A i \in DOMAIN line.new : line.new[i] \in Texts)
    <2>1. \A i \in DOMAIN line.old : line.old[i] \in Texts
        <3>1. CASE Event.kind = "update"
            BY <3>1, <1>2, <1>3, ParsedTexts
        <3>2. CASE Event.kind # "update"
            BY <3>2, <1>2
        <3> QED
            BY <3>1, <3>2
    <2>2. \A i \in DOMAIN line.new : line.new[i] \in Texts
        <3>1. CASE Event.kind = "delete"
            BY <3>1, <1>2, <1>3, ParsedTexts
        <3>2. CASE Event.kind # "delete"
            BY <3>2, <1>2, <1>3, ParsedTexts
        <3> QED
            BY <3>1, <3>2
    <2> QED
        BY <2>1, <2>2
<1>5. CASE kept = << >>
    <2>1. done = line
        BY <1>1, <1>5 DEF ReserveSomeColumn
    <2> QED
        BY <2>1, <1>4 DEF ToSet
<1>6. CASE kept # << >>
    <2>1. Event.kind # "delete"
        BY <1>1, <1>6, LineIsImages
    <2>2. \A i \in DOMAIN kept : kept[i] \in DOMAIN line["new"]
        BY <1>1, <1>2, <2>1 DEF Reservable
    <2>3. Event.kind # "insert" => \A i \in DOMAIN kept : kept[i] \in DOMAIN line["old"]
        BY <1>1, <1>2 DEF Reservable
    <2>4. /\ done.old = IF Event.kind = "insert" THEN << >>
                        ELSE [i \in DOMAIN kept |-> line.old[kept[i]]]
          /\ done.new = [i \in DOMAIN kept |-> line.new[kept[i]]]
        BY <1>1, <1>2, <1>6, <2>1 DEF ReserveSomeColumn, Line
    <2> HIDE DEF line, kept
    <2>5. ToSet(done.new) \subseteq Texts
        BY <2>2, <2>4, <1>4 DEF ToSet
    <2>6. ToSet(done.old) \subseteq Texts
        <3>1. CASE Event.kind = "insert"
            BY <3>1, <2>4 DEF ToSet
        <3>2. CASE Event.kind # "insert"
            BY <3>2, <2>3, <2>4, <1>4 DEF ToSet
        <3> QED
            BY <3>1, <3>2
    <2> QED
        BY <2>5, <2>6
<1> QED
    BY <1>5, <1>6

\* A sent line of an image has that image's values where the names say.
LEMMA LineValues ==
    ASSUME NEW line, NEW t, NEW image, LineOf(line, t, image), NEW name, Named(line, name)
    PROVE  /\ First(line.names, name) \in DOMAIN line.new
           /\ ColumnByName(line, line.new, name) = FieldText(t, image, name)
           /\ Column(Name(t), name) \in DOMAIN Filters[Name(t)]
<1> DEFINE d == line.db_table
           kept == Kept(line)
<1>1. /\ d = Name(t) /\ d \in DOMAIN Filters
      /\ line.names = NamesOf(d, kept)
      /\ line.new = [c \in DOMAIN kept |-> Text(image[kept[c]])]
    BY DEF LineOf, NamesOf
<1>2. /\ First(line.names, name) \in DOMAIN kept
      /\ kept[First(line.names, name)] = First(Filters[d], name)
    BY <1>1, KeptFirst DEF Named
<1>3. kept[First(line.names, name)] \in DOMAIN Filters[d]
    BY <1>1, <1>2, KeptLists
<1> HIDE DEF kept
<1>4. line.new[First(line.names, name)] = Text(image[First(Filters[d], name)])
    BY <1>1, <1>2
<1> QED
    BY <1>1, <1>2, <1>3, <1>4 DEF ColumnByName, FieldText, Column
\* The entries that an image has in Redis.
Entries(t, image) == {Entry(t, image, field) : field \in Imports[Name(t)].values}

\* A sent line sets the entries of its image, and nothing else.
LEMMA Sent ==
    ASSUME LinesInv, SendData
    PROVE  \/ status' = "aborted" /\ ~Sendable(lines[1]) /\ redis' = redis
           \/ /\ status' = status /\ Sendable(lines[1])
              /\ \E t \in Tables : \E image \in Logged(t) :
                    /\ LineOf(lines[1], t, image) /\ Name(t) \in DOMAIN Imports
                    /\ DOMAIN redis' = DOMAIN redis \cup Entries(t, image)
                    /\ \A x \in DOMAIN redis' :
                          redis'[x] = IF x \in Entries(t, image) THEN FieldText(t, image, x[2])
                                      ELSE redis[x]
<1> DEFINE line == lines[1]
           config == Imports[line.db_table]
           hash == HashKey(config, ColumnByName(line, line.new, config.key))
           fields == {hash} \X config.values
<1>1. Head(lines) = line /\ 1 \in DOMAIN lines
    BY SentLines DEF LinesInv
<1>2. CASE ~Sendable(line)
    BY <1>1, <1>2 DEF SendData
<1>3. CASE Sendable(line)
    <2>1. Named(line, config.key) /\ line.db_table \in DOMAIN Imports
        BY <1>3 DEF Sendable
    <2>2. line.names # << >>
        BY <2>1 DEF Named, ToSet
    <2>3. PICK t \in Tables : \E image \in Logged(t) : LineOf(line, t, image)
        BY <1>1, <2>2 DEF LinesInv
    <2>4. PICK image \in Logged(t) : LineOf(line, t, image)
        BY <2>3
    <2>5. line.action # "delete" /\ line.db_table = Name(t)
        BY <2>4 DEF LineOf
    <2>6. \A f \in config.values : Named(line, f)
        BY <1>3, <2>5 DEF Sendable
    <2>7. hash = HashKey(Imports[Name(t)], FieldText(t, image, config.key))
        <3>1. ColumnByName(line, line.new, config.key) = FieldText(t, image, config.key)
            BY <2>1, <2>4, LineValues
        <3> QED
            BY <3>1, <2>5
    <2>8. \A f : Entry(t, image, f) = <<hash, f>>
        BY <2>5, <2>7 DEF Entry, FieldText
    <2>9. fields = Entries(t, image)
        BY <2>5, <2>8 DEF Entries
    <2>10. status' = status
           /\ redis' = [x \in DOMAIN redis \cup fields |->
                           IF x \in fields THEN ColumnByName(line, line.new, x[2]) ELSE redis[x]]
        <3>1. /\ Sendable(Head(lines)) /\ Head(lines).action # "delete"
              /\ Head(lines) = lines[1]
            BY <1>1, <1>3, <2>5
        <3> QED
            BY <3>1 DEF SendData
    <2>11. \A x \in fields : ColumnByName(line, line.new, x[2]) = FieldText(t, image, x[2])
        BY <2>4, <2>6, LineValues
    <2> HIDE DEF fields, line
    <2>12. \A x \in DOMAIN redis' :
              redis'[x] = IF x \in Entries(t, image) THEN FieldText(t, image, x[2]) ELSE redis[x]
        BY <2>9, <2>10, <2>11
    <2>13. DOMAIN redis' = DOMAIN redis \cup Entries(t, image)
        BY <2>9, <2>10
    <2> QED
        BY <1>3, <2>1, <2>4, <2>5, <2>10, <2>12, <2>13 DEF line
<1> QED
    BY <1>2, <1>3

\* What a sent line sets has the types.
LEMMA SentTexts ==
    ASSUME LinesInv, SendData, TypeOK
    PROVE  DOMAIN redis' \subseteq Hashes \X Fields /\ \A x \in DOMAIN redis' : redis'[x] \in Texts
<1>1. CASE redis' = redis
    BY <1>1 DEF TypeOK
<1>2. ASSUME Sendable(lines[1]),
             NEW t \in Tables, NEW image \in Logged(t),
             LineOf(lines[1], t, image), Name(t) \in DOMAIN Imports,
             DOMAIN redis' = DOMAIN redis \cup Entries(t, image),
             \A x \in DOMAIN redis' :
                 redis'[x] = IF x \in Entries(t, image) THEN FieldText(t, image, x[2]) ELSE redis[x]
      PROVE  DOMAIN redis' \subseteq Hashes \X Fields /\ \A x \in DOMAIN redis' : redis'[x] \in Texts
    <2> DEFINE line == lines[1]
               config == Imports[Name(t)]
    <2>1. /\ line.db_table = Name(t) /\ line.action # "delete"
          /\ Named(line, config.key) /\ \A f \in config.values : Named(line, f)
        BY <1>2 DEF LineOf, Sendable
    <2>2. ToSet(line.new) \subseteq Texts
        <3>1. 1 \in DOMAIN lines
            BY SentLines DEF LinesInv
        <3> QED
            BY <3>1 DEF TypeOK
    <2>3. ASSUME NEW name, Named(line, name) PROVE FieldText(t, image, name) \in Texts
        <3>1. /\ First(line.names, name) \in DOMAIN line.new
              /\ ColumnByName(line, line.new, name) = FieldText(t, image, name)
            BY <1>2, <2>3, LineValues
        <3>2. line.new[First(line.names, name)] \in ToSet(line.new)
            BY <3>1 DEF ToSet
        <3> QED
            BY <3>1, <3>2, <2>2 DEF ColumnByName
    <2>4. ASSUME NEW f \in config.values
          PROVE  Entry(t, image, f) \in Hashes \X Fields /\ Entry(t, image, f)[2] = f
        <3>1. FieldText(t, image, config.key) \in Texts
            BY <2>1, <2>3
        <3> DEFINE hash == HashKey(config, FieldText(t, image, config.key))
        <3>2. Entry(t, image, f) = <<hash, f>>
            BY DEF Entry, FieldText
        <3>3. hash \in Hashes
            <4>1. config.prefix \in KeyPrefixes
                BY <1>2 DEF KeyPrefixes
            <4>2. \A prefix \in KeyPrefixes, text \in Texts : prefix \o <<text>> \in Hashes
                BY DEF Hashes
            <4> QED
                BY <4>1, <4>2, <3>1 DEF HashKey
        <3>4. f \in Fields
            BY <1>2 DEF Fields
        <3> HIDE DEF hash
        <3> QED
            BY <3>2, <3>3, <3>4
    <2>5. \A x \in Entries(t, image) : x \in Hashes \X Fields /\ FieldText(t, image, x[2]) \in Texts
        BY <2>1, <2>3, <2>4 DEF Entries
    <2>6. DOMAIN redis \subseteq Hashes \X Fields /\ \A x \in DOMAIN redis : redis[x] \in Texts
        BY DEF TypeOK
    <2> QED
        BY <1>2, <2>5, <2>6
<1> QED
    BY <1>1, <1>2, Sent
\* What is logged or given an id stays within the bounds.
LEMMA BoundsStay ==
    ASSUME ContentIInv, TypeOK, [Next]_vars
    PROVE  /\ \A t \in Tables : ids'[t] \in 1..nextId' - 1
           /\ Len(log') <= MaxLog
           /\ resumes' \in 0..MaxResumes
<1>1. IdsInv /\ LogInv /\ TablesOK
    BY DEF ContentIInv, MirrorInv
<1>2. ids \in [Tables -> Nat] /\ nextId \in Nat /\ \A t \in Tables : ids[t] \in 1..nextId - 1
    BY <1>1 DEF IdsInv, TypeOK
<1>3. Len(log) <= MaxLog /\ resumes \in 0..MaxResumes /\ MaxResumes \in Nat
    BY RowMirrorAssumption DEF TypeOK
<1>4. ASSUME NEW t \in Tables, NEW kind, NEW images,
             Effect(t, kind, images),
             UNCHANGED <<types, ids, nextId, parser, sink, resumes, status>>
      PROVE  ids' = ids /\ nextId' = nextId /\ Len(log') <= MaxLog /\ resumes' = resumes
    <2>1. LogRows(t, kind, images) /\ UNCHANGED <<ids, types>>
        BY <1>4 DEF Effect
    <2>2. PICK n : n = Len(log)
        OBVIOUS
    <2>3. Len(log') <= MaxLog
        BY <1>1, <2>1, <2>2, LogRowsExtends
    <2> QED
        BY <1>4, <2>3
<1>5. ASSUME NEW u \in Tables, Alter(u)
      PROVE  /\ \A t \in Tables : ids'[t] \in 1..nextId' - 1
             /\ log' = log /\ resumes' = resumes
    <2>1. ids' = [ids EXCEPT ![u] = nextId] /\ nextId' = nextId + 1
        BY <1>5 DEF Alter
    <2>2. nextId >= 1
        BY <1>2
    <2>3. \A t \in Tables : ids'[t] = IF t = u THEN nextId ELSE ids[t]
        BY <1>2, <2>1
    <2>4. \A t \in Tables : ids'[t] \in 1..nextId' - 1
        BY <1>2, <2>1, <2>2, <2>3
    <2> QED
        BY <1>5, <2>4 DEF Alter
<1>6. ASSUME Restart
      PROVE  /\ \A t \in Tables : ids'[t] \in 1..nextId' - 1
             /\ Len(log') <= MaxLog /\ resumes' = resumes
    <2>1. ids' \in [Tables -> 1..Cardinality(Tables)] /\ nextId' = Cardinality(Tables) + 1
        BY <1>6 DEF Restart, Injection
    <2>2. Cardinality(Tables) \in Nat
        BY RowMirrorAssumption, FS_CardinalityType
    <2>3. \A t \in Tables : ids'[t] \in 1..nextId' - 1
        BY <2>1, <2>2
    <2>4. PICK n, N : n = Len(log) /\ N = Len(log')
        OBVIOUS
    <2>5. n \in Nat /\ N = n + 1
        BY <1>1, <1>6, <2>4, RestartWrites
    <2>6. n < MaxLog /\ MaxLog \in Nat
        BY <1>6, <2>4, RowMirrorAssumption DEF Restart
    <2> QED
        BY <1>6, <2>3, <2>4, <2>5, <2>6 DEF Restart
<1>7. ASSUME ReqBinlog PROVE ids' = ids /\ nextId' = nextId /\ log' = log /\ resumes' \in 0..MaxResumes
    BY <1>3, <1>7 DEF ReqBinlog, server
<1>8. ASSUME ParseFormatEvent \/ ParseTablemapEvent \/ ParseRowEvent \/ SendData \/ UNCHANGED vars
      PROVE  ids' = ids /\ nextId' = nextId /\ log' = log /\ resumes' = resumes
    BY <1>8 DEF ParseFormatEvent, ParseTablemapEvent, ParseRowEvent, SendData, vars, server
<1>9. CASE ids' = ids /\ nextId' = nextId /\ Len(log') <= MaxLog /\ resumes' \in 0..MaxResumes
    BY <1>2, <1>9
<1> QED
    BY <1>1, <1>3, <1>4, <1>5, <1>6, <1>7, <1>8, <1>9, Steps

\* Maps, lines and Redis hold nothing else but what their type says.
LEMMA ContentsStay ==
    ASSUME ContentIInv, TypeOK, [Next]_vars
    PROVE  /\ \A id \in DOMAIN maps' : maps'[id].table \in Tables /\ maps'[id].types \in Schemas
           /\ \A i \in DOMAIN lines' : ToSet(lines'[i].old) \cup ToSet(lines'[i].new) \subseteq Texts
           /\ DOMAIN redis' \subseteq Hashes \X Fields
           /\ \A x \in DOMAIN redis' : redis'[x] \in Texts
           /\ status' \in {"running", "aborted"}
<1>1. MirrorInv /\ LogInv /\ MapsInv /\ ImagesInv /\ LinesInv /\ TablesOK
    BY DEF ContentIInv, MirrorInv, ContentInv
<1>2. /\ \A id \in DOMAIN maps : maps[id].table \in Tables /\ maps[id].types \in Schemas
      /\ \A i \in DOMAIN lines : ToSet(lines[i].old) \cup ToSet(lines[i].new) \subseteq Texts
      /\ DOMAIN redis \subseteq Hashes \X Fields
      /\ \A x \in DOMAIN redis : redis[x] \in Texts
      /\ status \in {"running", "aborted"}
    BY DEF TypeOK
<1>3. ASSUME UNCHANGED <<maps, lines, redis, status>> \/ (maps' = << >> /\ UNCHANGED <<lines, redis, status>>)
      PROVE  /\ \A id \in DOMAIN maps' : maps'[id].table \in Tables /\ maps'[id].types \in Schemas
             /\ \A i \in DOMAIN lines' : ToSet(lines'[i].old) \cup ToSet(lines'[i].new) \subseteq Texts
             /\ DOMAIN redis' \subseteq Hashes \X Fields
             /\ \A x \in DOMAIN redis' : redis'[x] \in Texts
             /\ status' \in {"running", "aborted"}
    BY <1>2, <1>3
<1>4. ASSUME NEW t \in Tables, NEW kind, NEW images, Effect(t, kind, images),
             UNCHANGED <<types, ids, nextId, parser, sink, resumes, status>>
      PROVE  UNCHANGED <<maps, lines, redis, status>>
    BY <1>4 DEF parser, sink
<1>5. ASSUME NEW t \in Tables, Alter(t) PROVE UNCHANGED <<maps, lines, redis, status>>
    BY <1>5 DEF Alter, parser, sink
<1>6. ASSUME Restart \/ ReqBinlog \/ UNCHANGED vars PROVE UNCHANGED <<maps, lines, redis, status>>
    BY <1>6 DEF Restart, ReqBinlog, vars, parser, sink
<1>7. ASSUME ParseFormatEvent PROVE maps' = << >> /\ UNCHANGED <<lines, redis, status>>
    BY <1>7 DEF ParseFormatEvent, sink
<1>8. ASSUME ParseTablemapEvent
      PROVE  /\ UNCHANGED <<lines, redis, status>>
             /\ \A id \in DOMAIN maps' : maps'[id].table \in Tables /\ maps'[id].types \in Schemas
    <2> DEFINE metas == IF Event.id \in DOMAIN maps THEN maps[Event.id].metas ELSE << >>
               map == Tablemap(metas)
    <2>1. /\ cursor < Len(log) /\ Event = log[cursor + 1] /\ Event.type = "map"
          /\ maps' = [id \in DOMAIN maps \cup {Event.id} |-> IF id = Event.id THEN map ELSE maps[id]]
        BY <1>8 DEF ParseTablemapEvent, Parsing, Event
    <2>2. cursor + 1 \in DOMAIN log
        BY <1>1, <2>1, LogBasics DEF MapsInv
    <2>3. Event.table \in Tables /\ Event.types \in Schemas
        BY <1>1, <2>1, <2>2 DEF LogInv, IsNamed
    <2>4. map.table \in Tables /\ map.types \in Schemas
        BY <2>3 DEF Tablemap
    <2> HIDE DEF map
    <2>5. \A id \in DOMAIN maps' : maps'[id].table \in Tables /\ maps'[id].types \in Schemas
        BY <1>2, <2>1, <2>4
    <2> QED
        BY <1>8, <2>5 DEF ParseTablemapEvent, sink
<1>9. ASSUME ParseRowEvent
      PROVE  /\ UNCHANGED <<maps, redis>> /\ status' \in {"running", "aborted"}
             /\ \A i \in DOMAIN lines' : ToSet(lines'[i].old) \cup ToSet(lines'[i].new) \subseteq Texts
    <2> DEFINE n == Len(lines)
               m == Len(Event.images)
    <2>1. cursor < Len(log) /\ Event.type = "rows"
        BY <1>9 DEF ParseRowEvent, Parsing, Event
    <2>2. cursor + 1 \in DOMAIN log
        BY <1>1, <2>1, EventMap
    <2>3. DOMAIN Event.images = 1..m
        BY <1>1, <2>1, <2>2, LenProperties DEF ImagesInv, AreImages, Event
    <2>4. lines \in Seq(ToSet(lines)) /\ DOMAIN lines = 1..n
        BY <1>1, LenProperties DEF LinesInv
    <2>5. /\ n \in Nat
          /\ lines' \in Seq(ToSet(lines')) /\ DOMAIN lines' = 1..Len(lines')
          /\ \A i \in 1..n : lines'[i] = lines[i]
          /\ \/ Len(lines') = n
             \/ /\ Len(lines') = n + m /\ m \in Nat
                /\ \A i \in 1..m : Passed(lines'[n + i], Event.images[i])
        BY <1>1, <1>9, <2>4, ParsedLines
    <2> HIDE DEF n, m
    <2>6. ASSUME NEW i \in 1..Len(lines')
          PROVE  ToSet(lines'[i].old) \cup ToSet(lines'[i].new) \subseteq Texts
        <3>1. CASE i \in 1..n
            BY <3>1, <1>2, <2>4, <2>5
        <3>2. CASE i \notin 1..n
            <4>1. Len(lines') = n + m /\ m \in Nat
                BY <3>2, <2>5
            <4>2. i - n \in 1..m /\ i = n + (i - n)
                BY <3>2, <4>1, <2>5
            <4>3. PICK k \in 1..m : i = n + k
                BY <4>2
            <4>4. Passed(lines'[i], Event.images[k])
                BY <3>2, <4>3, <2>5
            <4>5. Event.images[k] \in ToSet(Event.images)
                BY <2>3 DEF ToSet
            <4> QED
                BY <1>1, <2>1, <4>4, <4>5, LineTexts
        <3> QED
            BY <3>1, <3>2
    <2> QED
        BY <1>2, <1>9, <2>5, <2>6 DEF ParseRowEvent
<1>10. ASSUME SendData
       PROVE  /\ UNCHANGED maps /\ status' \in {"running", "aborted"}
              /\ \A i \in DOMAIN lines' : ToSet(lines'[i].old) \cup ToSet(lines'[i].new) \subseteq Texts
              /\ DOMAIN redis' \subseteq Hashes \X Fields
              /\ \A x \in DOMAIN redis' : redis'[x] \in Texts
    <2>1. /\ Len(lines) \in Nat
          /\ DOMAIN lines = 1..Len(lines) /\ DOMAIN lines' = 1..Len(lines) - 1
          /\ \A i \in 1..Len(lines) - 1 : lines'[i] = lines[i + 1]
        BY <1>1, <1>10, SentLines DEF LinesInv
    <2>2. \A i \in DOMAIN lines' : i + 1 \in DOMAIN lines /\ lines'[i] = lines[i + 1]
        BY <2>1
    <2>3. \A i \in DOMAIN lines' : ToSet(lines'[i].old) \cup ToSet(lines'[i].new) \subseteq Texts
        BY <1>2, <2>2
    <2>4. DOMAIN redis' \subseteq Hashes \X Fields /\ \A x \in DOMAIN redis' : redis'[x] \in Texts
        BY <1>1, <1>10, SentTexts
    <2>5. status' \in {"running", "aborted"}
        BY <1>1, <1>2, <1>10, Sent
    <2> QED
        BY <1>10, <2>3, <2>4, <2>5 DEF SendData, parser
<1> QED
    BY <1>1, <1>2, <1>3, <1>4, <1>5, <1>6, <1>7, <1>8, <1>9, <1>10, Steps

\* Tables, maps, queue and Redis hold what they are meant to hold: the texts in
\* the queue and in Redis are those of keys and of row values, and none of them is
\* what a wrong type would make of one.
THEOREM MirrorTypeOK == Spec => []TypeOK
<1>1. Init => TypeOK
    <2> SUFFICES ASSUME Init PROVE TypeOK
        OBVIOUS
    <2>1. TablesOK
        BY InitTables
    <2>2. Cardinality(Tables) \in Nat
        BY RowMirrorAssumption, FS_CardinalityType
    <2>3. ids \in [Tables -> 1..Cardinality(Tables)] /\ nextId = Cardinality(Tables) + 1
        BY DEF Init, Injection
    <2>4. \A t \in Tables : types[t] \in Schemas /\ ids[t] \in 1..nextId - 1
        BY <2>1, <2>2, <2>3 DEF TablesOK
    <2>5. /\ Len(log) = 1 /\ cursor = 0 /\ resumes = 0 /\ status = "running"
          /\ maps = << >> /\ lines = << >> /\ redis = << >>
        BY DEF Init
    <2> QED
        BY <2>1, <2>4, <2>5, RowMirrorAssumption DEF TypeOK, TablesOK
<1>2. ContentIInv /\ TypeOK /\ [Next]_vars => TypeOK'
    <2> SUFFICES ASSUME ContentIInv, TypeOK, [Next]_vars PROVE TypeOK'
        OBVIOUS
    <2>1. MapsInv' /\ TablesOK'
        BY NextContent DEF ContentIInv, MirrorInv
    <2>2. /\ \A t \in Tables : types'[t] \in Schemas
          /\ rows' \in [Tables -> [Keys -> Rows \cup {NoRow}]]
          /\ cursor' \in 0..Len(log')
        BY <2>1 DEF TablesOK, MapsInv
    <2> QED
        BY <2>2, BoundsStay, ContentsStay DEF TypeOK
<1>3. Init => ContentIInv
    BY InitContent
<1>4. ContentIInv /\ [Next]_vars => ContentIInv'
    BY NextContent
<1> QED
    BY <1>1, <1>2, <1>3, <1>4, PTL DEF Spec
=============================================================================
