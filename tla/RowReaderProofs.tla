---------------------------- MODULE RowReaderProofs ----------------------------
(***************************************************************************)
(* Proofs about RowReader: whatever a server may log of a table, the       *)
(* parser reads the type and the metadata of each column                   *)
(* (MetasAreMatched), and each column of each image begins and ends where  *)
(* the server wrote it, up to the first one of a type that Readable leaves *)
(* out (RowsAreAligned).  The columns, values and rows are any that        *)
(* ScenariosAssumption allows.                                             *)
(*                                                                         *)
(* The invariant is                                                        *)
(*   EventInv   the event is one that the server may log: as many images   *)
(*              as rows need, as wide as the table, with storable values;  *)
(*   MetasInv   what was read of the metadata is that of the first columns *)
(*              and the parser is behind it;                               *)
(*   RowsInv    the parser is at the place of the column or of the image   *)
(*              that it reads next, and presentPos counts the columns of   *)
(*              the image so far;                                          *)
(*   RestInv    the types of what is left.                                 *)
(*                                                                         *)
(* The places are lengths of sequences put together.  FlattenSeq and the   *)
(* recursive functions of the model are each the one function with its     *)
(* equation (FlattensUnique); that it exists is FlattensExists, and what   *)
(* it does at each number follows from LeastNumber.                        *)
(***************************************************************************)
EXTENDS RowReader, FiniteSetTheorems, SequenceTheorems, WellFoundedInduction, TLAPS

-----------------------------------------------------------------------------
(* Sequences.                                                              *)

\* A set of numbers has a least element.
LEMMA LeastNumber ==
    ASSUME NEW N \in SUBSET Nat, N # {}
    PROVE  \E m \in N : \A k \in N : m <= k
<1> DEFINE R == OpToRel(<, Nat)
<1>1. IsWellFoundedOn(R, Nat)
    BY NatLessThanWellFounded
<1>2. \A x, y \in Nat : y < x => <<y, x>> \in R
    BY DEF OpToRel
<1> HIDE DEF R
<1>3. PICK m \in N : \A y \in N : <<y, m>> \notin R
    BY <1>1, WFMin
<1>4. ASSUME NEW k \in N PROVE m <= k
    <2>1. k \in Nat /\ m \in Nat /\ ~(k < m)
        BY <1>2, <1>3
    <2> QED
        BY <2>1
<1> QED
    BY <1>4

\* A set that has 0, and with each number below n the next one, has them all.
LEMMA UpTo ==
    ASSUME NEW N, NEW n \in Nat, 0 \in N, \A i \in 0..n - 1 : i \in N => i + 1 \in N
    PROVE  0..n \subseteq N
<1> DEFINE M == {i \in 0..n : i \notin N}
<1> SUFFICES ASSUME M # {} PROVE FALSE
    OBVIOUS
<1>1. PICK m \in M : \A k \in M : m <= k
    <2>1. M \in SUBSET Nat
        OBVIOUS
    <2> QED
        BY <2>1, LeastNumber
<1>2. m \in 0..n /\ m # 0 /\ m \notin N
    BY <1>1
<1>3. m - 1 \in 0..n - 1 /\ m - 1 \notin M
    BY <1>1, <1>2
<1>4. m - 1 \in N /\ (m - 1) + 1 = m
    BY <1>2, <1>3
<1> QED
    BY <1>2, <1>3, <1>4

\* A sequence is one of whatever it is a sequence of.
LEMMA SeqIsSeq ==
    ASSUME NEW S, NEW s \in Seq(S)
    PROVE  IsSeq(s)
BY LenProperties DEF IsSeq, ToSet

\* A sequence is the function of its elements.
LEMMA SeqFacts ==
    ASSUME NEW s, IsSeq(s)
    PROVE  Len(s) \in Nat /\ DOMAIN s = 1..Len(s) /\ s = [i \in 1..Len(s) |-> s[i]]
BY LenProperties DEF IsSeq

\* A function on 1..n is a sequence.
LEMMA FunctionIsSeq ==
    ASSUME NEW n \in Nat, NEW f, f = [i \in 1..n |-> f[i]]
    PROVE  IsSeq(f) /\ Len(f) = n /\ DOMAIN f = 1..n
<1>1. f \in [1..n -> ToSet(f)]
    BY DEF ToSet
<1> QED
    BY <1>1 DEF IsSeq

\* The empty sequence.
LEMMA EmptyIsSeq == IsSeq(<< >>) /\ Len(<< >>) = 0
BY DEF IsSeq

\* A sequence of one element.
LEMMA SingleIsSeq ==
    ASSUME NEW a
    PROVE  IsSeq(<<a>>) /\ Len(<<a>>) = 1 /\ <<a>>[1] = a
<1>1. <<a>> \in Seq({a})
    OBVIOUS
<1> QED
    BY <1>1, SeqIsSeq

\* Two sequences, one behind the other.
LEMMA ConcatIsSeq ==
    ASSUME NEW s, NEW t, IsSeq(s), IsSeq(t)
    PROVE  /\ IsSeq(s \o t)
           /\ Len(s \o t) = Len(s) + Len(t)
           /\ \A i \in 1..Len(s) : (s \o t)[i] = s[i]
           /\ \A i \in 1..Len(t) : (s \o t)[Len(s) + i] = t[i]
<1> DEFINE S == ToSet(s) \cup ToSet(t)
<1>1. s \in Seq(S) /\ t \in Seq(S)
    BY SeqMonotonic DEF IsSeq
<1> HIDE DEF S
<1>2. Len(s) \in Nat /\ Len(t) \in Nat
    BY SeqFacts
<1>3. s \o t \in Seq(S) /\ Len(s \o t) = Len(s) + Len(t)
    BY <1>1, ConcatProperties
<1>4. \A i \in 1..Len(s) + Len(t) : (s \o t)[i] = IF i <= Len(s) THEN s[i] ELSE t[i - Len(s)]
    BY <1>1, ConcatProperties
<1>5. ASSUME NEW i \in 1..Len(s) PROVE (s \o t)[i] = s[i]
    BY <1>2, <1>4
<1>6. ASSUME NEW i \in 1..Len(t) PROVE (s \o t)[Len(s) + i] = t[i]
    <2>1. Len(s) + i \in 1..Len(s) + Len(t) /\ ~(Len(s) + i <= Len(s)) /\ (Len(s) + i) - Len(s) = i
        BY <1>2
    <2> QED
        BY <2>1, <1>4
<1> QED
    BY <1>3, <1>5, <1>6, SeqIsSeq

\* Sequences are equal if their elements are.
LEMMA SameSeq ==
    ASSUME NEW s, NEW t, IsSeq(s), IsSeq(t), Len(s) = Len(t), \A i \in 1..Len(s) : s[i] = t[i]
    PROVE  s = t
BY SeqFacts

\* Nothing behind a sequence changes it.
LEMMA EmptyEnd ==
    ASSUME NEW s, IsSeq(s)
    PROVE  s \o << >> = s
BY ConcatEmptySeq DEF IsSeq

-----------------------------------------------------------------------------
(* Places in a buffer.                                                     *)

\* The bytes of part are those of buf behind at.
Reads(buf, at, part) ==
    /\ IsSeq(buf) /\ IsSeq(part)
    /\ at \in Nat /\ at + Len(part) <= Len(buf)
    /\ \A i \in 1..Len(part) : buf[at + i] = part[i]

\* What is read at a place is the slice that begins there.
LEMMA ReadsSlice ==
    ASSUME NEW buf, NEW at, NEW part, Reads(buf, at, part)
    PROVE  Slice(buf, at, Len(part)) = part
<1>1. at \in Nat /\ Len(part) \in Nat /\ Len(buf) \in Nat
    BY SeqFacts DEF Reads
<1>2. Slice(buf, at, Len(part)) = [i \in 1..Len(part) |-> buf[at + i]]
    <2>1. SubSeq(buf, at + 1, at + Len(part)) = [i \in 1..Len(part) |-> buf[i + (at + 1) - 1]]
        BY <1>1
    <2>2. \A i \in 1..Len(part) : i + (at + 1) - 1 = at + i
        BY <1>1
    <2> QED
        BY <2>1, <2>2 DEF Slice
<1> QED
    BY <1>2, SeqFacts DEF Reads

\* A piece of a part is read as far on as it is in the part.
LEMMA ReadsPart ==
    ASSUME NEW buf, NEW at, NEW part, NEW from, NEW piece,
           Reads(buf, at, part), Reads(part, from, piece)
    PROVE  Reads(buf, at + from, piece)
<1>1. at \in Nat /\ from \in Nat /\ Len(piece) \in Nat /\ Len(part) \in Nat /\ Len(buf) \in Nat
    BY SeqFacts DEF Reads
<1>2. ASSUME NEW i \in 1..Len(piece) PROVE buf[(at + from) + i] = piece[i]
    <2>1. from + i \in 1..Len(part) /\ at + (from + i) = (at + from) + i
        BY <1>1 DEF Reads
    <2> QED
        BY <2>1 DEF Reads
<1> QED
    BY <1>1, <1>2 DEF Reads

\* Each of two sequences is read where it was put.
LEMMA ReadsConcat ==
    ASSUME NEW s, NEW t, IsSeq(s), IsSeq(t)
    PROVE  Reads(s \o t, 0, s) /\ Reads(s \o t, Len(s), t)
<1>1. Len(s) \in Nat /\ Len(t) \in Nat
    BY SeqFacts
<1>2. \A i \in 1..Len(s) : 0 + i = i
    BY <1>1
<1> QED
    BY <1>1, <1>2, ConcatIsSeq DEF Reads

\* A part is read element by element.
LEMMA ReadsAt ==
    ASSUME NEW buf, NEW at, NEW part, Reads(buf, at, part), NEW i \in 1..Len(part)
    PROVE  buf[at + i] = part[i]
BY DEF Reads

\* A part is within the buffer.
LEMMA ReadsFacts ==
    ASSUME NEW buf, NEW at, NEW part, Reads(buf, at, part)
    PROVE  /\ IsSeq(buf) /\ IsSeq(part)
           /\ at \in Nat /\ Len(buf) \in Nat /\ Len(part) \in Nat
           /\ at + Len(part) <= Len(buf)
BY SeqFacts DEF Reads

\* What was read before a part was appended is still read.
LEMMA ReadsOn ==
    ASSUME NEW buf, NEW at, NEW part, Reads(buf, at, part), NEW t, IsSeq(t)
    PROVE  Reads(buf \o t, at, part)
<1>1. Reads(buf \o t, 0, buf)
    BY ReadsConcat DEF Reads
<1>2. Reads(buf \o t, 0 + at, part) /\ 0 + at = at
    BY <1>1, ReadsPart DEF Reads
<1> QED
    BY <1>2

-----------------------------------------------------------------------------
(* Sequences of sequences, one behind the other.                           *)

Prefix(s, n) == [i \in 1..n |-> s[i]]

\* The function by which FlattenSeq is defined, up to the n-th sequence.
Flattens(f, seqs, n) == f = [i \in 1..n |-> IF i = 1 THEN seqs[i] ELSE f[i - 1] \o seqs[i]]

\* Each of the sequences put together is the one before with one more behind it.
LEMMA FlattensAt ==
    ASSUME NEW f, NEW seqs, NEW n, Flattens(f, seqs, n), NEW i \in 1..n
    PROVE  f[i] = IF i = 1 THEN seqs[i] ELSE f[i - 1] \o seqs[i]
<1> DEFINE h == [j \in 1..n |-> IF j = 1 THEN seqs[j] ELSE f[j - 1] \o seqs[j]]
<1>1. f = h
    BY DEF Flattens
<1>2. h[i] = IF i = 1 THEN seqs[i] ELSE f[i - 1] \o seqs[i]
    OBVIOUS
<1> HIDE DEF h
<1> QED
    BY <1>1, <1>2

\* There are such sequences, up to every number.
LEMMA FlattensExists ==
    ASSUME NEW seqs, NEW n \in Nat
    PROVE  \E f : Flattens(f, seqs, n)
<1> DEFINE N == {k \in Nat : \E f : Flattens(f, seqs, k)}
<1>1. 0 \in N
    <2> DEFINE f == [i \in 1..0 |-> seqs[i]]
    <2>1. f = [i \in 1..0 |-> IF i = 1 THEN seqs[i] ELSE f[i - 1] \o seqs[i]]
        OBVIOUS
    <2> QED
        BY <2>1 DEF Flattens
<1>2. ASSUME NEW k \in 0..n - 1, k \in N PROVE k + 1 \in N
    <2>1. PICK f : Flattens(f, seqs, k)
        BY <1>2
    <2> DEFINE g == [i \in 1..k + 1 |-> IF i <= k THEN f[i] ELSE IF i = 1 THEN seqs[i] ELSE f[i - 1] \o seqs[i]]
    <2>2. ASSUME NEW i \in 1..k + 1
          PROVE  g[i] = IF i = 1 THEN seqs[i] ELSE g[i - 1] \o seqs[i]
        <3>1. CASE i = 1
            BY <2>1, <3>1, FlattensAt
        <3>2. CASE i # 1
            <4>1. i - 1 \in 1..k /\ i - 1 \in 1..k + 1 /\ i - 1 <= k
                BY <3>2
            <4>2. g[i - 1] = f[i - 1]
                BY <4>1
            <4>3. ASSUME i <= k PROVE f[i] = f[i - 1] \o seqs[i]
                <5>1. i \in 1..k
                    BY <4>3
                <5>2. f[i] = IF i = 1 THEN seqs[i] ELSE f[i - 1] \o seqs[i]
                    BY <2>1, <5>1, FlattensAt
                <5> QED
                    BY <3>2, <5>2
            <4> QED
                BY <4>2, <4>3, <3>2
        <3> QED
            BY <3>1, <3>2
    <2>3. g = [i \in 1..k + 1 |-> g[i]]
        OBVIOUS
    <2> HIDE DEF g
    <2>4. Flattens(g, seqs, k + 1)
        BY <2>2, <2>3 DEF Flattens
    <2> QED
        BY <2>4
<1> HIDE DEF N
<1>3. 0..n \subseteq N
    BY <1>1, <1>2, UpTo
<1> QED
    BY <1>3 DEF N

\* There is one such function, and it does not depend on what comes behind.
LEMMA FlattensUnique ==
    ASSUME NEW seqs, NEW seqs2, NEW n \in Nat, NEW m \in 0..n, \A i \in 1..m : seqs[i] = seqs2[i],
           NEW f, Flattens(f, seqs, n), NEW g, Flattens(g, seqs2, m)
    PROVE  \A i \in 1..m : f[i] = g[i]
<1> DEFINE N == {k \in 0..m : k # 0 => f[k] = g[k]}
<1>1. ASSUME NEW k \in 0..m - 1, k \in N PROVE k + 1 \in N
    <2>1. k + 1 \in 1..m /\ k + 1 \in 1..n /\ (k + 1) - 1 = k
        OBVIOUS
    <2>2. f[k + 1] = IF k + 1 = 1 THEN seqs[k + 1] ELSE f[k] \o seqs[k + 1]
        BY <2>1, FlattensAt
    <2>3. g[k + 1] = IF k + 1 = 1 THEN seqs2[k + 1] ELSE g[k] \o seqs2[k + 1]
        BY <2>1, FlattensAt
    <2>4. seqs[k + 1] = seqs2[k + 1]
        BY <2>1
    <2>5. k + 1 # 1 => f[k] = g[k]
        BY <1>1
    <2> QED
        BY <2>1, <2>2, <2>3, <2>4, <2>5
<1>2. 0 \in N
    OBVIOUS
<1> HIDE DEF N
<1>3. 0..m \subseteq N
    BY <1>1, <1>2, UpTo
<1> QED
    BY <1>3 DEF N

\* FlattenSeq, which the library defines by CHOOSE, is the last of them.
LEMMA FlattenIs ==
    ASSUME NEW seqs, IsSeq(seqs), Len(seqs) # 0
    PROVE  \E f : Flattens(f, seqs, Len(seqs)) /\ FlattenSeq(seqs) = f[Len(seqs)]
<1> DEFINE P(h) == h = [i \in 1..Len(seqs) |-> IF i = 1 THEN seqs[i] ELSE h[i - 1] \o seqs[i]]
<1>1. PICK f : f = CHOOSE h : P(h)
    OBVIOUS
<1>2. FlattenSeq(seqs) = f[Len(seqs)]
    BY <1>1 DEF FlattenSeq
<1>3. \E h : P(h)
    <2>1. Len(seqs) \in Nat
        BY SeqFacts
    <2>2. PICK h : Flattens(h, seqs, Len(seqs))
        BY <2>1, FlattensExists
    <2>3. P(h)
        BY <2>2 DEF Flattens
    <2> QED
        BY <2>3
<1>4. P(f)
    BY <1>1, <1>3
<1> QED
    BY <1>2, <1>4 DEF Flattens

\* Nothing put together is empty.
LEMMA FlattenEmpty ==
    ASSUME NEW seqs
    PROVE  FlattenSeq(Prefix(seqs, 0)) = << >>
<1>1. Prefix(seqs, 0) = << >> /\ Len(<< >>) = 0
    BY DEF Prefix
<1> QED
    BY <1>1 DEF FlattenSeq

\* The first n elements.
LEMMA PrefixFacts ==
    ASSUME NEW s, NEW n \in Nat
    PROVE  /\ IsSeq(Prefix(s, n)) /\ Len(Prefix(s, n)) = n
           /\ \A i \in 1..n : Prefix(s, n)[i] = s[i]
<1>1. Prefix(s, n) = [i \in 1..n |-> Prefix(s, n)[i]]
    BY DEF Prefix
<1>2. \A i \in 1..n : Prefix(s, n)[i] = s[i]
    BY DEF Prefix
<1> QED
    BY <1>1, <1>2, FunctionIsSeq

\* The n-th sequence is put behind those before it.
LEMMA FlattenStep ==
    ASSUME NEW seqs, NEW n \in Nat \ {0}, \A i \in 1..n : IsSeq(seqs[i])
    PROVE  FlattenSeq(Prefix(seqs, n)) = FlattenSeq(Prefix(seqs, n - 1)) \o seqs[n]
<1> DEFINE p == Prefix(seqs, n)
           q == Prefix(seqs, n - 1)
<1>1. /\ IsSeq(p) /\ Len(p) = n /\ \A i \in 1..n : p[i] = seqs[i]
      /\ IsSeq(q) /\ Len(q) = n - 1 /\ \A i \in 1..n - 1 : q[i] = seqs[i]
    BY PrefixFacts
<1> SUFFICES FlattenSeq(p) = FlattenSeq(q) \o seqs[n]
    OBVIOUS
<1> HIDE DEF p, q
<1>2. PICK f : Flattens(f, p, n) /\ FlattenSeq(p) = f[n]
    BY <1>1, FlattenIs
<1>3. f[n] = IF n = 1 THEN p[n] ELSE f[n - 1] \o p[n]
    BY <1>2, FlattensAt
<1>4. CASE n = 1
    <2>1. FlattenSeq(q) = << >>
        BY <1>4, FlattenEmpty DEF q
    <2>2. << >> \o seqs[n] = seqs[n]
        BY ConcatEmptySeq DEF IsSeq
    <2> QED
        BY <2>1, <2>2, <1>1, <1>2, <1>3, <1>4
<1>5. CASE n # 1
    <2>1. PICK g : Flattens(g, q, n - 1) /\ FlattenSeq(q) = g[n - 1]
        BY <1>1, <1>5, FlattenIs
    <2>2. n - 1 \in 0..n /\ n - 1 \in 1..n - 1 /\ \A i \in 1..n - 1 : p[i] = q[i]
        BY <1>1, <1>5
    <2>3. f[n - 1] = g[n - 1]
        BY <2>1, <2>2, <1>2, FlattensUnique
    <2> QED
        <3>1. p[n] = seqs[n]
            BY <1>1
        <3> QED
            BY <2>1, <2>3, <3>1, <1>2, <1>3, <1>5
<1> QED
    BY <1>4, <1>5

\* Sequences put together are a sequence.
LEMMA FlattenIsSeq ==
    ASSUME NEW seqs, NEW n \in Nat, \A i \in 1..n : IsSeq(seqs[i])
    PROVE  IsSeq(FlattenSeq(Prefix(seqs, n)))
<1> DEFINE N == {k \in 0..n : IsSeq(FlattenSeq(Prefix(seqs, k)))}
<1>1. 0 \in N
    BY FlattenEmpty, EmptyIsSeq
<1>2. ASSUME NEW k \in 0..n - 1, k \in N PROVE k + 1 \in N
    <2>1. /\ k + 1 \in 1..n /\ k + 1 \in Nat \ {0} /\ (k + 1) - 1 = k
          /\ \A j \in 1..k + 1 : IsSeq(seqs[j])
        OBVIOUS
    <2>2. FlattenSeq(Prefix(seqs, k + 1)) = FlattenSeq(Prefix(seqs, k)) \o seqs[k + 1]
        BY <2>1, FlattenStep
    <2>3. IsSeq(FlattenSeq(Prefix(seqs, k))) /\ IsSeq(seqs[k + 1])
        BY <2>1, <1>2
    <2>4. IsSeq(FlattenSeq(Prefix(seqs, k)) \o seqs[k + 1])
        BY <2>3, ConcatIsSeq
    <2>5. IsSeq(FlattenSeq(Prefix(seqs, k + 1)))
        BY <2>2, <2>4
    <2> QED
        BY <2>5
<1> HIDE DEF N
<1>3. 0..n \subseteq N
    BY <1>1, <1>2, UpTo
<1> QED
    BY <1>3 DEF N

\* The i-th sequence begins where those before it end.
LEMMA FlattenReads ==
    ASSUME NEW seqs, NEW n \in Nat, \A i \in 1..n : IsSeq(seqs[i]), NEW i \in 1..n
    PROVE  Reads(FlattenSeq(Prefix(seqs, n)), Len(FlattenSeq(Prefix(seqs, i - 1))), seqs[i])
<1> DEFINE start == Len(FlattenSeq(Prefix(seqs, i - 1)))
           N == {k \in 0..n - i : Reads(FlattenSeq(Prefix(seqs, i + k)), start, seqs[i])}
<1>1. 0 \in N
    <2>1. IsSeq(FlattenSeq(Prefix(seqs, i - 1))) /\ IsSeq(seqs[i])
        BY FlattenIsSeq
    <2>2. i \in Nat \ {0} /\ \A j \in 1..i : IsSeq(seqs[j])
        OBVIOUS
    <2>3. FlattenSeq(Prefix(seqs, i)) = FlattenSeq(Prefix(seqs, i - 1)) \o seqs[i]
        BY <2>2, FlattenStep
    <2>4. Reads(FlattenSeq(Prefix(seqs, i)), start, seqs[i])
        BY <2>1, <2>3, ReadsConcat
    <2> QED
        BY <2>4
<1>2. ASSUME NEW k \in 0..(n - i) - 1, k \in N PROVE k + 1 \in N
    <2>1. /\ i + (k + 1) \in 1..n /\ i + (k + 1) \in Nat \ {0} /\ (i + (k + 1)) - 1 = i + k
          /\ \A j \in 1..i + (k + 1) : IsSeq(seqs[j])
        OBVIOUS
    <2>2. FlattenSeq(Prefix(seqs, i + (k + 1))) = FlattenSeq(Prefix(seqs, i + k)) \o seqs[i + (k + 1)]
        BY <2>1, FlattenStep
    <2>3. Reads(FlattenSeq(Prefix(seqs, i + k)), start, seqs[i])
        BY <1>2
    <2>4. Reads(FlattenSeq(Prefix(seqs, i + (k + 1))), start, seqs[i])
        BY <2>1, <2>2, <2>3, ReadsOn
    <2> QED
        BY <2>4
<1>3. n - i \in Nat
    OBVIOUS
<1> HIDE DEF N
<1>4. 0..n - i \subseteq N
    BY <1>1, <1>2, <1>3, UpTo
<1>5. n - i \in N /\ i + (n - i) = n
    BY <1>3, <1>4
<1> QED
    BY <1>5 DEF N

\* Sequences of at most two elements each.
LEMMA FlattenBound ==
    ASSUME NEW seqs, NEW n \in Nat, \A i \in 1..n : IsSeq(seqs[i]) /\ Len(seqs[i]) <= 2
    PROVE  Len(FlattenSeq(Prefix(seqs, n))) <= 2 * n
<1> DEFINE N == {k \in 0..n : Len(FlattenSeq(Prefix(seqs, k))) <= 2 * k}
<1>1. 0 \in N
    BY FlattenEmpty, EmptyIsSeq
<1>2. ASSUME NEW k \in 0..n - 1, k \in N PROVE k + 1 \in N
    <2>1. /\ k + 1 \in 1..n /\ k + 1 \in Nat \ {0} /\ (k + 1) - 1 = k /\ k \in Nat
          /\ \A j \in 1..k + 1 : IsSeq(seqs[j])
        OBVIOUS
    <2>2. FlattenSeq(Prefix(seqs, k + 1)) = FlattenSeq(Prefix(seqs, k)) \o seqs[k + 1]
        BY <2>1, FlattenStep
    <2>3. IsSeq(FlattenSeq(Prefix(seqs, k)))
        BY <2>1, FlattenIsSeq
    <2>4. Len(FlattenSeq(Prefix(seqs, k + 1))) = Len(FlattenSeq(Prefix(seqs, k))) + Len(seqs[k + 1])
        BY <2>1, <2>2, <2>3, ConcatIsSeq
    <2>5. /\ Len(FlattenSeq(Prefix(seqs, k))) \in Nat /\ Len(seqs[k + 1]) \in Nat
          /\ Len(FlattenSeq(Prefix(seqs, k))) <= 2 * k /\ Len(seqs[k + 1]) <= 2
        BY <2>1, <2>3, <1>2, SeqFacts
    <2> QED
        BY <2>1, <2>4, <2>5
<1> HIDE DEF N
<1>3. 0..n \subseteq N
    BY <1>1, <1>2, UpTo
<1> QED
    BY <1>3 DEF N

-----------------------------------------------------------------------------
(* Numbers in bytes.                                                       *)

\* The numbers of up to four bytes.
LEMMA HighOfFour ==
    ASSUME NEW s, IsSeq(s), Len(s) \in 1..4, \A i \in 1..Len(s) : s[i] \in Int
    PROVE  /\ Len(s) = 1 => High(s) = s[1]
           /\ Len(s) = 2 => High(s) = s[1] * 256 + s[2]
           /\ Len(s) = 3 => High(s) = (s[1] * 256 + s[2]) * 256 + s[3]
           /\ Len(s) = 4 => High(s) = ((s[1] * 256 + s[2]) * 256 + s[3]) * 256 + s[4]
<1> DEFINE P(h) == h = [i \in 0..Len(s) |-> IF i = 0 THEN 0 ELSE h[i - 1] * 256 + s[i]]
           f == [i \in 0..Len(s) |->
                    CASE i = 0 -> 0
                      [] i = 1 -> s[1]
                      [] i = 2 -> s[1] * 256 + s[2]
                      [] i = 3 -> (s[1] * 256 + s[2]) * 256 + s[3]
                      [] i = 4 -> ((s[1] * 256 + s[2]) * 256 + s[3]) * 256 + s[4]]
<1>1. P(f)
    <2>1. ASSUME NEW i \in 0..Len(s)
          PROVE  f[i] = IF i = 0 THEN 0 ELSE f[i - 1] * 256 + s[i]
        <3>1. CASE i \in {0, 1}
            BY <3>1
        <3>2. CASE i \in {2, 3, 4}
            <4>1. i - 1 \in 0..Len(s) /\ i - 1 \in 1..3
                BY <3>2
            <4> QED
                BY <3>2, <4>1
        <3> QED
            BY <3>1, <3>2
    <2>2. f = [i \in 0..Len(s) |-> f[i]]
        OBVIOUS
    <2> HIDE DEF f
    <2> QED
        BY <2>1, <2>2
<1>2. PICK h : h = CHOOSE g : P(g)
    OBVIOUS
<1>3. P(h)
    BY <1>1, <1>2
<1>4. High(s) = h[Len(s)]
    BY <1>2 DEF High
<1>5. \A i \in 0..Len(s) : h[i] = IF i = 0 THEN 0 ELSE h[i - 1] * 256 + s[i]
    <2> DEFINE hh == [i \in 0..Len(s) |-> IF i = 0 THEN 0 ELSE h[i - 1] * 256 + s[i]]
    <2>1. h = hh
        BY <1>3
    <2>2. \A i \in 0..Len(s) : hh[i] = IF i = 0 THEN 0 ELSE h[i - 1] * 256 + s[i]
        OBVIOUS
    <2> HIDE DEF hh
    <2> QED
        BY <2>1, <2>2
<1> HIDE DEF P, f
<1>6. h[0] = 0
    BY <1>5
<1>7. h[1] = s[1]
    <2>1. 1 \in 0..Len(s) /\ 1 - 1 = 0 /\ s[1] \in Int
        OBVIOUS
    <2> QED
        BY <2>1, <1>5, <1>6
<1>8. Len(s) > 1 => h[2] = s[1] * 256 + s[2]
    BY <1>5, <1>7
<1>9. Len(s) > 2 => h[3] = (s[1] * 256 + s[2]) * 256 + s[3]
    BY <1>5, <1>8
<1>10. Len(s) > 3 => h[4] = ((s[1] * 256 + s[2]) * 256 + s[3]) * 256 + s[4]
    BY <1>5, <1>9
<1>11. CASE Len(s) = 1
    BY <1>4, <1>7, <1>11
<1>12. CASE Len(s) = 2
    BY <1>4, <1>8, <1>12
<1>13. CASE Len(s) = 3
    BY <1>4, <1>9, <1>13
<1>14. CASE Len(s) = 4
    BY <1>4, <1>10, <1>14
<1> QED
    BY <1>11, <1>12, <1>13, <1>14

\* A sequence from its end.
LEMMA ReverseIsSeq ==
    ASSUME NEW s, IsSeq(s)
    PROVE  /\ IsSeq(Reverse(s)) /\ Len(Reverse(s)) = Len(s)
           /\ \A i \in 1..Len(s) : Reverse(s)[i] = s[Len(s) - i + 1]
<1>1. Len(s) \in Nat
    BY SeqFacts
<1>2. Reverse(s) = [i \in 1..Len(s) |-> Reverse(s)[i]]
    BY DEF Reverse
<1> QED
    BY <1>1, <1>2, FunctionIsSeq DEF Reverse

LowIs(s) ==
    /\ Len(s) = 1 => Low(s) = s[1]
    /\ Len(s) = 2 => Low(s) = s[1] + 256 * s[2]
    /\ Len(s) = 3 => Low(s) = s[1] + 256 * (s[2] + 256 * s[3])
    /\ Len(s) = 4 => Low(s) = s[1] + 256 * (s[2] + 256 * (s[3] + 256 * s[4]))

\* The number of up to four bytes, the lowest first.
LEMMA LowOfFour ==
    ASSUME NEW s, IsSeq(s), Len(s) \in 1..4, \A i \in 1..Len(s) : s[i] \in Int
    PROVE  LowIs(s)
<1> DEFINE r == Reverse(s)
<1>1. IsSeq(r) /\ Len(r) = Len(s) /\ \A i \in 1..Len(s) : r[i] = s[Len(s) - i + 1]
    BY ReverseIsSeq
<1> HIDE DEF r
<1>2. \A i \in 1..Len(r) : r[i] \in Int
    <2> SUFFICES ASSUME NEW i \in 1..Len(r) PROVE r[i] \in Int
        OBVIOUS
    <2>1. Len(s) - i + 1 \in 1..Len(s)
        BY <1>1
    <2> QED
        BY <1>1, <2>1
<1>3. /\ Len(r) = 1 => High(r) = r[1]
      /\ Len(r) = 2 => High(r) = r[1] * 256 + r[2]
      /\ Len(r) = 3 => High(r) = (r[1] * 256 + r[2]) * 256 + r[3]
      /\ Len(r) = 4 => High(r) = ((r[1] * 256 + r[2]) * 256 + r[3]) * 256 + r[4]
    BY <1>1, <1>2, HighOfFour, ZenonT(30)
<1>4. Low(s) = High(r)
    BY DEF Low, r
<1>5. CASE Len(s) = 1
    BY <1>1, <1>3, <1>4, <1>5 DEF LowIs
<1>6. CASE Len(s) = 2
    BY <1>1, <1>3, <1>4, <1>6 DEF LowIs
<1>7. CASE Len(s) = 3
    BY <1>1, <1>3, <1>4, <1>7 DEF LowIs
<1>8. CASE Len(s) = 4
    BY <1>1, <1>3, <1>4, <1>8 DEF LowIs
<1> QED
    BY <1>5, <1>6, <1>7, <1>8

\* A number is written in as many bytes as it is given.
LEMMA LowBytesIsSeq ==
    ASSUME NEW n, NEW size \in Nat
    PROVE  IsSeq(LowBytes(n, size)) /\ Len(LowBytes(n, size)) = size
<1>1. LowBytes(n, size) = [i \in 1..size |-> LowBytes(n, size)[i]]
    BY DEF LowBytes
<1> QED
    BY <1>1, FunctionIsSeq

\* A number below 256^2 is that of its two bytes,
LEMMA TwoDigits ==
    ASSUME NEW n \in Nat, n < 65536
    PROVE  (n % 256) + 256 * ((n \div 256) % 256) = n
OBVIOUS

\* one below 256^3 that of its three bytes,
LEMMA ThreeDigits ==
    ASSUME NEW n \in Nat, n < 16777216
    PROVE  (n % 256) + 256 * (((n \div 256) % 256) + 256 * ((n \div 65536) % 256)) = n
<1>1. PICK a \in Nat : a = n \div 256 /\ n = (n % 256) + 256 * a /\ a < 65536 /\ a \div 256 = n \div 65536
    OBVIOUS
<1>2. (a % 256) + 256 * ((a \div 256) % 256) = a
    BY <1>1, TwoDigits
<1> QED
    BY <1>1, <1>2

\* and one below 256^4 that of its four bytes.
LEMMA FourDigits ==
    ASSUME NEW n \in Nat, n < 4294967296
    PROVE  (n % 256) + 256 * (((n \div 256) % 256) + 256 * (((n \div 65536) % 256) + 256 * ((n \div 16777216) % 256))) = n
<1>1. PICK a \in Nat : a = n \div 256 /\ n = (n % 256) + 256 * a /\ a < 16777216
    OBVIOUS
<1>2. a \div 256 = n \div 65536 /\ a \div 65536 = n \div 16777216
    BY <1>1
<1>3. (a % 256) + 256 * (((a \div 256) % 256) + 256 * ((a \div 65536) % 256)) = a
    BY <1>1, ThreeDigits
<1> QED
    BY <1>1, <1>2, <1>3

\* What can be written in up to four bytes is read again.
LEMMA LowOfLowBytes ==
    ASSUME NEW n \in Nat, NEW size \in 1..4,
           size = 1 => n < 256, size = 2 => n < 65536, size = 3 => n < 16777216, size = 4 => n < 4294967296
    PROVE  Low(LowBytes(n, size)) = n
<1> DEFINE s == LowBytes(n, size)
           Digit(k) == (n \div k) % 256
<1>1. IsSeq(s) /\ Len(s) = size
    BY LowBytesIsSeq
<1>2. \A i \in 1..size : s[i] = Digit(Powers256[i])
    <2> SUFFICES ASSUME NEW i \in 1..size PROVE s[i] = Digit(Powers256[i])
        OBVIOUS
    <2>1. i - 1 < 4 /\ (i - 1) + 1 = i
        OBVIOUS
    <2>2. Above(n, i - 1) = n \div Powers256[i]
        BY <2>1 DEF Above
    <2>3. s[i] = Above(n, i - 1) % 256
        BY DEF LowBytes
    <2> QED
        BY <2>2, <2>3
<1>3. Powers256[1] = 1 /\ Powers256[2] = 256 /\ Powers256[3] = 65536 /\ Powers256[4] = 16777216
    BY DEF Powers256
<1>4. Digit(1) = (n % 256) /\ Digit(1) \in Int /\ Digit(256) \in Int /\ Digit(65536) \in Int /\ Digit(16777216) \in Int
    OBVIOUS
<1>5. size = 1 => Digit(1) = n
    BY <1>4
<1>6. size = 2 => Digit(1) + 256 * Digit(256) = n
    BY <1>4, TwoDigits
<1>7. size = 3 => Digit(1) + 256 * (Digit(256) + 256 * Digit(65536)) = n
    BY <1>4, ThreeDigits
<1>8. size = 4 => Digit(1) + 256 * (Digit(256) + 256 * (Digit(65536) + 256 * Digit(16777216))) = n
    BY <1>4, FourDigits
<1> SUFFICES Low(s) = n
    OBVIOUS
<1> HIDE DEF s, Digit
<1>9. \A i \in 1..Len(s) : s[i] \in Int
    <2> SUFFICES ASSUME NEW i \in 1..Len(s) PROVE s[i] \in Int
        OBVIOUS
    <2>1. Powers256[i] \in {1, 256, 65536, 16777216}
        BY <1>1, <1>3
    <2> QED
        BY <2>1, <1>1, <1>2, <1>4
<1>10. Len(s) \in 1..4
    BY <1>1
<1>11. LowIs(s)
    <2>1. IsSeq(s)
        BY <1>1
    <2> QED
        BY <2>1, <1>9, <1>10, LowOfFour
<1>12. CASE size = 1
    BY <1>12, <1>1, <1>2, <1>3, <1>5, <1>11 DEF LowIs
<1>13. CASE size = 2
    BY <1>13, <1>1, <1>2, <1>3, <1>6, <1>11 DEF LowIs
<1>14. CASE size = 3
    BY <1>14, <1>1, <1>2, <1>3, <1>7, <1>11 DEF LowIs
<1>15. CASE size = 4
    BY <1>15, <1>1, <1>2, <1>3, <1>8, <1>11 DEF LowIs
<1> QED
    BY <1>12, <1>13, <1>14, <1>15

\* A length-encoded integer has a byte or three.
LEMMA LenencIsSeq ==
    ASSUME NEW n \in Nat
    PROVE  IsSeq(LenencInt(n)) /\ Len(LenencInt(n)) \in {1, 3}
<1>1. <<n>> \in Seq(Int) /\ Len(<<n>>) = 1
    OBVIOUS
<1>2. <<252, n % 256, n \div 256>> \in Seq(Int) /\ Len(<<252, n % 256, n \div 256>>) = 3
    OBVIOUS
<1>3. LenencInt(n) \in Seq(Int) /\ Len(LenencInt(n)) \in {1, 3}
    BY <1>1, <1>2 DEF LenencInt
<1> QED
    BY <1>3, SeqIsSeq

\* A length-encoded integer of up to two bytes is read as the one that was written.
LEMMA LenencRead ==
    ASSUME NEW n \in Nat, n < 65536, NEW buf, NEW at, Reads(buf, at, LenencInt(n))
    PROVE  UnpackLenencInt(buf, at) = [size |-> Len(LenencInt(n)), number |-> n]
<1>1. at \in Nat /\ Len(buf) \in Nat /\ IsSeq(buf) /\ at + Len(LenencInt(n)) <= Len(buf)
    BY ReadsFacts
<1>2. CASE n < 251
    <2>1. LenencInt(n) = <<n>>
        BY <1>2 DEF LenencInt
    <2>2. 1 \in 1..Len(LenencInt(n)) /\ LenencInt(n)[1] = n /\ Len(LenencInt(n)) = 1
        BY <2>1
    <2>3. buf[at + 1] = n
        BY <2>2, ReadsAt
    <2> QED
        BY <1>2, <2>2, <2>3 DEF UnpackLenencInt
<1>3. CASE ~(n < 251)
    <2> DEFINE tail == <<n % 256, n \div 256>>
    <2>1. LenencInt(n) = <<252, n % 256, n \div 256>>
        BY <1>3 DEF LenencInt
    <2>2. /\ 1 \in 1..Len(LenencInt(n)) /\ 2 \in 1..Len(LenencInt(n)) /\ 3 \in 1..Len(LenencInt(n))
          /\ LenencInt(n)[1] = 252 /\ LenencInt(n)[2] = n % 256 /\ LenencInt(n)[3] = n \div 256
          /\ Len(LenencInt(n)) = 3
        BY <2>1
    <2>3. tail \in Seq(Int) /\ Len(tail) = 2 /\ tail[1] = n % 256 /\ tail[2] = n \div 256
        OBVIOUS
    <2> HIDE DEF tail
    <2>4. IsSeq(tail)
        BY <2>3, SeqIsSeq
    <2>5. buf[at + 1] = 252 /\ buf[at + 2] = tail[1] /\ buf[at + 3] = tail[2]
        <3>1. \A i \in 1..Len(LenencInt(n)) : buf[at + i] = LenencInt(n)[i]
            BY ReadsAt
        <3> QED
            BY <3>1, <2>2, <2>3
    <2>6. Reads(buf, at + 1, tail)
        <3>1. \A i \in 1..Len(tail) : buf[(at + 1) + i] = tail[i]
            BY <2>3, <2>5, <1>1
        <3>2. at + 1 \in Nat /\ (at + 1) + Len(tail) <= Len(buf)
            BY <2>2, <2>3, <1>1
        <3> QED
            BY <3>1, <3>2, <2>4, <1>1 DEF Reads
    <2>7. Slice(buf, at + 1, 2) = tail
        <3>1. Slice(buf, at + 1, Len(tail)) = tail
            BY <2>6, ReadsSlice
        <3> QED
            BY <3>1, <2>3
    <2>8. Low(tail) = n
        <3>1. \A i \in 1..Len(tail) : tail[i] \in Int
            BY <2>3
        <3>2. Len(tail) \in 1..4
            BY <2>3
        <3>3. LowIs(tail)
            BY <3>1, <3>2, <2>4, LowOfFour
        <3> QED
            BY <3>3, <2>3 DEF LowIs
    <2>9. UnpackLenencInt(buf, at) = [size |-> 1 + 2, number |-> Low(Slice(buf, at + 1, 2))]
        BY <2>5 DEF UnpackLenencInt
    <2> QED
        BY <2>2, <2>7, <2>8, <2>9
<1> QED
    BY <1>2, <1>3

\* No bytes are the number 0.
LEMMA HighOfNone == High(<< >>) = 0
<1> DEFINE P(h) == h = [i \in 0..0 |-> IF i = 0 THEN 0 ELSE h[i - 1] * 256 + << >>[i]]
           f == [i \in 0..0 |-> 0]
<1>1. P(f)
    OBVIOUS
<1>2. PICK h : h = CHOOSE g : P(g)
    OBVIOUS
<1>3. P(h)
    BY <1>1, <1>2
<1>4. High(<< >>) = h[0]
    BY <1>2 DEF High
<1>5. h[0] = 0
    BY <1>3
<1> QED
    BY <1>4, <1>5

-----------------------------------------------------------------------------
(* The columns of a table and their metadata.                              *)

\* The codes of the types, by name.
LEMMA TypeCodes ==
    /\ T.TINY = 1 /\ T.SHORT = 2 /\ T.LONG = 3 /\ T.FLOAT = 4 /\ T.DOUBLE = 5 /\ T.TIMESTAMP = 7
    /\ T.LONGLONG = 8 /\ T.INT24 = 9 /\ T.DATE = 10 /\ T.TIME = 11 /\ T.DATETIME = 12 /\ T.YEAR = 13
    /\ T.NEWDATE = 14 /\ T.VARCHAR = 15 /\ T.BIT = 16 /\ T.TIMESTAMP2 = 17 /\ T.DATETIME2 = 18
    /\ T.TIME2 = 19 /\ T.NEWDECIMAL = 246 /\ T.ENUM = 247 /\ T.SET = 248 /\ T.TINY_BLOB = 249
    /\ T.MEDIUM_BLOB = 250 /\ T.LONG_BLOB = 251 /\ T.BLOB = 252 /\ T.VAR_STRING = 253
    /\ T.STRING = 254 /\ T.GEOMETRY = 255
BY DEF T

\* The word read from two bytes, whichever comes first.
LEMMA WordOf ==
    ASSUME NEW a \in Int, NEW b \in Int
    PROVE  High(<<a, b>>) = a * 256 + b /\ Low(<<a, b>>) = a + 256 * b
<1> DEFINE s == <<a, b>>
<1>1. s \in Seq(Int) /\ Len(s) = 2 /\ s[1] = a /\ s[2] = b
    OBVIOUS
<1> SUFFICES High(s) = a * 256 + b /\ Low(s) = a + 256 * b
    OBVIOUS
<1> HIDE DEF s
<1>2. IsSeq(s) /\ (\A i \in 1..Len(s) : s[i] \in Int)
    BY <1>1, SeqIsSeq
<1>3. Len(s) \in 1..4
    BY <1>1
<1>4. LowIs(s)
    BY <1>2, <1>3, LowOfFour
<1>5. Len(s) = 2 => High(s) = s[1] * 256 + s[2]
    BY <1>2, <1>3, HighOfFour
<1> QED
    BY <1>1, <1>4, <1>5 DEF LowIs

\* The number of one byte.
LEMMA ByteOf ==
    ASSUME NEW a \in Int
    PROVE  High(<<a>>) = a /\ Low(<<a>>) = a
<1> DEFINE s == <<a>>
<1>1. s \in Seq(Int) /\ Len(s) = 1 /\ s[1] = a
    OBVIOUS
<1> SUFFICES High(s) = a /\ Low(s) = a
    OBVIOUS
<1> HIDE DEF s
<1>2. IsSeq(s) /\ (\A i \in 1..Len(s) : s[i] \in Int)
    BY <1>1, SeqIsSeq
<1>3. Len(s) \in 1..4
    BY <1>1
<1>4. LowIs(s)
    BY <1>2, <1>3, LowOfFour
<1>5. Len(s) = 1 => High(s) = s[1]
    BY <1>2, <1>3, HighOfFour
<1> QED
    BY <1>1, <1>4, <1>5 DEF LowIs

\* A word is its high byte and its low byte.
LEMMA DivMod256 ==
    ASSUME NEW n \in Nat
    PROVE  n \div 256 \in Nat /\ n % 256 \in Nat /\ n % 256 < 256 /\ (n \div 256) * 256 + (n % 256) = n
<1>1. n \div 256 \in Nat /\ n % 256 \in Nat /\ n % 256 < 256
    OBVIOUS
<1>2. n = (n % 256) + 256 * (n \div 256)
    OBVIOUS
<1> QED
    BY <1>1, <1>2

\* The metadata of a column have the size that the parser gives its type, and are read
\* as the word that was written.
LEMMA MetaRead ==
    ASSUME NEW column, Declared(column)
    PROVE  /\ IsSeq(MetaBytes(column)) /\ Len(MetaBytes(column)) = MetaSize(column.type)
           /\ MetaSize(column.type) \in 0..2
           /\ Meta(column.type, MetaBytes(column)) = IF MetaBytes(column) = Empty THEN 0 ELSE column.meta
<1> DEFINE type == column.type
           meta == column.meta
<1>1. /\ type \in ServerTypes /\ meta \in Nat /\ meta < 65536
      /\ type \in {T.BLOB, T.GEOMETRY, T.FLOAT, T.DOUBLE, T.TIME2, T.DATETIME2, T.TIMESTAMP2} => meta < 256
    BY DEF Declared
<1>2. type \in {1, 2, 3, 4, 5, 7, 8, 9, 10, 11, 12, 13, 14, 15, 16, 17, 18, 19, 246, 252, 254, 255}
    BY <1>1, TypeCodes DEF ServerTypes, PlainTypes
<1>3. OneByteMeta = {249, 252, 250, 251, 5, 4, 255, 19, 18, 17}
    BY TypeCodes DEF OneByteMeta
<1>4. TwoByteMeta = {246, 253, 254, 248, 247, 15, 16}
    BY TypeCodes DEF TwoByteMeta
<1>5. MetaSize(type) = IF type \in OneByteMeta THEN 1 ELSE IF type \in TwoByteMeta THEN 2 ELSE 0
    BY DEF MetaSize
<1>6. Meta(type, MetaBytes(column)) = IF type = 15 THEN Low(MetaBytes(column)) ELSE High(MetaBytes(column))
    BY TypeCodes DEF Meta
<1>7. MetaBytes(column) = CASE type \in {252, 255, 4, 5, 19, 18, 17} -> <<meta>>
                            [] type \in {246, 254, 16} -> <<meta \div 256, meta % 256>>
                            [] type = 15 -> <<meta % 256, meta \div 256>>
                            [] OTHER -> Empty
    BY TypeCodes DEF MetaBytes
<1>8. meta \div 256 \in Int /\ meta % 256 \in Int /\ (meta \div 256) * 256 + (meta % 256) = meta
    <2>1. meta \in Nat
        BY <1>1
    <2> HIDE DEF meta
    <2>2. meta \div 256 \in Nat /\ meta % 256 \in Nat /\ (meta \div 256) * 256 + (meta % 256) = meta
        BY <2>1, DivMod256
    <2> QED
        BY <2>2
<1> HIDE DEF type, meta
<1>9. CASE type \in {252, 255, 4, 5, 19, 18, 17}
    <2>1. MetaBytes(column) = <<meta>> /\ MetaSize(type) = 1
        BY <1>9, <1>3, <1>5, <1>7
    <2>2. Meta(type, MetaBytes(column)) = meta
        BY <1>9, <1>6, <2>1, <1>1, ByteOf
    <2>3. IsSeq(<<meta>>) /\ Len(<<meta>>) = 1 /\ <<meta>> # Empty
        BY SingleIsSeq DEF Empty
    <2> QED
        BY <2>1, <2>2, <2>3 DEF type, meta
<1>10. CASE type \in {246, 254, 16}
    <2>1. MetaBytes(column) = <<meta \div 256, meta % 256>> /\ MetaSize(type) = 2
        BY <1>10, <1>3, <1>4, <1>5, <1>7
    <2>2. Meta(type, MetaBytes(column)) = meta
        <3>1. High(<<meta \div 256, meta % 256>>) = (meta \div 256) * 256 + (meta % 256)
            BY <1>8, WordOf
        <3>2. Meta(type, MetaBytes(column)) = High(MetaBytes(column))
            BY <1>10, <1>6
        <3> QED
            BY <3>1, <3>2, <1>8, <2>1
    <2>3. MetaBytes(column) \in Seq(Int) /\ Len(MetaBytes(column)) = 2 /\ MetaBytes(column) # Empty
        BY <2>1, <1>8 DEF Empty
    <2>4. IsSeq(MetaBytes(column))
        BY <2>3, SeqIsSeq
    <2> QED
        BY <2>1, <2>2, <2>3, <2>4 DEF type, meta
<1>11. CASE type = 15
    <2>1. MetaBytes(column) = <<meta % 256, meta \div 256>> /\ MetaSize(type) = 2
        BY <1>11, <1>3, <1>4, <1>5, <1>7
    <2>2. Meta(type, MetaBytes(column)) = meta
        <3>1. Low(<<meta % 256, meta \div 256>>) = (meta % 256) + 256 * (meta \div 256)
            BY <1>8, WordOf
        <3>2. Meta(type, MetaBytes(column)) = Low(MetaBytes(column))
            BY <1>11, <1>6
        <3> QED
            BY <3>1, <3>2, <1>8, <2>1
    <2>3. MetaBytes(column) \in Seq(Int) /\ Len(MetaBytes(column)) = 2 /\ MetaBytes(column) # Empty
        BY <2>1, <1>8 DEF Empty
    <2>4. IsSeq(MetaBytes(column))
        BY <2>3, SeqIsSeq
    <2> QED
        BY <2>1, <2>2, <2>3, <2>4 DEF type, meta
<1>12. CASE type \in {1, 2, 3, 7, 8, 9, 10, 11, 12, 13, 14}
    <2>1. MetaBytes(column) = << >> /\ MetaSize(type) = 0
        <3>1. MetaBytes(column) = Empty
            BY <1>12, <1>7
        <3> QED
            BY <3>1, <1>12, <1>3, <1>4, <1>5 DEF Empty
    <2>2. Meta(type, MetaBytes(column)) = 0
        BY <1>12, <1>6, <2>1, HighOfNone
    <2> QED
        BY <2>1, <2>2, EmptyIsSeq DEF type, meta, Empty
<1> QED
    BY <1>2, <1>9, <1>10, <1>11, <1>12 DEF type

-----------------------------------------------------------------------------
(* The event.                                                              *)

\* What no step changes: an event of a server, and its bytes.
EventInv ==
    /\ IsSeq(columns) /\ Len(columns) <= 4096
    /\ \A i \in DOMAIN columns : Declared(columns[i])
    /\ cmd \in {23, 24, 25, 30, 31, 32}
    /\ headLen \in Nat \ 0..5
    /\ IsSeq(extra) /\ Len(extra) < 65534
    /\ presents \in [1..PerRow -> SUBSET DOMAIN columns]
    /\ IsSeq(images) /\ \E n \in Nat : Len(images) = n * PerRow
    /\ \A k \in DOMAIN images, i \in DOMAIN columns :
           i \in PresentIn(k) => IsNull(k, i) \/ Storable(columns[i], images[k][i])
    /\ tablemapBuf = TablemapBytes
    /\ rowBuf = RowBytes

-----------------------------------------------------------------------------
(* The table map.                                                          *)

MetaParts == [i \in DOMAIN columns |-> MetaBytes(columns[i])]
Metadata(n) == FlattenSeq(Prefix(MetaParts, n))
TypeBytes == [i \in DOMAIN columns |-> columns[i].type]

\* The types and the metadata of the table, as many as there are columns.
LEMMA TableFacts ==
    ASSUME EventInv
    PROVE  /\ Len(columns) \in Nat /\ DOMAIN columns = 1..Len(columns)
           /\ IsSeq(TypeBytes) /\ Len(TypeBytes) = Len(columns)
           /\ \A i \in 1..Len(columns) : MetaParts[i] = MetaBytes(columns[i]) /\ IsSeq(MetaParts[i])
           /\ \A i \in 1..Len(columns) : Len(MetaParts[i]) = MetaSize(columns[i].type)
           /\ \A i \in 1..Len(columns) : MetaSize(columns[i].type) \in 0..2
           /\ FlattenSeq(MetaParts) = Metadata(Len(columns))
           /\ IsSeq(Metadata(Len(columns))) /\ Len(Metadata(Len(columns))) \in Nat
           /\ Len(Metadata(Len(columns))) < 65536
<1> DEFINE n == Len(columns)
<1>1. n \in Nat /\ DOMAIN columns = 1..n /\ n <= 4096
    BY SeqFacts DEF EventInv
<1>2. IsSeq(TypeBytes) /\ Len(TypeBytes) = n
    <2>1. TypeBytes = [i \in 1..n |-> TypeBytes[i]]
        BY <1>1 DEF TypeBytes
    <2> QED
        BY <1>1, <2>1, FunctionIsSeq
<1>3. ASSUME NEW i \in 1..n
      PROVE  /\ MetaParts[i] = MetaBytes(columns[i]) /\ IsSeq(MetaParts[i])
             /\ Len(MetaParts[i]) = MetaSize(columns[i].type)
             /\ MetaSize(columns[i].type) \in 0..2
    <2>1. Declared(columns[i])
        BY <1>1 DEF EventInv
    <2>2. MetaParts[i] = MetaBytes(columns[i])
        BY <1>1 DEF MetaParts
    <2> QED
        BY <2>1, <2>2, MetaRead
<1>4. FlattenSeq(MetaParts) = Metadata(n)
    <2>1. Prefix(MetaParts, n) = MetaParts
        BY <1>1 DEF Prefix, MetaParts
    <2> QED
        BY <2>1 DEF Metadata
<1> HIDE DEF n
<1>5. IsSeq(Metadata(n))
    BY <1>1, <1>3, FlattenIsSeq DEF Metadata
<1>6. Len(Metadata(n)) <= 2 * n
    <2>1. \A i \in 1..n : IsSeq(MetaParts[i]) /\ Len(MetaParts[i]) <= 2
        <3> SUFFICES ASSUME NEW i \in 1..n PROVE IsSeq(MetaParts[i]) /\ Len(MetaParts[i]) <= 2
            OBVIOUS
        <3>1. IsSeq(MetaParts[i]) /\ Len(MetaParts[i]) = MetaSize(columns[i].type) /\ MetaSize(columns[i].type) \in 0..2
            BY <1>3
        <3> QED
            BY <3>1
    <2> QED
        BY <1>1, <2>1, FlattenBound DEF Metadata
<1>7. Len(Metadata(n)) \in Nat
    BY <1>5, SeqFacts
<1>8. Len(Metadata(n)) < 65536
    BY <1>1, <1>6, <1>7
<1> QED
    BY <1>1, <1>2, <1>3, <1>4, <1>5, <1>7, <1>8 DEF n

\* The post header is as long as the parser takes it to be.
LEMMA PostHeadFacts ==
    PostHeadSize \in Nat /\ IsSeq(PostHead) /\ Len(PostHead) = PostHeadSize
<1> DEFINE n == IF headLen = 6 THEN 4 ELSE 6
           a == [i \in 1..n |-> 7]
<1>1. n \in Nat
    OBVIOUS
<1>2. IsSeq(a) /\ Len(a) = n
    <2>1. a = [i \in 1..n |-> a[i]]
        OBVIOUS
    <2> HIDE DEF a, n
    <2> QED
        BY <1>1, <2>1, FunctionIsSeq
<1>3. IsSeq(<<1, 0>>) /\ Len(<<1, 0>>) = 2
    <2>1. <<1, 0>> \in Seq(Int)
        OBVIOUS
    <2> QED
        BY <2>1, SeqIsSeq
<1>4. IsSeq(a \o <<1, 0>>) /\ Len(a \o <<1, 0>>) = Len(a) + Len(<<1, 0>>)
    <2> HIDE DEF a
    <2> QED
        BY <1>2, <1>3, ConcatIsSeq
<1>5. PostHead = a \o <<1, 0>> /\ PostHeadSize = n + 2
    BY DEF PostHead, PostHeadSize
<1> HIDE DEF a, n
<1> QED
    BY <1>1, <1>2, <1>3, <1>4, <1>5

\* The two names, with their lengths in front.
LEMMA NameFacts ==
    /\ IsSeq(Name(<<115, 99>>)) /\ Len(Name(<<115, 99>>)) = 4 /\ Name(<<115, 99>>)[1] = 2
    /\ IsSeq(Name(<<116>>)) /\ Len(Name(<<116>>)) = 3 /\ Name(<<116>>)[1] = 1
<1>1. ASSUME NEW bytes, IsSeq(bytes)
      PROVE  IsSeq(Name(bytes)) /\ Len(Name(bytes)) = 2 + Len(bytes) /\ Name(bytes)[1] = Len(bytes)
    <2> DEFINE a == <<Len(bytes)>>
               b == <<0>>
    <2>1. IsSeq(a) /\ Len(a) = 1 /\ a[1] = Len(bytes) /\ IsSeq(b) /\ Len(b) = 1
        BY SingleIsSeq
    <2>2. Name(bytes) = (a \o bytes) \o b
        BY DEF Name
    <2> HIDE DEF a, b
    <2>3. /\ IsSeq(a \o bytes) /\ Len(a \o bytes) = Len(a) + Len(bytes)
          /\ \A i \in 1..Len(a) : (a \o bytes)[i] = a[i]
        BY <1>1, <2>1, ConcatIsSeq
    <2>4. /\ IsSeq((a \o bytes) \o b) /\ Len((a \o bytes) \o b) = Len(a \o bytes) + Len(b)
          /\ \A i \in 1..Len(a \o bytes) : ((a \o bytes) \o b)[i] = (a \o bytes)[i]
        BY <2>1, <2>3, ConcatIsSeq
    <2>5. Len(bytes) \in Nat
        BY <1>1, SeqFacts
    <2>6. 1 \in 1..Len(a) /\ 1 \in 1..Len(a \o bytes)
        BY <2>1, <2>3, <2>5
    <2> QED
        BY <2>1, <2>2, <2>3, <2>4, <2>5, <2>6
<1>2. <<115, 99>> \in Seq(Int) /\ <<116>> \in Seq(Int) /\ Len(<<115, 99>>) = 2 /\ Len(<<116>>) = 1
    OBVIOUS
<1>3. IsSeq(<<115, 99>>) /\ IsSeq(<<116>>)
    BY <1>2, SeqIsSeq
<1>4. IsSeq(Name(<<115, 99>>)) /\ Len(Name(<<115, 99>>)) = 2 + 2 /\ Name(<<115, 99>>)[1] = 2
    BY <1>1, <1>2, <1>3
<1>5. IsSeq(Name(<<116>>)) /\ Len(Name(<<116>>)) = 2 + 1 /\ Name(<<116>>)[1] = 1
    BY <1>1, <1>2, <1>3
<1> QED
    BY <1>4, <1>5, 2 + 2 = 4, 2 + 1 = 3

\* The bitmap of size bytes.
LEMMA BitmapIsSeq ==
    ASSUME NEW bits, NEW size \in Nat
    PROVE  IsSeq(Bitmap(bits, size)) /\ Len(Bitmap(bits, size)) = size
<1>1. Bitmap(bits, size) = [b \in 1..size |-> Bitmap(bits, size)[b]]
    BY DEF Bitmap
<1> QED
    BY <1>1, FunctionIsSeq

\* The pieces of the bytes of a Table_map event.
LEMMA ReadsPieces ==
    ASSUME NEW a, NEW b, NEW c, NEW d, NEW e, NEW f, NEW g, NEW h,
           IsSeq(a), IsSeq(b), IsSeq(c), IsSeq(d), IsSeq(e), IsSeq(f), IsSeq(g), IsSeq(h)
    PROVE  /\ Reads(a \o b \o c \o d \o e \o f \o g \o h, Len(a), b)
           /\ Reads(a \o b \o c \o d \o e \o f \o g \o h, Len(a) + Len(b), c)
           /\ Reads(a \o b \o c \o d \o e \o f \o g \o h, Len(a) + Len(b) + Len(c), d)
           /\ Reads(a \o b \o c \o d \o e \o f \o g \o h, Len(a) + Len(b) + Len(c) + Len(d), e)
           /\ Reads(a \o b \o c \o d \o e \o f \o g \o h, Len(a) + Len(b) + Len(c) + Len(d) + Len(e), f)
           /\ Reads(a \o b \o c \o d \o e \o f \o g \o h, Len(a) + Len(b) + Len(c) + Len(d) + Len(e) + Len(f), g)
<1>1. ASSUME NEW s, NEW t, IsSeq(s), IsSeq(t)
      PROVE  IsSeq(s \o t) /\ Len(s \o t) = Len(s) + Len(t) /\ Reads(s \o t, 0, s) /\ Reads(s \o t, Len(s), t)
    BY <1>1, ConcatIsSeq, ReadsConcat
<1> DEFINE ab == a \o b
           ac == ab \o c
           ad == ac \o d
           ae == ad \o e
           af == ae \o f
           ag == af \o g
           ah == ag \o h
<1>2. a \o b \o c \o d \o e \o f \o g \o h = ah
    OBVIOUS
<1>3. IsSeq(ab) /\ Len(ab) = Len(a) + Len(b) /\ Reads(ab, Len(a), b)
    BY <1>1
<1> HIDE DEF ab
<1>4. IsSeq(ac) /\ Len(ac) = Len(ab) + Len(c) /\ Reads(ac, 0, ab) /\ Reads(ac, Len(ab), c)
    BY <1>1, <1>3
<1> HIDE DEF ac
<1>5. IsSeq(ad) /\ Len(ad) = Len(ac) + Len(d) /\ Reads(ad, 0, ac) /\ Reads(ad, Len(ac), d)
    BY <1>1, <1>4
<1> HIDE DEF ad
<1>6. IsSeq(ae) /\ Len(ae) = Len(ad) + Len(e) /\ Reads(ae, 0, ad) /\ Reads(ae, Len(ad), e)
    BY <1>1, <1>5
<1> HIDE DEF ae
<1>7. IsSeq(af) /\ Len(af) = Len(ae) + Len(f) /\ Reads(af, 0, ae) /\ Reads(af, Len(ae), f)
    BY <1>1, <1>6
<1> HIDE DEF af
<1>8. IsSeq(ag) /\ Len(ag) = Len(af) + Len(g) /\ Reads(ag, 0, af) /\ Reads(ag, Len(af), g)
    BY <1>1, <1>7
<1> HIDE DEF ag
<1>9. Reads(ah, 0, ag)
    BY <1>1, <1>8
<1> HIDE DEF ah
<1>10. ASSUME NEW w, NEW s, NEW at, NEW part, Reads(w, 0, s), Reads(s, at, part)
       PROVE  Reads(w, at, part)
    <2>1. Reads(w, 0 + at, part) /\ at \in Nat
        BY <1>10, ReadsPart, ReadsFacts
    <2> QED
        BY <2>1, 0 + at = at
<1>11. Reads(ah, 0, af)
    BY <1>8, <1>9, <1>10
<1>12. Reads(ah, 0, ae)
    BY <1>7, <1>11, <1>10
<1>13. Reads(ah, 0, ad)
    BY <1>6, <1>12, <1>10
<1>14. Reads(ah, 0, ac)
    BY <1>5, <1>13, <1>10
<1>15. Reads(ah, 0, ab)
    BY <1>4, <1>14, <1>10
<1>16. Reads(ah, Len(a), b)
    BY <1>3, <1>15, <1>10
<1>17. Reads(ah, Len(a) + Len(b), c)
    BY <1>3, <1>4, <1>14, <1>10
<1>18. Reads(ah, Len(a) + Len(b) + Len(c), d)
    BY <1>3, <1>4, <1>5, <1>13, <1>10
<1>19. Reads(ah, Len(a) + Len(b) + Len(c) + Len(d), e)
    BY <1>3, <1>4, <1>5, <1>6, <1>12, <1>10
<1>20. Reads(ah, Len(a) + Len(b) + Len(c) + Len(d) + Len(e), f)
    BY <1>3, <1>4, <1>5, <1>6, <1>7, <1>11, <1>10
<1>21. Reads(ah, Len(a) + Len(b) + Len(c) + Len(d) + Len(e) + Len(f), g)
    BY <1>3, <1>4, <1>5, <1>6, <1>7, <1>8, <1>9, <1>10
<1> QED
    BY <1>2, <1>16, <1>17, <1>18, <1>19, <1>20, <1>21

\* ParseTablemap finds the types and the metadata of the columns.
LEMMA TablemapRead ==
    ASSUME EventInv, ParseTablemap
    PROVE  types' = TypeBytes /\ metaDef' = Metadata(Len(columns))
<1> DEFINE n == Len(columns)
           meta == Metadata(n)
           name == Name(<<115, 99>>)
           table == Name(<<116>>)
           PastName(from) == from + 1 + tablemapBuf[from + 1] + 1
           at1 == PastName(PostHeadSize)
           at2 == PastName(at1)
           count == UnpackLenencInt(tablemapBuf, at2)
           typesAt == at2 + count.size
           metaLen == UnpackLenencInt(tablemapBuf, typesAt + count.number)
           mask == Bitmap(0..n - 1, (n + 7) \div 8)
<1>1. /\ types' = Slice(tablemapBuf, typesAt, count.number)
      /\ metaDef' = Slice(tablemapBuf, typesAt + count.number + metaLen.size, metaLen.number)
    BY DEF ParseTablemap
<1>2. /\ n \in Nat /\ n <= 4096 /\ IsSeq(TypeBytes) /\ Len(TypeBytes) = n
      /\ IsSeq(meta) /\ Len(meta) \in Nat /\ Len(meta) < 65536
    BY TableFacts DEF EventInv
<1>3. tablemapBuf = PostHead \o name \o table \o LenencInt(n) \o TypeBytes \o LenencInt(Len(meta)) \o meta \o mask
    <2>1. FlattenSeq(MetaParts) = meta
        BY TableFacts
    <2>2. tablemapBuf = PostHead \o name \o table \o LenencInt(n) \o TypeBytes
                            \o LenencInt(Len(FlattenSeq(MetaParts))) \o FlattenSeq(MetaParts) \o mask
        <3>1. tablemapBuf = TablemapBytes
            BY DEF EventInv
        <3> QED
            BY <3>1 DEF TablemapBytes, MetaParts, TypeBytes
    <2> HIDE DEF meta, n, name, table, mask
    <2> QED
        BY <2>1, <2>2
<1>4. IsSeq(mask)
    <2>1. (n + 7) \div 8 \in Nat
        BY <1>2
    <2> QED
        BY <2>1, BitmapIsSeq
<1>5. PostHeadSize \in Nat /\ IsSeq(PostHead) /\ Len(PostHead) = PostHeadSize
    BY PostHeadFacts
<1>6. IsSeq(name) /\ Len(name) = 4 /\ name[1] = 2 /\ IsSeq(table) /\ Len(table) = 3 /\ table[1] = 1
    BY NameFacts
<1>7. /\ IsSeq(LenencInt(n)) /\ Len(LenencInt(n)) \in {1, 3}
      /\ IsSeq(LenencInt(Len(meta))) /\ Len(LenencInt(Len(meta))) \in {1, 3}
    BY <1>2, LenencIsSeq
<1> HIDE DEF n, meta, name, table, mask
<1>8. /\ Reads(tablemapBuf, Len(PostHead), name)
      /\ Reads(tablemapBuf, Len(PostHead) + Len(name), table)
      /\ Reads(tablemapBuf, Len(PostHead) + Len(name) + Len(table), LenencInt(n))
      /\ Reads(tablemapBuf, Len(PostHead) + Len(name) + Len(table) + Len(LenencInt(n)), TypeBytes)
      /\ Reads(tablemapBuf, Len(PostHead) + Len(name) + Len(table) + Len(LenencInt(n)) + Len(TypeBytes),
               LenencInt(Len(meta)))
      /\ Reads(tablemapBuf, Len(PostHead) + Len(name) + Len(table) + Len(LenencInt(n)) + Len(TypeBytes)
                   + Len(LenencInt(Len(meta))), meta)
    <2> DEFINE f == LenencInt(Len(meta))
               count1 == LenencInt(n)
    <2>1. /\ IsSeq(PostHead) /\ IsSeq(name) /\ IsSeq(table) /\ IsSeq(count1) /\ IsSeq(TypeBytes)
          /\ IsSeq(f) /\ IsSeq(meta) /\ IsSeq(mask)
        BY <1>2, <1>4, <1>5, <1>6, <1>7
    <2>2. tablemapBuf = PostHead \o name \o table \o count1 \o TypeBytes \o f \o meta \o mask
        BY <1>3
    <2> HIDE DEF f, count1
    <2>3. /\ Reads(tablemapBuf, Len(PostHead), name)
          /\ Reads(tablemapBuf, Len(PostHead) + Len(name), table)
          /\ Reads(tablemapBuf, Len(PostHead) + Len(name) + Len(table), count1)
          /\ Reads(tablemapBuf, Len(PostHead) + Len(name) + Len(table) + Len(count1), TypeBytes)
          /\ Reads(tablemapBuf, Len(PostHead) + Len(name) + Len(table) + Len(count1) + Len(TypeBytes), f)
          /\ Reads(tablemapBuf, Len(PostHead) + Len(name) + Len(table) + Len(count1) + Len(TypeBytes)
                       + Len(f), meta)
        <3>1. /\ Reads(PostHead \o name \o table \o count1 \o TypeBytes \o f \o meta \o mask, Len(PostHead), name)
              /\ Reads(PostHead \o name \o table \o count1 \o TypeBytes \o f \o meta \o mask,
                       Len(PostHead) + Len(name), table)
              /\ Reads(PostHead \o name \o table \o count1 \o TypeBytes \o f \o meta \o mask,
                       Len(PostHead) + Len(name) + Len(table), count1)
              /\ Reads(PostHead \o name \o table \o count1 \o TypeBytes \o f \o meta \o mask,
                       Len(PostHead) + Len(name) + Len(table) + Len(count1), TypeBytes)
              /\ Reads(PostHead \o name \o table \o count1 \o TypeBytes \o f \o meta \o mask,
                       Len(PostHead) + Len(name) + Len(table) + Len(count1) + Len(TypeBytes), f)
              /\ Reads(PostHead \o name \o table \o count1 \o TypeBytes \o f \o meta \o mask,
                       Len(PostHead) + Len(name) + Len(table) + Len(count1) + Len(TypeBytes) + Len(f), meta)
            BY <2>1, ReadsPieces
        <3> QED
            BY <2>2, <3>1
    <2> QED
        BY <2>3 DEF f, count1
<1>9. at1 = PostHeadSize + 4
    <2>1. tablemapBuf[Len(PostHead) + 1] = 2
        <3>1. 1 \in 1..Len(name)
            BY <1>6
        <3>2. tablemapBuf[Len(PostHead) + 1] = name[1]
            BY <3>1, <1>8, ReadsAt
        <3> QED
            BY <3>2, <1>6
    <2> QED
        BY <1>5, <2>1
<1>10. at2 = PostHeadSize + 4 + 3
    <2>1. tablemapBuf[(Len(PostHead) + Len(name)) + 1] = 1
        <3>1. 1 \in 1..Len(table)
            BY <1>6
        <3>2. tablemapBuf[(Len(PostHead) + Len(name)) + 1] = table[1]
            BY <3>1, <1>8, ReadsAt
        <3> QED
            BY <3>2, <1>6
    <2> QED
        BY <1>5, <1>6, <1>9, <2>1
<1> HIDE DEF at2
<1>11. count = [size |-> Len(LenencInt(n)), number |-> n]
    <2>1. Reads(tablemapBuf, at2, LenencInt(n))
        BY <1>5, <1>6, <1>8, <1>10
    <2> QED
        BY <1>2, <2>1, LenencRead
<1>12. typesAt = PostHeadSize + 4 + 3 + Len(LenencInt(n)) /\ count.number = n
    BY <1>10, <1>11
<1> HIDE DEF typesAt, count
<1>13. Slice(tablemapBuf, typesAt, count.number) = TypeBytes
    <2>1. Reads(tablemapBuf, typesAt, TypeBytes)
        BY <1>5, <1>6, <1>8, <1>12
    <2> QED
        BY <1>2, <1>12, <2>1, ReadsSlice
<1>14. metaLen = [size |-> Len(LenencInt(Len(meta))), number |-> Len(meta)]
    <2>1. Reads(tablemapBuf, typesAt + count.number, LenencInt(Len(meta)))
        BY <1>2, <1>5, <1>6, <1>8, <1>12
    <2> QED
        BY <1>2, <2>1, LenencRead
<1>15. metaLen.size = Len(LenencInt(Len(meta))) /\ metaLen.number = Len(meta)
    BY <1>14
<1> HIDE DEF metaLen
<1>16. Slice(tablemapBuf, typesAt + count.number + metaLen.size, metaLen.number) = meta
    <2>1. Reads(tablemapBuf, typesAt + count.number + metaLen.size, meta)
        BY <1>2, <1>5, <1>6, <1>8, <1>12, <1>15
    <2> QED
        BY <1>15, <2>1, ReadsSlice
<1> QED
    BY <1>1, <1>13, <1>16 DEF meta, n

-----------------------------------------------------------------------------
(* What the server may log.                                                *)

Longer(seqs, set) == {Append(seq, element) : seq \in seqs, element \in set}

\* The function by which Product is defined, up to the n-th set.
Products(f, sets, n) ==
    f = [i \in 0..n |->
            IF i = 0 THEN {<< >>} ELSE Longer(f[i - 1], sets[i])]

\* Each product of the first sets is that of one set less, its sequences one element longer.
LEMMA ProductsAt ==
    ASSUME NEW f, NEW sets, NEW n, Products(f, sets, n), NEW i \in 0..n
    PROVE  f[i] = IF i = 0 THEN {<< >>} ELSE Longer(f[i - 1], sets[i])
<1> DEFINE h == [j \in 0..n |->
                    IF j = 0 THEN {<< >>} ELSE Longer(f[j - 1], sets[j])]
<1>1. f = h
    BY DEF Products
<1>2. h[i] = IF i = 0 THEN {<< >>} ELSE Longer(f[i - 1], sets[i])
    OBVIOUS
<1> HIDE DEF h
<1> QED
    BY <1>1, <1>2

\* There are such products, up to every number of sets.
LEMMA ProductsExists ==
    ASSUME NEW sets, NEW n \in Nat
    PROVE  \E f : Products(f, sets, n)
<1> DEFINE N == {k \in Nat : \E f : Products(f, sets, k)}
<1>1. 0 \in N
    <2> DEFINE f == [i \in 0..0 |-> {<< >>}]
    <2>1. f = [i \in 0..0 |-> IF i = 0 THEN {<< >>} ELSE Longer(f[i - 1], sets[i])]
        OBVIOUS
    <2> QED
        BY <2>1 DEF Products
<1>2. ASSUME NEW k \in 0..n - 1, k \in N PROVE k + 1 \in N
    <2>1. PICK f : Products(f, sets, k)
        BY <1>2
    <2> DEFINE g == [i \in 0..k + 1 |-> IF i <= k THEN f[i] ELSE Longer(f[i - 1], sets[i])]
    <2>2. ASSUME NEW i \in 0..k + 1
          PROVE  g[i] = IF i = 0 THEN {<< >>} ELSE Longer(g[i - 1], sets[i])
        <3>1. CASE i = 0
            <4>1. 0 \in 0..k /\ 0 \in 0..k + 1
                OBVIOUS
            <4>2. f[0] = {<< >>}
                BY <2>1, <4>1, ProductsAt
            <4> QED
                BY <3>1, <4>1, <4>2
        <3>2. CASE i # 0
            <4>1. i - 1 \in 0..k /\ i - 1 \in 0..k + 1 /\ i - 1 <= k
                BY <3>2
            <4>2. g[i - 1] = f[i - 1]
                BY <4>1
            <4>3. g[i] = IF i <= k THEN f[i] ELSE Longer(f[i - 1], sets[i])
                OBVIOUS
            <4>4. ASSUME i <= k PROVE f[i] = Longer(f[i - 1], sets[i])
                <5>1. i \in 0..k
                    BY <4>4
                <5>2. f[i] = IF i = 0 THEN {<< >>} ELSE Longer(f[i - 1], sets[i])
                    BY <2>1, <5>1, ProductsAt
                <5> QED
                    BY <3>2, <5>2
            <4> HIDE DEF g
            <4> QED
                BY <4>2, <4>3, <4>4, <3>2
        <3> QED
            BY <3>1, <3>2
    <2>3. g = [i \in 0..k + 1 |-> g[i]]
        OBVIOUS
    <2>4. Products(g, sets, k + 1)
        <3> HIDE DEF g
        <3> QED
            BY <2>2, <2>3 DEF Products
    <2> QED
        BY <2>4
<1> HIDE DEF N
<1>3. 0..n \subseteq N
    BY <1>1, <1>2, UpTo
<1> QED
    BY <1>3 DEF N

\* The elements of a product have one element of each set.
LEMMA ProductElements ==
    ASSUME NEW sets, IsSeq(sets), NEW x \in Product(sets)
    PROVE  IsSeq(x) /\ Len(x) = Len(sets) /\ \A i \in 1..Len(sets) : x[i] \in sets[i]
<1> DEFINE n == Len(sets)
           P(h) == h = [i \in 0..n |-> IF i = 0 THEN {<< >>} ELSE Longer(h[i - 1], sets[i])]
<1>1. n \in Nat
    BY SeqFacts
<1>2. PICK f : f = CHOOSE h : P(h)
    OBVIOUS
<1>3. Product(sets) = f[n]
    BY <1>2 DEF Product, Longer
<1>4. \E h : P(h)
    <2>1. PICK h : Products(h, sets, n)
        BY <1>1, ProductsExists
    <2>2. P(h)
        BY <2>1 DEF Products
    <2> QED
        BY <2>2
<1>5. P(f)
    <2> HIDE DEF P
    <2> QED
        BY <1>2, <1>4
<1>6. Products(f, sets, n)
    BY <1>5 DEF Products
<1> HIDE DEF n, P
<1> DEFINE Good(k) == \A y \in f[k] : IsSeq(y) /\ Len(y) = k /\ \A i \in 1..k : y[i] \in sets[i]
           N == {k \in 0..n : Good(k)}
<1>7. 0 \in N
    <2>1. 0 \in 0..n
        BY <1>1
    <2>2. f[0] = {<< >>}
        BY <1>6, <2>1, ProductsAt
    <2> QED
        BY <2>1, <2>2, EmptyIsSeq
<1>8. ASSUME NEW k \in 0..n - 1, k \in N PROVE k + 1 \in N
    <2>1. k \in 0..n /\ k + 1 \in 0..n /\ k + 1 # 0 /\ (k + 1) - 1 = k
        BY <1>1
    <2>2. f[k + 1] = Longer(f[k], sets[k + 1])
        BY <1>6, <2>1, ProductsAt
    <2>3. SUFFICES ASSUME NEW seq \in f[k], NEW element \in sets[k + 1], NEW y, y = Append(seq, element)
                   PROVE  IsSeq(y) /\ Len(y) = k + 1 /\ \A i \in 1..k + 1 : y[i] \in sets[i]
        BY <2>1, <2>2 DEF Longer
    <2>4. IsSeq(seq) /\ Len(seq) = k /\ \A i \in 1..k : seq[i] \in sets[i]
        BY <1>8
    <2> HIDE DEF N
    <2>5. Append(seq, element) = seq \o <<element>>
        BY <2>4 DEF IsSeq
    <2>6. /\ IsSeq(seq \o <<element>>) /\ Len(seq \o <<element>>) = Len(seq) + Len(<<element>>)
          /\ \A i \in 1..Len(seq) : (seq \o <<element>>)[i] = seq[i]
          /\ \A i \in 1..Len(<<element>>) : (seq \o <<element>>)[Len(seq) + i] = <<element>>[i]
        BY <2>4, SingleIsSeq, ConcatIsSeq
    <2>7. Len(<<element>>) = 1 /\ <<element>>[1] = element
        BY SingleIsSeq
    <2>8. y[k + 1] = element
        <3>1. 1 \in 1..Len(<<element>>)
            BY <2>7
        <3> QED
            BY <2>3, <2>4, <2>5, <2>6, <2>7, <3>1
    <2>9. ASSUME NEW i \in 1..k + 1 PROVE y[i] \in sets[i]
        <3>1. CASE i = k + 1
            BY <2>8, <3>1
        <3>2. CASE i # k + 1
            <4>1. i \in 1..k
                BY <2>1, <3>2
            <4> QED
                BY <2>3, <2>4, <2>5, <2>6, <4>1
        <3> QED
            BY <3>1, <3>2
    <2>10. IsSeq(y) /\ Len(y) = k + 1
        BY <2>3, <2>4, <2>5, <2>6, <2>7
    <2> QED
        BY <2>9, <2>10
<1> HIDE DEF N
<1>9. 0..n \subseteq N
    BY <1>1, <1>7, <1>8, UpTo
<1>10. n \in N
    BY <1>1, <1>9
<1> QED
    BY <1>3, <1>10 DEF N, n

\* A row has one image, or two in an update.
LEMMA PerRowIs == PerRow \in {1, 2}
BY DEF PerRow

\* An image contains columns of its table.
LEMMA PresentInIs ==
    ASSUME EventInv, NEW k \in Nat \ {0}
    PROVE  PresentIn(k) \subseteq 1..Len(columns)
<1>1. PerRow \in {1, 2}
    BY PerRowIs
<1>2. 1 + ((k - 1) % PerRow) \in 1..PerRow
    BY <1>1
<1>3. DOMAIN columns = 1..Len(columns)
    BY SeqFacts DEF EventInv
<1> QED
    BY <1>2, <1>3 DEF EventInv, PresentIn

\* The server logs such an event.
LEMMA InitEvent == Init => EventInv
<1> SUFFICES ASSUME Init PROVE EventInv
    OBVIOUS
<1>1. PICK s \in Scenarios : \E n \in s.rows :
          /\ columns = s.columns /\ cmd \in s.cmds /\ headLen = s.headLen /\ extra = s.extra
          /\ presents \in [1..PerRow -> s.presents]
          /\ images \in Product([k \in 1..n * PerRow |-> ImagesOf(PresentIn(k))])
    BY DEF Init
<1>2. PICK n \in s.rows : images \in Product([k \in 1..n * PerRow |-> ImagesOf(PresentIn(k))])
    BY <1>1
<1>3. /\ IsSeq(columns) /\ Len(columns) <= 4096
      /\ \A i \in DOMAIN columns :
             Declared(columns[i]) /\ \A v \in columns[i].values \ {Null} : Storable(columns[i], v)
    BY <1>1, ScenariosAssumption
<1>4. cmd \in {23, 24, 25, 30, 31, 32} /\ headLen \in Nat \ 0..5 /\ IsSeq(extra) /\ Len(extra) < 65534
    BY <1>1, ScenariosAssumption
<1>5. presents \in [1..PerRow -> SUBSET DOMAIN columns]
    <2>1. s.presents \subseteq SUBSET DOMAIN columns
        BY <1>1, ScenariosAssumption
    <2> QED
        BY <1>1, <2>1
<1>6. tablemapBuf = TablemapBytes /\ rowBuf = RowBytes
    BY DEF Init
<1>7. n \in Nat /\ n * PerRow \in Nat
    <2>1. n \in Nat
        BY <1>2, ScenariosAssumption
    <2> QED
        BY <2>1, PerRowIs
<1> DEFINE sets == [k \in 1..n * PerRow |-> ImagesOf(PresentIn(k))]
<1>8. IsSeq(sets) /\ Len(sets) = n * PerRow /\ \A k \in 1..n * PerRow : sets[k] = ImagesOf(PresentIn(k))
    <2>1. sets = [k \in 1..n * PerRow |-> sets[k]] /\ \A k \in 1..n * PerRow : sets[k] = ImagesOf(PresentIn(k))
        OBVIOUS
    <2> HIDE DEF sets
    <2> QED
        BY <1>7, <2>1, FunctionIsSeq
<1>9. images \in Product(sets)
    BY <1>2
<1> HIDE DEF sets
<1>10. IsSeq(images) /\ Len(images) = n * PerRow /\ \A k \in 1..n * PerRow : images[k] \in sets[k]
    BY <1>8, <1>9, ProductElements
<1>11. ASSUME NEW k \in DOMAIN images, NEW i \in DOMAIN columns, i \in PresentIn(k)
       PROVE  IsNull(k, i) \/ Storable(columns[i], images[k][i])
    <2>1. k \in 1..n * PerRow
        BY <1>10, SeqFacts
    <2>2. images[k] \in ImagesOf(PresentIn(k))
        BY <1>8, <1>10, <2>1
    <2> DEFINE values == [j \in DOMAIN columns |-> IF j \in PresentIn(k) THEN columns[j].values ELSE {Null}]
    <2>3. Len(columns) \in Nat /\ DOMAIN columns = 1..Len(columns)
        BY <1>3, SeqFacts
    <2>4. IsSeq(values) /\ Len(values) = Len(columns)
        <3>1. values = [j \in 1..Len(columns) |-> values[j]]
            BY <2>3
        <3> HIDE DEF values
        <3> QED
            BY <2>3, <3>1, FunctionIsSeq
    <2>5. values[i] = columns[i].values
        BY <1>11
    <2>6. images[k] \in Product(values)
        BY <2>2 DEF ImagesOf
    <2> HIDE DEF values
    <2>7. images[k][i] \in columns[i].values
        BY <2>3, <2>4, <2>5, <2>6, ProductElements
    <2>8. CASE images[k][i] = Null
        BY <1>11, <2>8 DEF IsNull
    <2>9. CASE images[k][i] # Null
        BY <1>3, <2>7, <2>9
    <2> QED
        BY <2>8, <2>9
<1> QED
    BY <1>3, <1>4, <1>5, <1>6, <1>7, <1>10, <1>11 DEF EventInv

-----------------------------------------------------------------------------
(* The steps.                                                              *)

\* What depends on the event alone does not change while it is parsed.
LEMMA SameEvent ==
    ASSUME UNCHANGED event
    PROVE  /\ TablemapBytes' = TablemapBytes /\ RowBytes' = RowBytes /\ PerRow' = PerRow
           /\ \A k : PresentIn(k)' = PresentIn(k)
           /\ \A k, i : IsNull(k, i)' = IsNull(k, i)
<1>1. /\ columns' = columns /\ cmd' = cmd /\ headLen' = headLen /\ extra' = extra /\ presents' = presents
      /\ images' = images
    BY DEF event
<1>2. PerRow' = PerRow
    BY <1>1 DEF PerRow
<1>3. PostHead' = PostHead
    BY <1>1 DEF PostHead
<1>4. TablemapBytes' = TablemapBytes
    BY <1>1, <1>3 DEF TablemapBytes
<1>5. \A k : PresentIn(k)' = PresentIn(k)
    BY <1>1, <1>2 DEF PresentIn
<1>6. \A k, i : IsNull(k, i)' = IsNull(k, i)
    BY <1>1, <1>5 DEF IsNull
<1>7. \A k : NullBytes(k)' = NullBytes(k)
    BY <1>5, <1>6 DEF NullBytes
<1>8. \A k, i : Field(k, i)' = Field(k, i)
    BY <1>1, <1>5, <1>6 DEF Field
<1>9. \A k : ImageBytes(k)' = ImageBytes(k)
    BY <1>1, <1>7, <1>8 DEF ImageBytes
<1>10. RowHeadBytes' = RowHeadBytes
    BY <1>1, <1>2, <1>3 DEF RowHeadBytes
<1>11. RowBytes' = RowBytes
    BY <1>1, <1>9, <1>10 DEF RowBytes
<1> QED
    BY <1>2, <1>4, <1>5, <1>6, <1>11

\* No step of the parser changes the event.
LEMMA EventStep ==
    ASSUME [Next]_vars, EventInv
    PROVE  UNCHANGED event /\ EventInv'
<1>1. UNCHANGED event
    <2>1. CASE UNCHANGED vars
        BY <2>1 DEF vars
    <2>2. CASE ParseTablemap \/ ReadMeta \/ EndTablemap \/ ParseRowHead
        BY <2>2 DEF ParseTablemap, ReadMeta, EndTablemap, ParseRowHead
    <2>3. CASE BeginRow \/ EndOld \/ EndRow
        BY <2>3 DEF BeginRow, EndOld, EndRow
    <2>4. CASE PushAbsent \/ PushNull \/ PushValue \/ StopImage \/ Abort
        BY <2>4 DEF PushAbsent, PushNull, PushValue, StopImage, Abort, HasValue, InImage
    <2> QED
        BY <2>1, <2>2, <2>3, <2>4 DEF Next
<1>2. /\ columns' = columns /\ cmd' = cmd /\ headLen' = headLen /\ extra' = extra /\ presents' = presents
      /\ images' = images /\ tablemapBuf' = tablemapBuf /\ rowBuf' = rowBuf
    BY <1>1 DEF event
<1>3. /\ TablemapBytes' = TablemapBytes /\ RowBytes' = RowBytes /\ PerRow' = PerRow
      /\ \A k : PresentIn(k)' = PresentIn(k)
      /\ \A k, i : IsNull(k, i)' = IsNull(k, i)
    BY <1>1, SameEvent
<1>4. EventInv'
    BY <1>2, <1>3 DEF EventInv
<1> QED
    BY <1>1, <1>4

\* What the parser knows of the table.
MetasInv ==
    /\ IsSeq(metas) /\ Len(metas) <= Len(columns)
    /\ stage = "tablemap" => metas = << >> /\ metaPos = 0
    /\ stage # "tablemap" =>
           /\ types = TypeBytes /\ metaDef = Metadata(Len(columns))
           /\ metaPos = Len(Metadata(Len(metas)))
    /\ \A i \in 1..Len(metas) :
           metas[i] = IF MetaBytes(columns[i]) = Empty THEN 0 ELSE columns[i].meta
    /\ stage \notin {"tablemap", "meta"} => Len(metas) = Len(columns)

\* Nothing of the Table_map event has been read.
LEMMA MetasInit == Init => MetasInv
<1> SUFFICES ASSUME Init PROVE MetasInv
    OBVIOUS
<1>1. metas = << >> /\ metaPos = 0 /\ stage = "tablemap"
    BY DEF Init, Empty
<1>2. IsSeq(metas) /\ Len(metas) = 0
    BY <1>1, EmptyIsSeq
<1>3. Len(columns) \in Nat
    BY InitEvent, SeqFacts DEF EventInv
<1> QED
    BY <1>1, <1>2, <1>3 DEF MetasInv

\* The next column's metadata are read at their place.
LEMMA ReadMetaReads ==
    ASSUME EventInv, MetasInv, ReadMeta
    PROVE  MetasInv'
<1> DEFINE n == Len(columns)
           k == Len(metas)
           column == columns[k + 1]
           word == IF MetaBytes(column) = Empty THEN 0 ELSE column.meta
<1>1. /\ IsSeq(metas) /\ k \in Nat /\ k <= n /\ n \in Nat
      /\ types = TypeBytes /\ metaDef = Metadata(n) /\ metaPos = Len(Metadata(k))
      /\ \A i \in 1..k : metas[i] = IF MetaBytes(columns[i]) = Empty THEN 0 ELSE columns[i].meta
    BY SeqFacts DEF EventInv, MetasInv, ReadMeta
<1>2. /\ k < Len(types)
      /\ metas' = Append(metas, Meta(types[k + 1], Slice(metaDef, metaPos, MetaSize(types[k + 1]))))
      /\ metaPos' = metaPos + MetaSize(types[k + 1])
      /\ stage = "meta" /\ stage' = "meta" /\ types' = types /\ metaDef' = metaDef /\ UNCHANGED event
    BY DEF ReadMeta
<1>3. /\ DOMAIN columns = 1..n /\ Len(TypeBytes) = n
      /\ \A i \in 1..n : MetaParts[i] = MetaBytes(columns[i]) /\ IsSeq(MetaParts[i])
      /\ \A i \in 1..n : Len(MetaParts[i]) = MetaSize(columns[i].type)
    BY TableFacts
<1>4. k + 1 \in 1..n /\ types[k + 1] = column.type
    <2>1. k + 1 \in 1..n
        BY <1>1, <1>2, <1>3
    <2> QED
        BY <1>1, <1>3, <2>1 DEF TypeBytes
<1>5. Declared(column)
    BY <1>3, <1>4 DEF EventInv
<1> HIDE DEF n, k
<1>6. Reads(metaDef, metaPos, MetaBytes(column))
    <2>1. Reads(FlattenSeq(Prefix(MetaParts, n)), Len(FlattenSeq(Prefix(MetaParts, (k + 1) - 1))), MetaParts[k + 1])
        BY <1>1, <1>3, <1>4, FlattenReads
    <2>2. (k + 1) - 1 = k
        BY <1>1
    <2> QED
        BY <1>1, <1>3, <1>4, <2>1, <2>2 DEF Metadata
<1>7. Slice(metaDef, metaPos, MetaSize(column.type)) = MetaBytes(column)
    BY <1>5, <1>6, ReadsSlice, MetaRead
<1> DEFINE w == word
<1>8. metas' = Append(metas, w)
    <2>1. Meta(column.type, MetaBytes(column)) = w
        BY <1>5, MetaRead
    <2> QED
        BY <1>2, <1>4, <1>7, <2>1
<1> HIDE DEF w
<1>9. /\ IsSeq(metas') /\ Len(metas') = k + 1
      /\ \A i \in 1..k : metas'[i] = metas[i]
      /\ metas'[k + 1] = w
    <2>1. metas' = metas \o <<w>>
        BY <1>1, <1>8 DEF IsSeq
    <2>2. IsSeq(<<w>>) /\ Len(<<w>>) = 1 /\ <<w>>[1] = w
        BY SingleIsSeq
    <2>3. /\ IsSeq(metas \o <<w>>) /\ Len(metas \o <<w>>) = k + 1
          /\ \A i \in 1..k : (metas \o <<w>>)[i] = metas[i]
          /\ \A i \in 1..1 : (metas \o <<w>>)[k + i] = <<w>>[i]
        BY <1>1, <2>2, ConcatIsSeq DEF k
    <2>4. (metas \o <<w>>)[k + 1] = w
        <3>1. 1 \in 1..1
            OBVIOUS
        <3> QED
            BY <2>2, <2>3, <3>1
    <2> QED
        BY <2>1, <2>3, <2>4
<1>10. metaPos' = Len(Metadata(k + 1))
    <2>1. \A i \in 1..k + 1 : IsSeq(MetaParts[i])
        BY <1>1, <1>3, <1>4
    <2>2. k + 1 \in Nat \ {0}
        BY <1>1
    <2>3. FlattenSeq(Prefix(MetaParts, k + 1)) = FlattenSeq(Prefix(MetaParts, (k + 1) - 1)) \o MetaParts[k + 1]
        BY <2>2, <2>1, FlattenStep
    <2>4. (k + 1) - 1 = k
        BY <1>1
    <2>5. Metadata(k + 1) = Metadata(k) \o MetaParts[k + 1]
        BY <2>3, <2>4 DEF Metadata
    <2>6. IsSeq(Metadata(k)) /\ IsSeq(MetaParts[k + 1])
        BY <1>1, <2>1, FlattenIsSeq DEF Metadata
    <2>7. Len(Metadata(k) \o MetaParts[k + 1]) = Len(Metadata(k)) + Len(MetaParts[k + 1])
        BY <2>6, ConcatIsSeq
    <2>8. Len(MetaParts[k + 1]) = MetaSize(types[k + 1])
        BY <1>3, <1>4
    <2> QED
        BY <1>1, <1>2, <2>5, <2>7, <2>8
<1>11. ASSUME NEW i \in 1..k + 1
       PROVE  metas'[i] = IF MetaBytes(columns[i]) = Empty THEN 0 ELSE columns[i].meta
    <2>1. CASE i = k + 1
        BY <1>9, <2>1 DEF w
    <2>2. CASE i # k + 1
        <3>1. i \in 1..k
            BY <1>1, <2>2
        <3> QED
            BY <1>1, <1>9, <3>1
    <2> QED
        BY <2>1, <2>2
<1>12. columns' = columns
    BY <1>2 DEF event
<1>13. k + 1 <= n
    BY <1>4
<1>14. TypeBytes' = TypeBytes /\ \A i : Metadata(i)' = Metadata(i)
    BY <1>12 DEF TypeBytes, Metadata, MetaParts
<1> QED
    BY <1>1, <1>2, <1>9, <1>10, <1>11, <1>12, <1>13, <1>14 DEF MetasInv, n

\* Each step of the parser reads the metadata of the next column, or leaves all that was read.
LEMMA MetasStep ==
    ASSUME [Next]_vars, EventInv, MetasInv
    PROVE  MetasInv'
<1>1. columns' = columns
    BY EventStep DEF event
<1>2. TypeBytes' = TypeBytes /\ \A i : Metadata(i)' = Metadata(i)
    BY <1>1 DEF TypeBytes, Metadata, MetaParts
<1>3. CASE ParseTablemap
    <2>1. types' = TypeBytes /\ metaDef' = Metadata(Len(columns))
        BY <1>3, TablemapRead
    <2>2. stage = "tablemap" /\ stage' = "meta" /\ metaPos' = metaPos /\ metas' = metas
        BY <1>3 DEF ParseTablemap
    <2>3. metas = << >> /\ metaPos = 0 /\ Len(metas) = 0
        BY <2>2, EmptyIsSeq DEF MetasInv
    <2>4. Len(Metadata(0)) = 0
        BY FlattenEmpty, EmptyIsSeq DEF Metadata
    <2> QED
        BY <1>1, <1>2, <2>1, <2>2, <2>3, <2>4 DEF MetasInv
<1>4. CASE ReadMeta
    BY <1>4, ReadMetaReads
<1>5. CASE EndTablemap
    <2>1. UNCHANGED tablemap /\ stage = "meta" /\ stage' = "head" /\ Len(metas) = Len(types)
        BY <1>5 DEF EndTablemap
    <2>2. Len(types) = Len(columns)
        BY <2>1, TableFacts DEF MetasInv
    <2> QED
        BY <1>1, <1>2, <2>1, <2>2 DEF MetasInv, tablemap
<1>6. CASE UNCHANGED vars
    BY <1>1, <1>2, <1>6 DEF MetasInv, vars, tablemap
<1>7. ASSUME UNCHANGED tablemap, stage \notin {"tablemap", "meta"}, stage' \notin {"tablemap", "meta"}
      PROVE  MetasInv'
    BY <1>1, <1>2, <1>7 DEF MetasInv, tablemap
<1>8. CASE ParseRowHead \/ BeginRow \/ EndOld \/ EndRow
    BY <1>7, <1>8 DEF ParseRowHead, BeginRow, BeginImage, EndOld, EndRow
<1>9. CASE PushAbsent \/ PushNull \/ PushValue \/ StopImage \/ Abort
    BY <1>7, <1>9 DEF PushAbsent, PushNull, PushValue, StopImage, Abort, HasValue, InImage
<1> QED
    BY <1>3, <1>4, <1>5, <1>6, <1>8, <1>9 DEF Next

\* Each column gets the type and the metadata word that the server wrote for it, whatever
\* the types of the columns before it and however many there are: ParseTablemap and ReadMeta
\* keep their places in the Table_map event.
THEOREM MetasAreMatched == Spec => []MetasMatch
<1>1. Init => EventInv /\ MetasInv
    BY InitEvent, MetasInit
<1>2. EventInv /\ MetasInv /\ [Next]_vars => (EventInv /\ MetasInv)'
    BY EventStep, MetasStep
<1>3. EventInv /\ MetasInv => MetasMatch
    <2> SUFFICES ASSUME EventInv, MetasInv, stage # "tablemap" PROVE MetasMatch
        BY DEF MetasMatch
    <2>1. DOMAIN metas = 1..Len(metas)
        BY SeqFacts DEF MetasInv
    <2> QED
        BY <2>1 DEF MetasInv, MetasMatch, TypeBytes
<1> QED
    BY <1>1, <1>2, <1>3, PTL DEF Spec

-----------------------------------------------------------------------------
(* Bitmaps.                                                                *)

ByteOfBits(b0, b1, b2, b3, b4, b5, b6, b7) ==
    b0 + 2 * b1 + 4 * b2 + 8 * b3 + 16 * b4 + 32 * b5 + 64 * b6 + 128 * b7

HasBits(byte, b0, b1, b2, b3, b4, b5, b6, b7) ==
    /\ byte \in Nat /\ byte < 256
    /\ byte % 2 = b0 /\ (byte \div 2) % 2 = b1 /\ (byte \div 4) % 2 = b2 /\ (byte \div 8) % 2 = b3
    /\ (byte \div 16) % 2 = b4 /\ (byte \div 32) % 2 = b5 /\ (byte \div 64) % 2 = b6
    /\ (byte \div 128) % 2 = b7

\* Each of the eight bits of a byte is read again.
LEMMA BitsOfByte ==
    ASSUME NEW b0 \in {0, 1}, NEW b1 \in {0, 1}, NEW b2 \in {0, 1}, NEW b3 \in {0, 1},
           NEW b4 \in {0, 1}, NEW b5 \in {0, 1}, NEW b6 \in {0, 1}, NEW b7 \in {0, 1}
    PROVE  HasBits(ByteOfBits(b0, b1, b2, b3, b4, b5, b6, b7), b0, b1, b2, b3, b4, b5, b6, b7)
<1> DEFINE byte == ByteOfBits(b0, b1, b2, b3, b4, b5, b6, b7)
<1>1. byte \in Nat /\ byte < 256
    BY DEF ByteOfBits
<1> DEFINE c1 == b1 + 2 * b2 + 4 * b3 + 8 * b4 + 16 * b5 + 32 * b6 + 64 * b7
           c2 == b2 + 2 * b3 + 4 * b4 + 8 * b5 + 16 * b6 + 32 * b7
           c3 == b3 + 2 * b4 + 4 * b5 + 8 * b6 + 16 * b7
           c4 == b4 + 2 * b5 + 4 * b6 + 8 * b7
           c5 == b5 + 2 * b6 + 4 * b7
           c6 == b6 + 2 * b7
<1>2. byte = b0 + 2 * c1 /\ c1 \in Nat
    BY DEF ByteOfBits
<1>3. c1 = b1 + 2 * c2 /\ c2 \in Nat
    OBVIOUS
<1>4. c2 = b2 + 2 * c3 /\ c3 \in Nat
    OBVIOUS
<1>5. c3 = b3 + 2 * c4 /\ c4 \in Nat
    OBVIOUS
<1>6. c4 = b4 + 2 * c5 /\ c5 \in Nat
    OBVIOUS
<1>7. c5 = b5 + 2 * c6 /\ c6 \in Nat
    OBVIOUS
<1>8. c6 = b6 + 2 * b7
    OBVIOUS
<1> HIDE DEF byte, c1, c2, c3, c4, c5, c6
<1>9. byte % 2 = b0 /\ byte \div 2 = c1
    BY <1>2
<1>10. c1 % 2 = b1 /\ c1 \div 2 = c2
    BY <1>3
<1>11. c2 % 2 = b2 /\ c2 \div 2 = c3
    BY <1>4
<1>12. c3 % 2 = b3 /\ c3 \div 2 = c4
    BY <1>5
<1>13. c4 % 2 = b4 /\ c4 \div 2 = c5
    BY <1>6
<1>14. c5 % 2 = b5 /\ c5 \div 2 = c6
    BY <1>7
<1>15. c6 % 2 = b6 /\ c6 \div 2 = b7 /\ b7 % 2 = b7
    BY <1>8, <1>6
<1>16. /\ byte \div 4 = c2 /\ byte \div 8 = c3 /\ byte \div 16 = c4
       /\ byte \div 32 = c5 /\ byte \div 64 = c6 /\ byte \div 128 = b7
    <2>1. \A a \in Nat : /\ (a \div 2) \div 2 = a \div 4 /\ (a \div 4) \div 2 = a \div 8
                         /\ (a \div 8) \div 2 = a \div 16 /\ (a \div 16) \div 2 = a \div 32
                         /\ (a \div 32) \div 2 = a \div 64 /\ (a \div 64) \div 2 = a \div 128
        OBVIOUS
    <2> QED
        BY <1>1, <1>9, <1>10, <1>11, <1>12, <1>13, <1>14, <1>15, <2>1
<1> QED
    BY <1>1, <1>9, <1>10, <1>11, <1>12, <1>13, <1>14, <1>15, <1>16 DEF HasBits, byte

\* A bit of a bitmap is set if the bitmap was made of it.
LEMMA BitmapBit ==
    ASSUME NEW bits, NEW size \in Nat, NEW n \in Nat, n < 8 * size
    PROVE  GetBit(Bitmap(bits, size), n) <=> n \in bits
<1> DEFINE Bit(p) == IF p \in bits THEN 1 ELSE 0
           q == n \div 8
           byte == Bitmap(bits, size)[q + 1]
<1>1. q \in Nat /\ n % 8 \in 0..7 /\ n = 8 * q + (n % 8) /\ q + 1 \in 1..size
    OBVIOUS
<1>2. /\ 8 * (q + 1) - 8 = 8 * q /\ 8 * (q + 1) - 7 = 8 * q + 1 /\ 8 * (q + 1) - 6 = 8 * q + 2
      /\ 8 * (q + 1) - 5 = 8 * q + 3 /\ 8 * (q + 1) - 4 = 8 * q + 4 /\ 8 * (q + 1) - 3 = 8 * q + 5
      /\ 8 * (q + 1) - 2 = 8 * q + 6 /\ 8 * (q + 1) - 1 = 8 * q + 7
    BY <1>1
<1>3. GetBit(Bitmap(bits, size), n) <=> (byte \div Powers2[(n % 8) + 1]) % 2 = 1
    BY DEF GetBit
<1>4. byte = Bit(8 * (q + 1) - 8) + 2 * Bit(8 * (q + 1) - 7) + 4 * Bit(8 * (q + 1) - 6)
             + 8 * Bit(8 * (q + 1) - 5) + 16 * Bit(8 * (q + 1) - 4) + 32 * Bit(8 * (q + 1) - 3)
             + 64 * Bit(8 * (q + 1) - 2) + 128 * Bit(8 * (q + 1) - 1)
    BY <1>1 DEF Bitmap
<1>5. \A p : Bit(p) \in {0, 1} /\ (Bit(p) = 1 <=> p \in bits)
    OBVIOUS
<1> HIDE DEF Bit, q, byte
<1>6. byte = Bit(8 * q) + 2 * Bit(8 * q + 1) + 4 * Bit(8 * q + 2) + 8 * Bit(8 * q + 3)
             + 16 * Bit(8 * q + 4) + 32 * Bit(8 * q + 5) + 64 * Bit(8 * q + 6) + 128 * Bit(8 * q + 7)
    BY <1>2, <1>4
<1> DEFINE B0 == Bit(8 * q)  B1 == Bit(8 * q + 1)  B2 == Bit(8 * q + 2)  B3 == Bit(8 * q + 3)
           B4 == Bit(8 * q + 4)  B5 == Bit(8 * q + 5)  B6 == Bit(8 * q + 6)  B7 == Bit(8 * q + 7)
<1>7. /\ B0 \in {0, 1} /\ B1 \in {0, 1} /\ B2 \in {0, 1} /\ B3 \in {0, 1}
      /\ B4 \in {0, 1} /\ B5 \in {0, 1} /\ B6 \in {0, 1} /\ B7 \in {0, 1}
      /\ byte = ByteOfBits(B0, B1, B2, B3, B4, B5, B6, B7)
    BY <1>5, <1>6 DEF ByteOfBits
<1> HIDE DEF B0, B1, B2, B3, B4, B5, B6, B7
<1>8. /\ byte \in Nat
      /\ byte % 2 = B0 /\ (byte \div 2) % 2 = B1 /\ (byte \div 4) % 2 = B2 /\ (byte \div 8) % 2 = B3
      /\ (byte \div 16) % 2 = B4 /\ (byte \div 32) % 2 = B5 /\ (byte \div 64) % 2 = B6
      /\ (byte \div 128) % 2 = B7
    <2>1. HasBits(ByteOfBits(B0, B1, B2, B3, B4, B5, B6, B7), B0, B1, B2, B3, B4, B5, B6, B7)
        BY <1>7, BitsOfByte, SMTT(20)
    <2> QED
        BY <1>7, <2>1 DEF HasBits
<1>9. /\ Powers2[1] = 1 /\ Powers2[2] = 2 /\ Powers2[3] = 4 /\ Powers2[4] = 8
      /\ Powers2[5] = 16 /\ Powers2[6] = 32 /\ Powers2[7] = 64 /\ Powers2[8] = 128
    BY DEF Powers2
<1>10. (byte \div Powers2[(n % 8) + 1]) % 2 = Bit(n)
    <2> DEFINE r == n % 8
    <2>1. r \in {0, 1, 2, 3, 4, 5, 6, 7} /\ n = 8 * q + r
        BY <1>1
    <2> SUFFICES (byte \div Powers2[r + 1]) % 2 = Bit(8 * q + r)
        BY <2>1
    <2> HIDE DEF r
    <2>2. byte \div 1 = byte /\ 8 * q + 0 = 8 * q
        BY <1>1, <1>8
    <2>3. CASE r = 0
        <3>1. Powers2[r + 1] = 1 /\ 8 * q + r = 8 * q
            BY <1>9, <2>2, <2>3
        <3> QED
            BY <1>8, <2>2, <3>1 DEF B0
    <2>4. CASE r = 1
        BY <1>8, <1>9, <2>4 DEF B1
    <2>5. CASE r = 2
        BY <1>8, <1>9, <2>5 DEF B2
    <2>6. CASE r = 3
        BY <1>8, <1>9, <2>6 DEF B3
    <2>7. CASE r = 4
        BY <1>8, <1>9, <2>7 DEF B4
    <2>8. CASE r = 5
        BY <1>8, <1>9, <2>8 DEF B5
    <2>9. CASE r = 6
        BY <1>8, <1>9, <2>9 DEF B6
    <2>10. CASE r = 7
        BY <1>8, <1>9, <2>10 DEF B7
    <2> QED
        BY <2>1, <2>3, <2>4, <2>5, <2>6, <2>7, <2>8, <2>9, <2>10
<1> QED
    BY <1>3, <1>5, <1>10

\* What is in a bitmap are bytes.
LEMMA BitmapByte ==
    ASSUME NEW bits, NEW size \in Nat, NEW b \in 1..size
    PROVE  Bitmap(bits, size)[b] \in Nat /\ Bitmap(bits, size)[b] < 256
<1> DEFINE Bit(p) == IF p \in bits THEN 1 ELSE 0
           byte == Bitmap(bits, size)[b]
<1>1. byte = Bit(8 * b - 8) + 2 * Bit(8 * b - 7) + 4 * Bit(8 * b - 6) + 8 * Bit(8 * b - 5)
             + 16 * Bit(8 * b - 4) + 32 * Bit(8 * b - 3) + 64 * Bit(8 * b - 2) + 128 * Bit(8 * b - 1)
    BY DEF Bitmap
<1>2. \A p : Bit(p) \in {0, 1}
    OBVIOUS
<1> HIDE DEF Bit, byte
<1>3. byte \in Nat /\ byte < 256
    BY <1>1, <1>2
<1> QED
    BY <1>3 DEF byte

\* The number of columns of P before column i.
Before(P, i) == Cardinality({j \in P : j < i})

\* Columns of a table are finitely many, and so are those before one of them.
LEMMA PartFinite ==
    ASSUME NEW n \in Nat, NEW P \in SUBSET (1..n), NEW i
    PROVE  /\ IsFiniteSet(P) /\ Cardinality(P) \in Nat
           /\ IsFiniteSet({j \in P : j < i}) /\ Before(P, i) \in Nat /\ Before(P, i) <= Cardinality(P)
           /\ Cardinality(P) <= n
<1>1. IsFiniteSet(1..n) /\ Cardinality(1..n) = n
    BY FS_Interval
<1>2. IsFiniteSet(P) /\ Cardinality(P) <= n
    BY <1>1, FS_Subset
<1>3. {j \in P : j < i} \in SUBSET P
    OBVIOUS
<1>4. IsFiniteSet({j \in P : j < i}) /\ Cardinality({j \in P : j < i}) <= Cardinality(P)
    BY <1>2, <1>3, FS_Subset
<1> QED
    BY <1>2, <1>4, FS_CardinalityType DEF Before

\* There is none before the first column, and all are before the end.
LEMMA BeforeFirst ==
    ASSUME NEW n \in Nat, NEW P \in SUBSET (1..n)
    PROVE  Before(P, 1) = 0 /\ Before(P, n + 1) = Cardinality(P)
<1>1. \A j \in P : ~(j < 1) /\ j < n + 1
    OBVIOUS
<1>2. {j \in P : j < 1} = {} /\ {j \in P : j < n + 1} = P
    BY <1>1
<1> QED
    BY <1>2, FS_EmptySet DEF Before

\* A column of P counts for those behind it.
LEMMA BeforeNext ==
    ASSUME NEW n \in Nat, NEW P \in SUBSET (1..n), NEW i \in 1..n
    PROVE  Before(P, i + 1) = IF i \in P THEN Before(P, i) + 1 ELSE Before(P, i)
<1> DEFINE S == {j \in P : j < i}
<1>1. IsFiniteSet(S) /\ i \notin S
    BY PartFinite
<1>2. CASE i \in P
    <2>1. {j \in P : j < i + 1} = S \cup {i}
        <3>1. \A j \in P : j < i + 1 <=> j < i \/ j = i
            OBVIOUS
        <3> QED
            BY <1>2, <3>1
    <2>2. Cardinality(S \cup {i}) = Cardinality(S) + 1
        <3> HIDE DEF S
        <3> QED
            BY <1>1, FS_AddElement
    <2> QED
        BY <1>2, <2>1, <2>2 DEF Before
<1>3. CASE i \notin P
    <2>1. {j \in P : j < i + 1} = S
        <3>1. \A j \in P : j < i + 1 <=> j < i
            BY <1>3
        <3> QED
            BY <3>1
    <2> QED
        BY <1>3, <2>1 DEF Before
<1> QED
    BY <1>2, <1>3

\* Columns of P have different numbers of others before them.
LEMMA BeforeDiffers ==
    ASSUME NEW n \in Nat, NEW P \in SUBSET (1..n), NEW i \in P, NEW k \in P, Before(P, i) = Before(P, k)
    PROVE  i = k
<1>1. ASSUME NEW a \in P, NEW b \in P, a < b PROVE Before(P, a) # Before(P, b)
    <2> DEFINE S == {j \in P : j < a}
               R == {j \in P : j < b}
    <2>1. IsFiniteSet(R)
        BY PartFinite
    <2>2. S \in SUBSET R /\ a \in R /\ a \notin S
        <3>1. ~(a < a) /\ \A j \in P : j < a => j < b
            BY <1>1
        <3> QED
            BY <1>1, <3>1
    <2> HIDE DEF S, R
    <2>3. Cardinality(S) # Cardinality(R)
        BY <2>1, <2>2, FS_Subset
    <2> QED
        BY <2>3 DEF Before, S, R
<1>2. i \in Nat /\ k \in Nat
    OBVIOUS
<1> QED
    BY <1>1, <1>2

\* A column of P is not before itself.
LEMMA BeforeLess ==
    ASSUME NEW n \in Nat, NEW P \in SUBSET (1..n), NEW i \in P
    PROVE  Before(P, i) \in Nat /\ Before(P, i) < Cardinality(P)
<1> DEFINE S == {j \in P : j < i}
<1>1. IsFiniteSet(P) /\ Cardinality(P) \in Nat /\ Cardinality(S) \in Nat
    BY PartFinite DEF Before
<1>2. S \in SUBSET P /\ i \notin S
    OBVIOUS
<1> HIDE DEF S
<1>3. Cardinality(S) <= Cardinality(P) /\ Cardinality(S) # Cardinality(P)
    BY <1>1, <1>2, FS_Subset
<1> QED
    BY <1>1, <1>3 DEF Before, S

\* There are enough bytes for n bits.
LEMMA BytesFor ==
    ASSUME NEW n \in Nat
    PROVE  (n + 7) \div 8 \in Nat /\ n <= 8 * ((n + 7) \div 8)
OBVIOUS

\* The bits of a bitmap of columns are as many as the columns.
LEMMA BitsetCount ==
    ASSUME NEW n \in Nat, NEW P \in SUBSET (1..n)
    PROVE  GetBitsetCount(Bitmap({i - 1 : i \in P}, (n + 7) \div 8), n) = Cardinality(P)
<1> DEFINE bits == {i - 1 : i \in P}
           size == (n + 7) \div 8
           S == {i \in 0..n - 1 : GetBit(Bitmap(bits, size), i)}
           f == [i \in P |-> i - 1]
<1>1. size \in Nat /\ n <= 8 * size
    BY BytesFor
<1>2. IsFiniteSet(P)
    BY PartFinite
<1>3. S = bits
    <2>1. \A i \in 0..n - 1 : GetBit(Bitmap(bits, size), i) <=> i \in bits
        <3> SUFFICES ASSUME NEW i \in 0..n - 1 PROVE GetBit(Bitmap(bits, size), i) <=> i \in bits
            OBVIOUS
        <3>1. i \in Nat /\ i < 8 * size
            BY <1>1
        <3> HIDE DEF bits, size
        <3> QED
            BY <1>1, <3>1, BitmapBit
    <2>2. bits \subseteq 0..n - 1
        OBVIOUS
    <2> HIDE DEF bits, size
    <2> QED
        BY <2>1, <2>2
<1>4. f \in Bijection(P, bits)
    <2>1. f \in [P -> bits] /\ (\A a, b \in P : f[a] = f[b] => a = b) /\ \A t \in bits : \E s \in P : f[s] = t
        OBVIOUS
    <2> HIDE DEF f, bits
    <2> QED
        BY <2>1 DEF Bijection, Injection, Surjection, IsInjective
<1>5. Cardinality(bits) = Cardinality(P)
    <2> HIDE DEF f, bits
    <2> QED
        BY <1>2, <1>4, FS_Bijection DEF ExistsBijection
<1> QED
    BY <1>3, <1>5 DEF GetBitsetCount

-----------------------------------------------------------------------------
(* The bytes of values.                                                    *)

\* A number is written in as many bytes as it is given, the highest first.
LEMMA HighBytesIsSeq ==
    ASSUME NEW n, NEW size \in Nat
    PROVE  IsSeq(HighBytes(n, size)) /\ Len(HighBytes(n, size)) = size
<1>1. HighBytes(n, size) = [i \in 1..size |-> HighBytes(n, size)[i]]
    BY DEF HighBytes
<1> QED
    BY <1>1, FunctionIsSeq

\* A slice within a sequence has the length asked for.
LEMMA SliceIsSeq ==
    ASSUME NEW s, IsSeq(s), NEW from \in Nat, NEW n \in Nat, from + n <= Len(s)
    PROVE  IsSeq(Slice(s, from, n)) /\ Len(Slice(s, from, n)) = n
<1> DEFINE S == ToSet(s)
<1>1. s \in Seq(S) /\ Len(s) \in Nat
    BY SeqFacts DEF IsSeq
<1> HIDE DEF S
<1>2. Slice(s, from, n) \in Seq(S) /\ Len(Slice(s, from, n)) = n
    BY <1>1 DEF Slice
<1> QED
    BY <1>2, SeqIsSeq

\* The lengths of sequences add up to those in f.
AddUp(f, seqs, n) ==
    f[0] = 0 /\ \A i \in 1..n : IsSeq(seqs[i]) /\ f[i] = f[i - 1] + Len(seqs[i])

\* The lengths of sequences that are put together.
LEMMA FlattenLength ==
    ASSUME NEW seqs, NEW n \in Nat, NEW f, AddUp(f, seqs, n)
    PROVE  \A k \in 0..n : Len(FlattenSeq(Prefix(seqs, k))) = f[k]
<1> DEFINE N == {k \in 0..n : Len(FlattenSeq(Prefix(seqs, k))) = f[k]}
<1>1. f[0] = 0 /\ \A i \in 1..n : IsSeq(seqs[i]) /\ f[i] = f[i - 1] + Len(seqs[i])
    BY DEF AddUp
<1>2. 0 \in N
    BY <1>1, FlattenEmpty, EmptyIsSeq
<1>3. ASSUME NEW k \in 0..n - 1, k \in N PROVE k + 1 \in N
    <2>1. /\ k \in Nat /\ k + 1 \in Nat \ {0} /\ k + 1 \in 0..n /\ k + 1 \in 1..n /\ (k + 1) - 1 = k
          /\ \A j \in 1..k + 1 : IsSeq(seqs[j])
        BY <1>1
    <2>2. FlattenSeq(Prefix(seqs, k + 1)) = FlattenSeq(Prefix(seqs, (k + 1) - 1)) \o seqs[k + 1]
        BY <2>1, FlattenStep
    <2>3. IsSeq(FlattenSeq(Prefix(seqs, k))) /\ IsSeq(seqs[k + 1])
        BY <2>1, FlattenIsSeq
    <2>4. Len(FlattenSeq(Prefix(seqs, k)) \o seqs[k + 1]) = Len(FlattenSeq(Prefix(seqs, k))) + Len(seqs[k + 1])
        BY <2>3, ConcatIsSeq
    <2>5. f[k + 1] = f[k] + Len(seqs[k + 1])
        BY <1>1, <2>1
    <2> QED
        BY <1>3, <2>1, <2>2, <2>4, <2>5
<1> HIDE DEF N
<1>4. 0..n \subseteq N
    BY <1>2, <1>3, UpTo
<1> QED
    BY <1>4 DEF N

\* The groups of a DECIMAL's digits, by their sizes and the digits they begin behind.
AreGroups(groups, digits, precision, scale) ==
    LET a == (precision - scale) % 9
        b == scale % 9
        m == (precision - scale) \div 9
        k == scale \div 9
        a1 == IF a = 0 THEN 0 ELSE 1
        b1 == IF b = 0 THEN 0 ELSE 1
    IN /\ IsSeq(groups) /\ Len(groups) = a1 + m + k + b1
       /\ \A i \in 1..a1 + m + k + b1 :
              /\ Len(groups[i]) = IF i <= a1 THEN a ELSE IF i <= a1 + m + k THEN 9 ELSE b
              /\ groups[i] = IF i <= a1 THEN Slice(digits, 0, a)
                             ELSE IF i <= a1 + m + k THEN Slice(digits, a + 9 * ((i - a1) - 1), 9)
                             ELSE Slice(digits, precision - b, b)

\* The digits of a DECIMAL in groups: what is left of the integer part, nines, what is left of the fraction.
LEMMA GroupsAre ==
    ASSUME NEW precision \in Nat, NEW scale \in Nat, scale <= precision,
           NEW digits, IsSeq(digits), Len(digits) = precision
    PROVE  AreGroups(Groups(precision, scale, digits), digits, precision, scale)
<1> DEFINE a == (precision - scale) % 9
           b == scale % 9
           m == (precision - scale) \div 9
           k == scale \div 9
           a1 == IF a = 0 THEN 0 ELSE 1
           b1 == IF b = 0 THEN 0 ELSE 1
<1> DEFINE Group(from, n) == Slice(digits, from, n)
           r1 == IF a = 0 THEN << >> ELSE <<Group(0, a)>>
           n1 == [i \in 1..m |-> Group(a + 9 * (i - 1), 9)]
           n2 == [i \in 1..k |-> Group((precision - scale) + 9 * (i - 1), 9)]
           r2 == IF b = 0 THEN << >> ELSE <<Group(precision - b, b)>>
<1>1. /\ a \in Nat /\ a < 9 /\ m \in Nat /\ precision - scale = a + 9 * m
      /\ b \in Nat /\ b < 9 /\ k \in Nat /\ scale = b + 9 * k
      /\ a1 = (IF a = 0 THEN 0 ELSE 1) /\ b1 = (IF b = 0 THEN 0 ELSE 1)
    OBVIOUS
<1>2. Groups(precision, scale, digits) = r1 \o n1 \o n2 \o r2
    BY DEF Groups
<1> HIDE DEF a, b, m, k, a1, b1
<1>3. ASSUME NEW from \in Nat, NEW n \in Nat, from + n <= precision PROVE Len(Group(from, n)) = n
    BY <1>3, SliceIsSeq
<1>4. IsSeq(r1) /\ Len(r1) = a1 /\ \A i \in 1..a1 : Len(r1[i]) = a /\ r1[i] = Group(0, a)
    <2>1. CASE a = 0
        BY <1>1, <2>1, EmptyIsSeq
    <2>2. CASE a # 0
        <3>1. r1 = <<Group(0, a)>> /\ a1 = 1
            BY <1>1, <2>2
        <3>2. Len(Group(0, a)) = a
            BY <1>1, <1>3
        <3> HIDE DEF r1, Group
        <3> QED
            BY <3>1, <3>2, SingleIsSeq
    <2> QED
        BY <2>1, <2>2
<1>5. IsSeq(n1) /\ Len(n1) = m /\ \A i \in 1..m : Len(n1[i]) = 9 /\ n1[i] = Group(a + 9 * (i - 1), 9)
    <2>1. n1 = [i \in 1..m |-> n1[i]] /\ \A i \in 1..m : n1[i] = Group(a + 9 * (i - 1), 9)
        OBVIOUS
    <2>2. ASSUME NEW i \in 1..m PROVE Len(Group(a + 9 * (i - 1), 9)) = 9
        <3>1. a + 9 * (i - 1) \in Nat /\ (a + 9 * (i - 1)) + 9 <= precision
            BY <1>1
        <3> QED
            BY <3>1, <1>3
    <2> HIDE DEF n1, Group
    <2> QED
        BY <1>1, <2>1, <2>2, FunctionIsSeq
<1>6. /\ IsSeq(n2) /\ Len(n2) = k
      /\ \A i \in 1..k : Len(n2[i]) = 9 /\ n2[i] = Group((precision - scale) + 9 * (i - 1), 9)
    <2>1. n2 = [i \in 1..k |-> n2[i]] /\ \A i \in 1..k : n2[i] = Group((precision - scale) + 9 * (i - 1), 9)
        OBVIOUS
    <2>2. ASSUME NEW i \in 1..k PROVE Len(Group((precision - scale) + 9 * (i - 1), 9)) = 9
        <3>1. /\ (precision - scale) + 9 * (i - 1) \in Nat
              /\ ((precision - scale) + 9 * (i - 1)) + 9 <= precision
            BY <1>1
        <3> QED
            BY <3>1, <1>3
    <2> HIDE DEF n2, Group
    <2> QED
        BY <1>1, <2>1, <2>2, FunctionIsSeq
<1>7. IsSeq(r2) /\ Len(r2) = b1 /\ \A i \in 1..b1 : Len(r2[i]) = b /\ r2[i] = Group(precision - b, b)
    <2>1. CASE b = 0
        BY <1>1, <2>1, EmptyIsSeq
    <2>2. CASE b # 0
        <3>1. r2 = <<Group(precision - b, b)>> /\ b1 = 1
            BY <1>1, <2>2
        <3>2. Len(Group(precision - b, b)) = b
            <4>1. precision - b \in Nat /\ (precision - b) + b <= precision
                BY <1>1
            <4> QED
                BY <1>1, <1>3, <4>1
        <3> HIDE DEF r2, Group
        <3> QED
            BY <3>1, <3>2, SingleIsSeq
    <2> QED
        BY <2>1, <2>2
<1> HIDE DEF r1, n1, n2, r2, Group
<1>8. /\ IsSeq(r1 \o n1) /\ Len(r1 \o n1) = a1 + m
      /\ \A i \in 1..a1 : (r1 \o n1)[i] = r1[i]
      /\ \A i \in 1..m : (r1 \o n1)[a1 + i] = n1[i]
    <2>1. IsSeq(r1) /\ IsSeq(n1)
        BY <1>4, <1>5
    <2>2. /\ IsSeq(r1 \o n1) /\ Len(r1 \o n1) = Len(r1) + Len(n1)
          /\ \A i \in 1..Len(r1) : (r1 \o n1)[i] = (r1)[i]
          /\ \A i \in 1..Len(n1) : (r1 \o n1)[Len(r1) + i] = n1[i]
        BY <2>1, ConcatIsSeq
    <2> QED
        BY <2>2, <1>4, <1>5
<1>9. /\ IsSeq(r1 \o n1 \o n2) /\ Len(r1 \o n1 \o n2) = a1 + m + k
      /\ \A i \in 1..a1 + m : (r1 \o n1 \o n2)[i] = (r1 \o n1)[i]
      /\ \A i \in 1..k : (r1 \o n1 \o n2)[a1 + m + i] = n2[i]
    <2>1. IsSeq(r1 \o n1) /\ IsSeq(n2)
        BY <1>6, <1>8
    <2>2. /\ IsSeq(r1 \o n1 \o n2) /\ Len(r1 \o n1 \o n2) = Len(r1 \o n1) + Len(n2)
          /\ \A i \in 1..Len(r1 \o n1) : (r1 \o n1 \o n2)[i] = (r1 \o n1)[i]
          /\ \A i \in 1..Len(n2) : (r1 \o n1 \o n2)[Len(r1 \o n1) + i] = n2[i]
        BY <2>1, ConcatIsSeq
    <2> QED
        BY <2>2, <1>6, <1>8
<1>10. /\ IsSeq(r1 \o n1 \o n2 \o r2) /\ Len(r1 \o n1 \o n2 \o r2) = a1 + m + k + b1
       /\ \A i \in 1..a1 + m + k : (r1 \o n1 \o n2 \o r2)[i] = (r1 \o n1 \o n2)[i]
       /\ \A i \in 1..b1 : (r1 \o n1 \o n2 \o r2)[a1 + m + k + i] = r2[i]
    <2>1. IsSeq(r1 \o n1 \o n2) /\ IsSeq(r2)
        BY <1>7, <1>9
    <2>2. /\ IsSeq(r1 \o n1 \o n2 \o r2) /\ Len(r1 \o n1 \o n2 \o r2) = Len(r1 \o n1 \o n2) + Len(r2)
          /\ \A i \in 1..Len(r1 \o n1 \o n2) : (r1 \o n1 \o n2 \o r2)[i] = (r1 \o n1 \o n2)[i]
          /\ \A i \in 1..Len(r2) : (r1 \o n1 \o n2 \o r2)[Len(r1 \o n1 \o n2) + i] = r2[i]
        BY <2>1, ConcatIsSeq
    <2> QED
        BY <2>2, <1>7, <1>9
<1>11. ASSUME NEW i \in 1..a1 + m + k + b1
       PROVE  /\ Len((r1 \o n1 \o n2 \o r2)[i]) = IF i <= a1 THEN a ELSE IF i <= a1 + m + k THEN 9 ELSE b
              /\ (r1 \o n1 \o n2 \o r2)[i] = IF i <= a1 THEN Group(0, a)
                                            ELSE IF i <= a1 + m + k THEN Group(a + 9 * ((i - a1) - 1), 9)
                                            ELSE Group(precision - b, b)
    <2>1. a1 \in Nat /\ b1 \in Nat
        BY <1>1
    <2>2. CASE i <= a1
        <3>1. i \in 1..a1 /\ i \in 1..a1 + m /\ i \in 1..a1 + m + k
            BY <1>1, <2>1, <2>2
        <3> QED
            BY <1>4, <1>8, <1>9, <1>10, <2>2, <3>1
    <2>3. CASE ~(i <= a1) /\ i <= a1 + m
        <3>1. i - a1 \in 1..m /\ i = a1 + (i - a1) /\ i \in 1..a1 + m /\ i \in 1..a1 + m + k /\ i <= a1 + m + k
            BY <1>1, <2>1, <2>3
        <3>2. (r1 \o n1)[i] = n1[i - a1]
            BY <1>8, <3>1
        <3>3. (r1 \o n1 \o n2 \o r2)[i] = n1[i - a1]
            BY <1>9, <1>10, <3>1, <3>2
        <3> QED
            BY <1>5, <2>3, <3>1, <3>3
    <2>4. CASE ~(i <= a1 + m) /\ i <= a1 + m + k
        <3>1. /\ i - (a1 + m) \in 1..k /\ i = a1 + m + (i - (a1 + m)) /\ i \in 1..a1 + m + k
              /\ ~(i <= a1)
              /\ (precision - scale) + 9 * ((i - (a1 + m)) - 1) = a + 9 * ((i - a1) - 1)
            BY <1>1, <2>1, <2>4
        <3>2. (r1 \o n1 \o n2)[i] = n2[i - (a1 + m)]
            BY <1>9, <3>1
        <3>3. (r1 \o n1 \o n2 \o r2)[i] = n2[i - (a1 + m)]
            BY <1>10, <3>1, <3>2
        <3> QED
            BY <1>6, <2>4, <3>1, <3>3
    <2>5. CASE ~(i <= a1 + m + k)
        <3>1. i - (a1 + m + k) \in 1..b1 /\ i = a1 + m + k + (i - (a1 + m + k)) /\ ~(i <= a1)
            BY <1>1, <2>1, <2>5
        <3>2. (r1 \o n1 \o n2 \o r2)[i] = r2[i - (a1 + m + k)]
            BY <1>10, <3>1
        <3> QED
            BY <1>7, <2>5, <3>1, <3>2
    <2> QED
        BY <2>2, <2>3, <2>4, <2>5
<1> QED
    BY <1>2, <1>10, <1>11 DEF AreGroups, Group, a, b, m, k, a1, b1

\* The sizes of the parts of a DECIMAL: the digits left of its nines and right of them, how many
\* nines are in front of the point and behind it, and how many groups the rests are.
Shape(precision, scale, a, b, m, k, a1, b1) ==
    /\ a = (precision - scale) % 9 /\ m = (precision - scale) \div 9
    /\ b = scale % 9 /\ k = scale \div 9
    /\ a1 = (IF a = 0 THEN 0 ELSE 1) /\ b1 = (IF b = 0 THEN 0 ELSE 1)

\* They are the parts of its digits.
LEMMA ShapeIs ==
    ASSUME NEW precision \in Nat \ {0}, NEW scale \in Nat, scale <= precision,
           NEW a, NEW b, NEW m, NEW k, NEW a1, NEW b1, Shape(precision, scale, a, b, m, k, a1, b1)
    PROVE  /\ a \in Nat /\ a < 9 /\ m \in Nat /\ b \in Nat /\ b < 9 /\ k \in Nat
           /\ a1 \in {0, 1} /\ b1 \in {0, 1} /\ (a1 = 0 <=> a = 0) /\ (b1 = 0 <=> b = 0)
           /\ precision - scale = a + 9 * m /\ scale = b + 9 * k
           /\ a1 + m + k + b1 \in Nat \ {0}
<1>1. /\ a \in Nat /\ a < 9 /\ m \in Nat /\ precision - scale = a + 9 * m
    BY DEF Shape
<1>2. /\ b \in Nat /\ b < 9 /\ k \in Nat /\ scale = b + 9 * k
    BY DEF Shape
<1>3. a1 = (IF a = 0 THEN 0 ELSE 1) /\ b1 = (IF b = 0 THEN 0 ELSE 1)
    BY DEF Shape
<1> QED
    BY <1>1, <1>2, <1>3

\* The bytes for the digits of a rest.
LEMMA RestBytes ==
    ASSUME NEW a \in Nat, a < 9
    PROVE  Dig2Bytes(a) \in Nat /\ Dig2Bytes(9) = 4 /\ (a = 0 => Dig2Bytes(a) = 0)
BY DEF Dig2Bytes

\* The bytes of each group, and where they begin.
PiecesOf(groups) == [i \in DOMAIN groups |-> HighBytes(Number(groups[i]), Dig2Bytes(Len(groups[i])))]
PieceStart(a, m, k, a1, i) ==
    IF i <= a1 THEN 0
    ELSE IF i <= a1 + m + k THEN Dig2Bytes(a) + 4 * ((i - a1) - 1)
    ELSE Dig2Bytes(a) + 4 * (m + k)

\* The groups of a DECIMAL are written one behind the other.
LEMMA PiecesAre ==
    ASSUME NEW precision \in Nat \ {0}, NEW scale \in Nat, scale <= precision,
           NEW digits, IsSeq(digits), Len(digits) = precision,
           NEW a, NEW b, NEW m, NEW k, NEW a1, NEW b1, Shape(precision, scale, a, b, m, k, a1, b1),
           NEW groups, groups = Groups(precision, scale, digits)
    PROVE  /\ IsSeq(FlattenSeq(PiecesOf(groups)))
           /\ Len(FlattenSeq(PiecesOf(groups))) = Dig2Bytes(a) + 4 * m + 4 * k + Dig2Bytes(b)
           /\ \A i \in 1..a1 + m + k + b1 :
                  Reads(FlattenSeq(PiecesOf(groups)), PieceStart(a, m, k, a1, i),
                        HighBytes(Number(groups[i]), Dig2Bytes(Len(groups[i]))))
<1> DEFINE n == a1 + m + k + b1
           pieces == PiecesOf(groups)
           plain == FlattenSeq(pieces)
           da == Dig2Bytes(a)
           db == Dig2Bytes(b)
<1>1. /\ a \in Nat /\ a < 9 /\ m \in Nat /\ b \in Nat /\ b < 9 /\ k \in Nat
      /\ a1 \in {0, 1} /\ b1 \in {0, 1} /\ (a1 = 0 <=> a = 0) /\ (b1 = 0 <=> b = 0)
      /\ n \in Nat \ {0}
    BY ShapeIs
<1>2. da \in Nat /\ db \in Nat /\ Dig2Bytes(9) = 4 /\ (a1 = 0 => da = 0) /\ (b1 = 0 => db = 0)
    BY <1>1, RestBytes
<1>3. /\ IsSeq(groups) /\ Len(groups) = n
      /\ \A i \in 1..n : Len(groups[i]) = IF i <= a1 THEN a ELSE IF i <= a1 + m + k THEN 9 ELSE b
    <2>1. AreGroups(Groups(precision, scale, digits), digits, precision, scale)
        BY GroupsAre
    <2> QED
        BY <2>1 DEF AreGroups, Shape
<1>4. DOMAIN groups = 1..n
    BY <1>3, SeqFacts
<1> HIDE DEF n
<1>5. ASSUME NEW i \in 1..n
      PROVE  /\ pieces[i] = HighBytes(Number(groups[i]), Dig2Bytes(Len(groups[i])))
             /\ IsSeq(pieces[i])
             /\ Len(pieces[i]) = IF i <= a1 THEN da ELSE IF i <= a1 + m + k THEN 4 ELSE db
    <2>1. Dig2Bytes(Len(groups[i])) = IF i <= a1 THEN da ELSE IF i <= a1 + m + k THEN 4 ELSE db
        BY <1>2, <1>3
    <2>2. Dig2Bytes(Len(groups[i])) \in Nat
        BY <1>2, <2>1
    <2>3. pieces[i] = HighBytes(Number(groups[i]), Dig2Bytes(Len(groups[i])))
        BY <1>4 DEF PiecesOf
    <2> QED
        BY <2>1, <2>2, <2>3, HighBytesIsSeq
<1>6. Prefix(pieces, n) = pieces
    BY <1>4 DEF Prefix, PiecesOf
<1> HIDE DEF pieces
<1>7. IsSeq(plain)
    <2>1. \A i \in 1..n : IsSeq(pieces[i])
        BY <1>5
    <2>2. IsSeq(FlattenSeq(Prefix(pieces, n)))
        BY <1>1, <2>1, FlattenIsSeq DEF n
    <2> QED
        BY <1>6, <2>2
<1> DEFINE f == [i \in 0..n |->
                    IF i = 0 THEN 0
                    ELSE IF i <= a1 + m + k THEN da + 4 * (i - a1)
                    ELSE da + 4 * (m + k) + db]
<1>8. n = a1 + m + k + b1
    BY DEF n
<1> HIDE DEF da, db
<1>9. f[0] = 0
    BY <1>1, <1>8
<1>10. ASSUME NEW i \in 1..n
       PROVE  f[i] = f[i - 1] + Len(pieces[i]) /\ f[i - 1] = PieceStart(a, m, k, a1, i)
    <2>1. /\ i \in 0..n /\ i - 1 \in 0..n /\ i # 0
          /\ f[i] = IF i <= a1 + m + k THEN da + 4 * (i - a1) ELSE da + 4 * (m + k) + db
          /\ f[i - 1] = IF i - 1 = 0 THEN 0
                        ELSE IF i - 1 <= a1 + m + k THEN da + 4 * ((i - 1) - a1)
                        ELSE da + 4 * (m + k) + db
        BY <1>1, <1>8
    <2>2. Len(pieces[i]) = IF i <= a1 THEN da ELSE IF i <= a1 + m + k THEN 4 ELSE db
        BY <1>5
    <2>3. PieceStart(a, m, k, a1, i) =
              IF i <= a1 THEN 0 ELSE IF i <= a1 + m + k THEN da + 4 * ((i - a1) - 1) ELSE da + 4 * (m + k)
        BY DEF PieceStart, da
    <2> HIDE DEF f
    <2>4. CASE i <= a1
        <3>1. i = 1 /\ a1 = 1 /\ i <= a1 + m + k
            BY <1>1, <2>4
        <3> QED
            BY <1>2, <2>1, <2>2, <2>3, <2>4, <3>1
    <2>5. CASE ~(i <= a1) /\ i <= a1 + m + k
        <3>1. f[i - 1] = da + 4 * ((i - a1) - 1)
            <4>1. CASE i = 1
                BY <1>1, <1>2, <2>1, <2>5, <4>1
            <4>2. CASE i # 1
                BY <1>1, <1>2, <2>1, <2>5, <4>2
            <4> QED
                BY <4>1, <4>2
        <3> QED
            BY <1>1, <1>2, <2>1, <2>2, <2>3, <2>5, <3>1
    <2>6. CASE ~(i <= a1 + m + k)
        <3>1. i = a1 + m + k + 1 /\ i - 1 = a1 + m + k /\ ~(i <= a1) /\ i - 1 <= a1 + m + k
            BY <1>1, <1>8, <2>6
        <3>2. f[i - 1] = da + 4 * (m + k)
            <4>1. CASE i = 1
                BY <1>1, <1>2, <2>1, <3>1, <4>1
            <4>2. CASE i # 1
                BY <1>1, <1>2, <2>1, <3>1, <4>2
            <4> QED
                BY <4>1, <4>2
        <3> QED
            BY <1>1, <1>2, <2>1, <2>2, <2>3, <2>6, <3>1, <3>2
    <2> QED
        BY <2>4, <2>5, <2>6
<1>11. f[n] = da + 4 * m + 4 * k + db
    <2>1. /\ n # 0 /\ n \in 0..n
          /\ f[n] = IF n <= a1 + m + k THEN da + 4 * (n - a1) ELSE da + 4 * (m + k) + db
        BY <1>1
    <2> HIDE DEF f
    <2>2. CASE b1 = 0
        BY <1>1, <1>2, <1>8, <2>1, <2>2
    <2>3. CASE b1 = 1
        BY <1>1, <1>2, <1>8, <2>1, <2>3
    <2> QED
        BY <1>1, <2>2, <2>3
<1> HIDE DEF f
<1>12. \A j \in 0..n : Len(FlattenSeq(Prefix(pieces, j))) = f[j]
    <2>1. AddUp(f, pieces, n)
        BY <1>5, <1>9, <1>10 DEF AddUp
    <2>2. n \in Nat
        BY <1>1
    <2> QED
        BY <2>1, <2>2, FlattenLength
<1>13. Len(plain) = da + 4 * m + 4 * k + db
    <2>1. n \in 0..n
        BY <1>1
    <2> QED
        BY <1>6, <1>11, <1>12, <2>1
<1>14. ASSUME NEW i \in 1..n
       PROVE  Reads(plain, PieceStart(a, m, k, a1, i), HighBytes(Number(groups[i]), Dig2Bytes(Len(groups[i]))))
    <2>1. \A j \in 1..n : IsSeq(pieces[j])
        BY <1>5
    <2>2. Reads(FlattenSeq(Prefix(pieces, n)), Len(FlattenSeq(Prefix(pieces, i - 1))), pieces[i])
        BY <1>1, <2>1, FlattenReads
    <2>3. i - 1 \in 0..n
        BY <1>1
    <2>4. Len(FlattenSeq(Prefix(pieces, i - 1))) = PieceStart(a, m, k, a1, i)
        BY <1>10, <1>12, <2>3
    <2> QED
        BY <1>5, <1>6, <2>2, <2>4
<1> QED
    BY <1>7, <1>13, <1>14 DEF pieces, n, da, db

\* A DECIMAL has the bytes that decimal_bin_size counts.
LEMMA DecimalBytesSize ==
    ASSUME NEW precision \in Nat \ {0}, NEW scale \in Nat, scale <= precision,
           NEW value, IsSeq(value), Len(value) = 1 + precision
    PROVE  /\ IsSeq(DecimalBytes(precision, scale, value))
           /\ Len(DecimalBytes(precision, scale, value)) = DecimalBinSize(precision, scale)
<1> DEFINE a == (precision - scale) % 9
           b == scale % 9
           m == (precision - scale) \div 9
           k == scale \div 9
           a1 == IF a = 0 THEN 0 ELSE 1
           b1 == IF b = 0 THEN 0 ELSE 1
           digits == Tail(value)
           groups == Groups(precision, scale, digits)
           plain == FlattenSeq(PiecesOf(groups))
           bytes == DecimalBytes(precision, scale, value)
           total == Dig2Bytes(a) + 4 * m + 4 * k + Dig2Bytes(b)
<1>1. Shape(precision, scale, a, b, m, k, a1, b1)
    BY DEF Shape
<1>2. DecimalBinSize(precision, scale) = total
    <2>1. m \in Nat /\ k \in Nat /\ a \in Nat /\ b \in Nat /\ a < 9 /\ b < 9
        OBVIOUS
    <2>2. Dig2Bytes(a) \in Nat /\ Dig2Bytes(b) \in Nat
        BY <2>1, RestBytes
    <2> QED
        BY <2>1, <2>2 DEF DecimalBinSize, DigPerDec1
<1>3. bytes = [[i \in DOMAIN plain |-> IF value[1] = 1 THEN 255 - plain[i] ELSE plain[i]]
                   EXCEPT ![1] = (@ + 128) % 256]
    BY DEF DecimalBytes, PiecesOf
<1>4. IsSeq(digits) /\ Len(digits) = precision
    <2> DEFINE S == ToSet(value)
    <2>1. value \in Seq(S) /\ value # << >>
        BY DEF IsSeq
    <2> HIDE DEF S
    <2>2. digits \in Seq(S) /\ Len(digits) = Len(value) - 1
        BY <2>1
    <2>3. Len(digits) = precision
        BY <2>2
    <2> QED
        BY <2>2, <2>3, SeqIsSeq
<1> HIDE DEF a, b, m, k, a1, b1, digits, bytes, groups
<1>5. IsSeq(plain) /\ Len(plain) = total
    <2>1. groups = Groups(precision, scale, digits)
        BY DEF groups
    <2> QED
        BY <1>1, <1>4, <2>1, PiecesAre
<1> HIDE DEF plain, total
<1>6. DOMAIN plain = 1..total /\ total \in Nat
    BY <1>5, SeqFacts
<1>7. bytes = [i \in 1..total |-> bytes[i]]
    BY <1>3, <1>6, SMTT(30)
<1>8. IsSeq(bytes) /\ Len(bytes) = total
    BY <1>6, <1>7, FunctionIsSeq
<1> QED
    BY <1>2, <1>8 DEF bytes

\* By how much the parser moves on, by the real type of a column.
LEMMA ParsedSize ==
    ASSUME NEW buf, NEW at, NEW col_type, NEW meta, NEW type, type = RealType(col_type, meta)
    PROVE  /\ type \in {1, 2, 3, 8, 9} => ParseColumnValue(buf, at, col_type, meta).size = IntegerSize(type)
           /\ type \in {4, 7} => ParseColumnValue(buf, at, col_type, meta).size = 4
           /\ type \in {5, 12} => ParseColumnValue(buf, at, col_type, meta).size = 8
           /\ type \in {10, 11, 14} => ParseColumnValue(buf, at, col_type, meta).size = 3
           /\ type = 13 => ParseColumnValue(buf, at, col_type, meta).size = 1
           /\ type \in {247, 248} => ParseColumnValue(buf, at, col_type, meta).size = meta % 256
           /\ type = 252 => ParseColumnValue(buf, at, col_type, meta) = Prefixed(buf, at, meta)
           /\ type = 15 => ParseColumnValue(buf, at, col_type, meta) = Prefixed(buf, at, PrefixSize(meta))
           /\ type = 254 => ParseColumnValue(buf, at, col_type, meta) = Prefixed(buf, at, PrefixSize(StringLength(meta)))
           /\ type = 16 => ParseColumnValue(buf, at, col_type, meta).size = (meta \div 256 + 8 * (meta % 256) + 7) \div 8
           /\ type = 246 => ParseColumnValue(buf, at, col_type, meta).size = DecimalBinSize(meta \div 256, meta % 256)
           /\ type = 17 => ParseColumnValue(buf, at, col_type, meta) = Timestamp2(buf, at, meta)
           /\ type = 18 => ParseColumnValue(buf, at, col_type, meta) = Datetime2(buf, at, meta)
           /\ type = 19 => ParseColumnValue(buf, at, col_type, meta) = Time2(buf, at, meta)
<1>1. \A size, text : Value(size, text).size = size
    BY DEF Value
<1>2. \A size : Bytes(buf, at, size).size = size
    BY <1>1 DEF Bytes
<1>3. Time(buf, at).size = 3 /\ Date(buf, at).size = 3 /\ Year(buf, at).size = 1 /\ Datetime(buf, at).size = 8
    BY <1>1 DEF Time, Date, Year, Datetime
<1>4. \A size : Enum(buf, at, size).size = size
    BY <1>1 DEF Enum
<1>5. \A precision, decimals : NewDecimal(buf, at, precision, decimals).size = DecimalBinSize(precision, decimals)
    BY <1>1 DEF NewDecimal
<1>6. IntegerTypes = {1, 2, 9, 3, 8}
    BY TypeCodes DEF IntegerTypes
<1> DEFINE parsed == ParseColumnValue(buf, at, col_type, meta)
           Integer == Value(IntegerSize(type), <<SignedLow(Slice(buf, at, IntegerSize(type)))>>)
           Timestamp == Value(4, <<Low(Slice(buf, at, 4))>>)
           bit == (meta \div 256 + 8 * (meta % 256) + 7) \div 8
           low == meta % 256
           high == meta \div 256
<1>7. parsed = CASE type \in {1, 2, 9, 3, 8} -> Integer
                 [] type = 7 -> Timestamp
                 [] type = 4 -> Bytes(buf, at, 4)
                 [] type = 5 -> Bytes(buf, at, 8)
                 [] type = 12 -> Datetime(buf, at)
                 [] type = 11 -> Time(buf, at)
                 [] type \in {14, 10} -> Date(buf, at)
                 [] type = 13 -> Year(buf, at)
                 [] type = 247 -> Enum(buf, at, low)
                 [] type = 248 -> Bytes(buf, at, low)
                 [] type = 252 -> Prefixed(buf, at, meta)
                 [] type \in {15, 253} -> Prefixed(buf, at, PrefixSize(meta))
                 [] type = 254 -> Prefixed(buf, at, PrefixSize(StringLength(meta)))
                 [] type = 16 -> Bytes(buf, at, bit)
                 [] type = 246 -> NewDecimal(buf, at, high, low)
                 [] type = 17 -> Timestamp2(buf, at, meta)
                 [] type = 18 -> Datetime2(buf, at, meta)
                 [] type = 19 -> Time2(buf, at, meta)
    BY <1>6, TypeCodes DEF ParseColumnValue
<1>8. Integer.size = IntegerSize(type) /\ Timestamp.size = 4
    BY <1>1
<1> HIDE DEF parsed, Integer, Timestamp, bit, low, high
<1>9. type \in {1, 2, 3, 8, 9} => parsed.size = IntegerSize(type)
    BY <1>7, <1>8
<1>10. type \in {4, 7} => parsed.size = 4
    BY <1>2, <1>7, <1>8
<1>11. type \in {5, 12} => parsed.size = 8
    BY <1>2, <1>3, <1>7
<1>12. type \in {10, 11, 14} => parsed.size = 3
    BY <1>3, <1>7
<1>13. type = 13 => parsed.size = 1
    BY <1>3, <1>7
<1>14. type \in {247, 248} => parsed.size = low
    BY <1>2, <1>4, <1>7
<1>15. type = 252 => parsed = Prefixed(buf, at, meta)
    BY <1>7
<1>16. type = 15 => parsed = Prefixed(buf, at, PrefixSize(meta))
    BY <1>7
<1>17. type = 254 => parsed = Prefixed(buf, at, PrefixSize(StringLength(meta)))
    BY <1>7
<1>18. type = 16 => parsed.size = bit
    BY <1>2, <1>7
<1>19. type = 246 => parsed.size = DecimalBinSize(high, low)
    BY <1>5, <1>7
<1>20. /\ type = 17 => parsed = Timestamp2(buf, at, meta)
       /\ type = 18 => parsed = Datetime2(buf, at, meta)
       /\ type = 19 => parsed = Time2(buf, at, meta)
    BY <1>7
<1> QED
    BY <1>9, <1>10, <1>11, <1>12, <1>13, <1>14, <1>15, <1>16, <1>17, <1>18, <1>19, <1>20
       DEF parsed, bit, low, high

\* A value with its length in front of it is passed over as a whole.
LEMMA PrefixRead ==
    ASSUME NEW v, IsSeq(v), NEW size \in 1..4,
           size = 1 => Len(v) < 256, size = 2 => Len(v) < 65536,
           size = 3 => Len(v) < 16777216, size = 4 => Len(v) < 4294967296,
           NEW buf, NEW at, Reads(buf, at, LowBytes(Len(v), size) \o v)
    PROVE  Prefixed(buf, at, size).size = size + Len(v)
<1> DEFINE n == Len(v)
           front == LowBytes(n, size)
<1>1. n \in Nat
    BY SeqFacts
<1>2. IsSeq(front) /\ Len(front) = size
    BY LowBytesIsSeq
<1>3. Reads(front \o v, 0, front)
    BY <1>2, ReadsConcat
<1>4. Reads(buf, at + 0, front) /\ at \in Nat
    BY <1>3, ReadsPart, ReadsFacts
<1>5. Slice(buf, at, size) = front
    BY <1>2, <1>4, ReadsSlice, at + 0 = at
<1>6. Low(front) = n
    BY <1>1, LowOfLowBytes
<1>7. Prefixed(buf, at, size).size = size + Low(Slice(buf, at, size))
    BY DEF Prefixed, Value
<1> QED
    BY <1>5, <1>6, <1>7

\* The parser finds out from a CHAR's metadata how many bytes its length has.
LEMMA StringPrefix ==
    ASSUME NEW meta \in Nat, meta \div 256 \in {254, 238, 222, 206}
    PROVE  PrefixSize(StringLength(meta)) = IF meta \div 256 = 254 THEN 1 ELSE 2
<1>1. StringLength(meta) = IF meta < 256 THEN meta ELSE (meta % 256) + 256 * (3 - ((meta \div 4096) % 4))
    BY DEF StringLength
<1>2. ~(meta < 256)
    OBVIOUS
<1>3. CASE meta \div 256 = 254
    <2>1. (meta \div 4096) % 4 = 3 /\ meta % 256 \in Nat /\ meta % 256 < 256
        BY <1>3
    <2> QED
        BY <1>1, <1>2, <1>3, <2>1 DEF PrefixSize
<1>4. CASE meta \div 256 = 238
    <2>1. (meta \div 4096) % 4 = 2 /\ meta % 256 \in Nat
        BY <1>4
    <2> QED
        BY <1>1, <1>2, <1>4, <2>1 DEF PrefixSize
<1>5. CASE meta \div 256 = 222
    <2>1. (meta \div 4096) % 4 = 1 /\ meta % 256 \in Nat
        BY <1>5
    <2> QED
        BY <1>1, <1>2, <1>5, <2>1 DEF PrefixSize
<1>6. CASE meta \div 256 = 206
    <2>1. (meta \div 4096) % 4 = 0 /\ meta % 256 \in Nat
        BY <1>6
    <2> QED
        BY <1>1, <1>2, <1>6, <2>1 DEF PrefixSize
<1> QED
    BY <1>3, <1>4, <1>5, <1>6

\* What the server writes for some of the types.
YearBytes(v) == <<IF v[1] = 0 THEN 0 ELSE v[1] - 1900>>
DateBytes(v) == LowBytes((v[1] * 16 + v[2]) * 32 + v[3], 3)
Timestamp2Bytes(v, meta) == HighBytes(v[1], 4) \o HighBytes(v[2] \div FracUnit(meta), FracSize(meta))

\* What the server writes, by the real type of a column.
LEMMA EncodedIs ==
    ASSUME NEW column, NEW v, NEW type, type = RealType(column.type, column.meta)
    PROVE  /\ type \in {1, 2, 3, 8, 9} => Encoded(column, v) = LowBytes(v[1], IntegerSize(type))
           /\ type = 13 => Encoded(column, v) = YearBytes(v)
           /\ type = 247 => Encoded(column, v) = LowBytes(v[1], column.meta % 256)
           /\ type \in {10, 14} => Encoded(column, v) = DateBytes(v)
           /\ type = 11 => Encoded(column, v) = OldTimeBytes(v)
           /\ type = 12 => Encoded(column, v) = OldDatetimeBytes(v)
           /\ type = 7 => Encoded(column, v) = LowBytes(v[1], 4)
           /\ type = 17 => Encoded(column, v) = Timestamp2Bytes(v, column.meta)
           /\ type = 18 => Encoded(column, v) = DatetimeBytes(v, column.meta)
           /\ type = 19 => Encoded(column, v) = TimeBytes(v, column.meta)
           /\ type = 246 => Encoded(column, v) = DecimalBytes(column.meta \div 256, column.meta % 256, v)
           /\ type \in {4, 5, 15, 16, 248, 252, 254, 255} =>
                  Encoded(column, v) = LowBytes(Len(v), LengthSize(column)) \o v
<1> DEFINE encoded == Encoded(column, v)
           Integer == LowBytes(v[1], IntegerSize(type))
           Year0 == YearBytes(v)
           Enum0 == LowBytes(v[1], column.meta % 256)
           Date0 == DateBytes(v)
           Time0 == OldTimeBytes(v)
           Datetime0 == OldDatetimeBytes(v)
           Timestamp == LowBytes(v[1], 4)
           Timestamp20 == Timestamp2Bytes(v, column.meta)
           Decimal0 == DecimalBytes(column.meta \div 256, column.meta % 256, v)
           Other == LowBytes(Len(v), LengthSize(column)) \o v
<1>1. IntegerTypes = {1, 2, 9, 3, 8}
    BY TypeCodes DEF IntegerTypes
<1>2. encoded = CASE type \in {1, 2, 9, 3, 8} -> Integer
                  [] type = 13 -> Year0
                  [] type = 247 -> Enum0
                  [] type \in {10, 14} -> Date0
                  [] type = 11 -> Time0
                  [] type = 12 -> Datetime0
                  [] type = 7 -> Timestamp
                  [] type = 17 -> Timestamp20
                  [] type = 18 -> DatetimeBytes(v, column.meta)
                  [] type = 19 -> TimeBytes(v, column.meta)
                  [] type = 246 -> Decimal0
                  [] OTHER -> Other
    BY <1>1, TypeCodes DEF Encoded, YearBytes, DateBytes, Timestamp2Bytes
<1> HIDE DEF encoded, Integer, Year0, Enum0, Date0, Time0, Datetime0, Timestamp, Timestamp20, Decimal0, Other
<1>3. /\ type \in {1, 2, 3, 8, 9} => encoded = Integer
      /\ type = 13 => encoded = Year0
      /\ type = 247 => encoded = Enum0
      /\ type \in {10, 14} => encoded = Date0
      /\ type = 11 => encoded = Time0
      /\ type = 12 => encoded = Datetime0
      /\ type = 7 => encoded = Timestamp
    BY <1>2
<1>4. /\ type = 17 => encoded = Timestamp20
      /\ type = 18 => encoded = DatetimeBytes(v, column.meta)
      /\ type = 19 => encoded = TimeBytes(v, column.meta)
      /\ type = 246 => encoded = Decimal0
    BY <1>2
<1>5. type \in {4, 5, 15, 16, 248, 252, 254, 255} => encoded = Other
    BY <1>2
<1> QED
    BY <1>3, <1>4, <1>5
       DEF encoded, Integer, Year0, Enum0, Date0, Time0, Datetime0, Timestamp, Timestamp20, Decimal0, Other

\* What a declared column is.
LEMMA DeclaredIs ==
    ASSUME NEW column, Declared(column), NEW type, type = RealType(column.type, column.meta),
           NEW high, high = column.meta \div 256, NEW low, low = column.meta % 256
    PROVE  /\ type \in {1, 2, 3, 4, 5, 7, 8, 9, 10, 11, 12, 13, 14, 15, 16, 17, 18, 19, 246, 247, 248, 252, 254, 255}
           /\ type \notin {247, 248} => type = column.type
           /\ type \in {247, 248} => column.type = 254 /\ high = type
           /\ column.meta \in Nat /\ column.meta < 65536 /\ high \in Nat /\ low \in Nat
           /\ type \in {252, 255} => column.meta \in 1..4
           /\ type \in {17, 18, 19} => column.meta \in 0..6
           /\ type = 246 => high \in Nat \ {0} /\ low \in Nat /\ low <= high
           /\ type = 247 => low \in 1..2
           /\ type = 254 => high \in {254, 238, 222, 206}
<1> DEFINE meta == column.meta
           code == column.type
<1>1. /\ code \in ServerTypes /\ meta \in Nat /\ meta < 65536
      /\ code \in {252, 255} => meta \in 1..4
      /\ code \in {19, 18, 17} => meta \in 0..6
      /\ code = 246 => high \in 1..65 /\ low \in 0..30 /\ low <= high
      /\ code = 254 => \/ high = 247 /\ low \in 1..2
                       \/ high = 248
                       \/ high \in {254, 238, 222, 206}
    BY TypeCodes DEF Declared
<1>2. code \in {1, 2, 3, 4, 5, 7, 8, 9, 10, 11, 12, 13, 14, 15, 16, 17, 18, 19, 246, 252, 254, 255}
    BY <1>1, TypeCodes DEF ServerTypes, PlainTypes
<1>3. type = IF code = 254 /\ high \in {248, 247} THEN high ELSE code
    BY TypeCodes DEF RealType
<1>4. high \in Nat /\ low \in Nat
    <2>1. meta \in Nat
        BY <1>1
    <2> HIDE DEF meta
    <2>2. meta \div 256 \in Nat /\ meta % 256 \in Nat
        BY <2>1, DivMod256
    <2> QED
        BY <2>2 DEF meta
<1> HIDE DEF meta, code
<1>5. CASE code = 254
    <2>1. type \in {247, 248, 254} /\ (type \in {247, 248} => high = type)
        BY <1>1, <1>3, <1>5
    <2> QED
        BY <1>1, <1>3, <1>4, <1>5, <2>1 DEF meta, code
<1>6. CASE code # 254
    <2>1. type = code /\ type \notin {247, 248}
        BY <1>2, <1>3, <1>6
    <2> QED
        BY <1>1, <1>2, <1>4, <1>6, <2>1 DEF meta, code
<1> QED
    BY <1>5, <1>6

\* The length that the server puts in front of a value has the size the parser takes.
LEMMA LengthSizeIs ==
    ASSUME NEW column, Declared(column), NEW type, type = RealType(column.type, column.meta)
    PROVE  /\ type \in {252, 255} => LengthSize(column) = column.meta
           /\ type = 15 => LengthSize(column) = PrefixSize(column.meta)
           /\ type = 254 => LengthSize(column) = PrefixSize(StringLength(column.meta))
           /\ type \in {15, 252, 254, 255} => LengthSize(column) \in 1..4
           /\ type \in {4, 5, 16, 248} => LengthSize(column) = 0
<1> DEFINE meta == column.meta
           code == column.type
           high == meta \div 256
           size == LengthSize(column)
<1>1. size = CASE code \in {252, 255} -> meta
               [] code \in {15, 253} -> IF meta > 255 THEN 2 ELSE 1
               [] code = 254 /\ high = 254 -> 1
               [] code = 254 /\ high \in {238, 222, 206} -> 2
               [] OTHER -> 0
    BY TypeCodes DEF LengthSize
<1>2. /\ type \notin {247, 248} => type = code
      /\ type = 248 => code = 254 /\ high = 248
      /\ meta \in Nat /\ meta < 65536
      /\ type \in {252, 255} => meta \in 1..4
      /\ type = 254 => high \in {254, 238, 222, 206}
    BY DeclaredIs
<1>3. high \in {254, 238, 222, 206} => PrefixSize(StringLength(meta)) = IF high = 254 THEN 1 ELSE 2
    BY <1>2, StringPrefix
<1>4. PrefixSize(meta) = IF meta < 256 THEN 1 ELSE 2
    BY DEF PrefixSize
<1> HIDE DEF size, code, high, meta
<1>5. type \in {252, 255} => size = meta
    BY <1>1, <1>2
<1>6. type = 15 => size = PrefixSize(meta) /\ size \in 1..4
    BY <1>1, <1>2, <1>4
<1>7. type = 254 => size = PrefixSize(StringLength(meta)) /\ size \in 1..4
    BY <1>1, <1>2, <1>3
<1>8. type \in {4, 5, 16, 248} => size = 0
    BY <1>1, <1>2
<1> QED
    BY <1>2, <1>5, <1>6, <1>7, <1>8 DEF size, code, high, meta

\* An old DATETIME has eight bytes: two, two and four.
LEMMA OldDatetimeIsSeq ==
    ASSUME NEW v
    PROVE  IsSeq(OldDatetimeBytes(v)) /\ Len(OldDatetimeBytes(v)) = 8
<1> DEFINE date == (v[1] * 100 + v[2]) * 100 + v[3]
           time == (v[4] * 100 + v[5]) * 100 + v[6]
           low == (date % 65536) * 16960 + time
           middle == low \div 65536 + (date % 65536) * 15 + (date \div 65536) * 16960
           high == middle \div 65536 + (date \div 65536) * 15
           front == LowBytes(low, 2) \o LowBytes(middle, 2)
<1>1. OldDatetimeBytes(v) = front \o LowBytes(high, 4)
    BY DEF OldDatetimeBytes
<1> HIDE DEF low, middle, high
<1>2. \A n : IsSeq(LowBytes(n, 2)) /\ Len(LowBytes(n, 2)) = 2 /\ IsSeq(LowBytes(n, 4)) /\ Len(LowBytes(n, 4)) = 4
    BY LowBytesIsSeq
<1>3. IsSeq(front) /\ Len(front) = 4
    <2> DEFINE a == LowBytes(low, 2)
               b == LowBytes(middle, 2)
    <2>1. IsSeq(a) /\ Len(a) = 2 /\ IsSeq(b) /\ Len(b) = 2
        BY <1>2
    <2>2. front = a \o b
        OBVIOUS
    <2> HIDE DEF a, b, front
    <2>3. IsSeq(a \o b) /\ Len(a \o b) = Len(a) + Len(b)
        BY <2>1, ConcatIsSeq
    <2>4. Len(a) + Len(b) = 4
        BY <2>1
    <2> QED
        BY <2>2, <2>3, <2>4
<1> HIDE DEF front
<1>4. IsSeq(front \o LowBytes(high, 4)) /\ Len(front \o LowBytes(high, 4)) = Len(front) + Len(LowBytes(high, 4))
    BY <1>2, <1>3, ConcatIsSeq, ZenonT(30)
<1> QED
    BY <1>1, <1>2, <1>3, <1>4

\* The sizes of what the server writes.
LEMMA EncodedSize ==
    ASSUME NEW column, Declared(column), NEW v, Storable(column, v),
           NEW type, type = RealType(column.type, column.meta)
    PROVE  /\ IsSeq(Encoded(column, v))
           /\ type \in {1, 2, 3, 8, 9} => Len(Encoded(column, v)) = IntegerSize(type)
           /\ type = 13 => Len(Encoded(column, v)) = 1
           /\ type = 247 => Len(Encoded(column, v)) = column.meta % 256
           /\ type \in {10, 11, 14} => Len(Encoded(column, v)) = 3
           /\ type = 12 => Len(Encoded(column, v)) = 8
           /\ type = 7 => Len(Encoded(column, v)) = 4
           /\ type = 17 => Len(Encoded(column, v)) = 4 + FracSize(column.meta)
           /\ type = 18 => Len(Encoded(column, v)) = 5 + FracSize(column.meta)
           /\ type = 19 => Len(Encoded(column, v)) = 3 + FracSize(column.meta)
           /\ type = 246 => Len(Encoded(column, v)) = DecimalBinSize(column.meta \div 256, column.meta % 256)
           /\ type \in {4, 5, 15, 16, 248, 252, 254, 255} =>
                  /\ Encoded(column, v) = LowBytes(Len(v), LengthSize(column)) \o v
                  /\ Len(Encoded(column, v)) = LengthSize(column) + Len(v)
<1> DEFINE encoded == Encoded(column, v)
           high == column.meta \div 256
           low == column.meta % 256
<1>1. /\ type \in {1, 2, 3, 4, 5, 7, 8, 9, 10, 11, 12, 13, 14, 15, 16, 17, 18, 19, 246, 247, 248, 252, 254, 255}
      /\ type = 246 => high \in Nat \ {0} /\ low \in Nat /\ low <= high
      /\ type = 247 => low \in 1..2
      /\ type \in {17, 18, 19} => column.meta \in 0..6
    BY DeclaredIs
<1>2. /\ type \in {1, 2, 3, 8, 9} => encoded = LowBytes(v[1], IntegerSize(type))
      /\ type = 13 => encoded = YearBytes(v)
      /\ type = 247 => encoded = LowBytes(v[1], low)
      /\ type \in {10, 14} => encoded = DateBytes(v)
      /\ type = 11 => encoded = OldTimeBytes(v)
      /\ type = 12 => encoded = OldDatetimeBytes(v)
      /\ type = 7 => encoded = LowBytes(v[1], 4)
      /\ type = 17 => encoded = Timestamp2Bytes(v, column.meta)
      /\ type = 18 => encoded = DatetimeBytes(v, column.meta)
      /\ type = 19 => encoded = TimeBytes(v, column.meta)
      /\ type = 246 => encoded = DecimalBytes(high, low, v)
      /\ type \in {4, 5, 15, 16, 248, 252, 254, 255} => encoded = LowBytes(Len(v), LengthSize(column)) \o v
    BY EncodedIs, SMTT(30)
<1>3. IsSeq(v) /\ (type = 246 => Len(v) = 1 + high)
    BY TypeCodes DEF Storable
<1>4. type \in {17, 18, 19} => FracSize(column.meta) \in Nat
    BY <1>1 DEF FracSize
<1>5. ASSUME NEW a, NEW b, NEW m \in Nat, NEW n \in Nat
      PROVE  /\ IsSeq(HighBytes(a, m) \o HighBytes(b, n))
             /\ Len(HighBytes(a, m) \o HighBytes(b, n)) = m + n
    <2>1. IsSeq(HighBytes(a, m)) /\ Len(HighBytes(a, m)) = m /\ IsSeq(HighBytes(b, n)) /\ Len(HighBytes(b, n)) = n
        BY HighBytesIsSeq
    <2>2. /\ IsSeq(HighBytes(a, m) \o HighBytes(b, n))
          /\ Len(HighBytes(a, m) \o HighBytes(b, n)) = Len(HighBytes(a, m)) + Len(HighBytes(b, n))
        BY <2>1, ConcatIsSeq
    <2> QED
        BY <2>1, <2>2
<1> HIDE DEF encoded, high, low
<1>6. type \in {1, 2, 3, 8, 9} => IsSeq(encoded) /\ Len(encoded) = IntegerSize(type)
    <2> SUFFICES ASSUME type \in {1, 2, 3, 8, 9} PROVE IsSeq(encoded) /\ Len(encoded) = IntegerSize(type)
        OBVIOUS
    <2>1. IntegerSize(type) \in Nat
        BY TypeCodes DEF IntegerSize
    <2>2. IsSeq(encoded) /\ Len(encoded) = IntegerSize(type)
        BY <1>2, <2>1, LowBytesIsSeq
    <2> QED
        BY <2>2
<1>7. type = 13 => IsSeq(encoded) /\ Len(encoded) = 1
    <2> SUFFICES ASSUME type = 13 PROVE IsSeq(encoded) /\ Len(encoded) = 1
        OBVIOUS
    <2> DEFINE byte == IF v[1] = 0 THEN 0 ELSE v[1] - 1900
    <2>1. YearBytes(v) = <<byte>>
        BY DEF YearBytes
    <2> HIDE DEF byte
    <2>2. IsSeq(<<byte>>) /\ Len(<<byte>>) = 1
        BY SingleIsSeq
    <2>3. encoded = YearBytes(v)
        BY <1>2
    <2> QED
        BY <2>1, <2>2, <2>3
<1>8. type = 247 => IsSeq(encoded) /\ Len(encoded) = low
    <2> SUFFICES ASSUME type = 247 PROVE IsSeq(encoded) /\ Len(encoded) = low
        OBVIOUS
    <2>1. low \in Nat
        BY <1>1
    <2>2. IsSeq(encoded) /\ Len(encoded) = low
        BY <1>2, <2>1, LowBytesIsSeq
    <2> QED
        BY <2>2
<1>9. type \in {10, 11, 14} => IsSeq(encoded) /\ Len(encoded) = 3
    <2> SUFFICES ASSUME type \in {10, 11, 14} PROVE IsSeq(encoded) /\ Len(encoded) = 3
        OBVIOUS
    <2>1. \A n : IsSeq(LowBytes(n, 3)) /\ Len(LowBytes(n, 3)) = 3
        BY LowBytesIsSeq
    <2>2. IsSeq(DateBytes(v)) /\ Len(DateBytes(v)) = 3
        BY <2>1 DEF DateBytes
    <2>3. IsSeq(OldTimeBytes(v)) /\ Len(OldTimeBytes(v)) = 3
        BY <2>1 DEF OldTimeBytes
    <2>4. encoded = DateBytes(v) \/ encoded = OldTimeBytes(v)
        BY <1>2
    <2> QED
        BY <2>2, <2>3, <2>4
<1>10. type = 7 => IsSeq(encoded) /\ Len(encoded) = 4
    <2> SUFFICES ASSUME type = 7 PROVE IsSeq(encoded) /\ Len(encoded) = 4
        OBVIOUS
    <2>1. IsSeq(LowBytes(v[1], 4)) /\ Len(LowBytes(v[1], 4)) = 4
        BY LowBytesIsSeq
    <2> QED
        BY <1>2, <2>1
<1>11. type = 17 => IsSeq(encoded) /\ Len(encoded) = 4 + FracSize(column.meta)
    <2> SUFFICES ASSUME type = 17 PROVE IsSeq(encoded) /\ Len(encoded) = 4 + FracSize(column.meta)
        OBVIOUS
    <2> DEFINE a == v[1]
               b == v[2] \div FracUnit(column.meta)
               size == FracSize(column.meta)
    <2>1. size \in Nat
        BY <1>4
    <2>2. Timestamp2Bytes(v, column.meta) = HighBytes(a, 4) \o HighBytes(b, size)
        BY DEF Timestamp2Bytes
    <2>3. encoded = Timestamp2Bytes(v, column.meta)
        BY <1>2
    <2>4. encoded = HighBytes(a, 4) \o HighBytes(b, size)
        BY <2>2, <2>3
    <2> HIDE DEF a, b, size
    <2>5. IsSeq(HighBytes(a, 4) \o HighBytes(b, size)) /\ Len(HighBytes(a, 4) \o HighBytes(b, size)) = 4 + size
        BY <1>5, <2>1
    <2> QED
        BY <2>4, <2>5 DEF size
<1>12. type = 18 => IsSeq(encoded) /\ Len(encoded) = 5 + FracSize(column.meta)
    <2> SUFFICES ASSUME type = 18 PROVE IsSeq(encoded) /\ Len(encoded) = 5 + FracSize(column.meta)
        OBVIOUS
    <2> DEFINE size == FracSize(column.meta)
    <2>1. size \in Nat
        BY <1>4
    <2> DEFINE ymd == (v[1] * 13 + v[2]) * 32 + v[3]
               hms == v[4] * 4096 + v[5] * 64 + v[6]
               a == TimefIntOfs + 2 * ymd + hms \div 65536
               b == hms % 65536
               c == v[7] \div FracUnit(column.meta)
    <2>2. DatetimeBytes(v, column.meta) = HighBytes(a, 3) \o HighBytes(b, 2) \o HighBytes(c, size)
        BY DEF DatetimeBytes
    <2>3. encoded = DatetimeBytes(v, column.meta)
        BY <1>2
    <2> HIDE DEF size, a, b, c, ymd, hms
    <2>4. encoded = HighBytes(a, 3) \o HighBytes(b, 2) \o HighBytes(c, size)
        BY <2>2, <2>3
    <2> DEFINE x == HighBytes(a, 3) \o HighBytes(b, 2)
               y == HighBytes(c, size)
    <2>5. IsSeq(x) /\ Len(x) = 5
        BY <1>5
    <2>6. IsSeq(y) /\ Len(y) = size
        BY <2>1, HighBytesIsSeq
    <2> HIDE DEF x, y
    <2>7. IsSeq(x \o y) /\ Len(x \o y) = Len(x) + Len(y)
        BY <2>5, <2>6, ConcatIsSeq
    <2>8. IsSeq(encoded) /\ Len(encoded) = 5 + size
        BY <2>4, <2>5, <2>6, <2>7 DEF x, y
    <2> QED
        BY <2>8 DEF size
<1>13. type = 19 => IsSeq(encoded) /\ Len(encoded) = 3 + FracSize(column.meta)
    <2> SUFFICES ASSUME type = 19 PROVE IsSeq(encoded) /\ Len(encoded) = 3 + FracSize(column.meta)
        OBVIOUS
    <2> DEFINE hms == v[2] * 4096 + v[3] * 64 + v[4]
               frac == v[5] \div FracUnit(column.meta)
               borrow == IF v[1] = 1 /\ frac # 0 THEN 1 ELSE 0
               size == FracSize(column.meta)
               a == TimefIntOfs + (IF v[1] = 1 THEN -hms - borrow ELSE hms)
               b == IF borrow = 1 THEN Powers256[size + 1] - frac ELSE frac
    <2>1. size \in Nat
        BY <1>4
    <2>2. TimeBytes(v, column.meta) = HighBytes(a, 3) \o HighBytes(b, size)
        BY DEF TimeBytes
    <2>3. encoded = TimeBytes(v, column.meta)
        BY <1>2
    <2>4. encoded = HighBytes(a, 3) \o HighBytes(b, size)
        BY <2>2, <2>3
    <2> HIDE DEF a, b, size, hms, frac, borrow
    <2>5. IsSeq(HighBytes(a, 3) \o HighBytes(b, size)) /\ Len(HighBytes(a, 3) \o HighBytes(b, size)) = 3 + size
        BY <1>5, <2>1
    <2> QED
        BY <2>4, <2>5 DEF size
<1>14. type = 246 => IsSeq(encoded) /\ Len(encoded) = DecimalBinSize(high, low)
    <2> SUFFICES ASSUME type = 246 PROVE IsSeq(encoded) /\ Len(encoded) = DecimalBinSize(high, low)
        OBVIOUS
    <2>1. high \in Nat \ {0} /\ low \in Nat /\ low <= high /\ Len(v) = 1 + high
        BY <1>1, <1>3
    <2>2. IsSeq(DecimalBytes(high, low, v)) /\ Len(DecimalBytes(high, low, v)) = DecimalBinSize(high, low)
        BY <1>3, <2>1, DecimalBytesSize
    <2> QED
        BY <1>2, <2>2
<1>15. type \in {4, 5, 15, 16, 248, 252, 254, 255} =>
           IsSeq(encoded) /\ Len(encoded) = LengthSize(column) + Len(v)
    <2> SUFFICES ASSUME type \in {4, 5, 15, 16, 248, 252, 254, 255}
                 PROVE  IsSeq(encoded) /\ Len(encoded) = LengthSize(column) + Len(v)
        OBVIOUS
    <2> DEFINE size == LengthSize(column)
    <2>1. size \in Nat
        <3>1. type \in {15, 252, 254, 255} => size \in 1..4
            BY LengthSizeIs
        <3>2. type \in {4, 5, 16, 248} => size = 0
            BY LengthSizeIs
        <3> QED
            BY <3>1, <3>2
    <2> HIDE DEF size
    <2>2. IsSeq(LowBytes(Len(v), size)) /\ Len(LowBytes(Len(v), size)) = size
        BY <2>1, LowBytesIsSeq
    <2>3. IsSeq(LowBytes(Len(v), size) \o v) /\ Len(LowBytes(Len(v), size) \o v) = Len(LowBytes(Len(v), size)) + Len(v)
        BY <1>3, <2>2, ConcatIsSeq
    <2>4. encoded = LowBytes(Len(v), size) \o v
        BY <1>2 DEF size
    <2> QED
        BY <2>2, <2>3, <2>4 DEF size
<1>16. type = 12 => IsSeq(encoded) /\ Len(encoded) = 8
    BY <1>2, OldDatetimeIsSeq
<1> QED
    <2>1. IsSeq(encoded)
        BY <1>1, <1>6, <1>7, <1>8, <1>9, <1>10, <1>11, <1>12, <1>13, <1>14, <1>15, <1>16
    <2> QED
        BY <2>1, <1>2, <1>6, <1>7, <1>8, <1>9, <1>10, <1>11, <1>12, <1>13, <1>14, <1>15, <1>16
           DEF encoded, high, low

\* From the place where a value was written the parser moves on to its end, but for the types
\* that Readable leaves out.
LEMMA ColumnPassed ==
    ASSUME NEW column, Declared(column), NEW v, Storable(column, v),
           Readable(column) \/ column.type = T.NEWDECIMAL,
           NEW buf, NEW at, Reads(buf, at, Encoded(column, v))
    PROVE  ParseColumnValue(buf, at, column.type, column.meta).size = Len(Encoded(column, v))
<1> DEFINE type == RealType(column.type, column.meta)
           meta == column.meta
           high == meta \div 256
           low == meta % 256
           parsed == ParseColumnValue(buf, at, column.type, meta)
           encoded == Encoded(column, v)
<1>1. /\ type \in {1, 2, 3, 4, 5, 7, 8, 9, 10, 11, 12, 13, 14, 15, 16, 17, 18, 19, 246, 247, 248, 252, 254, 255}
      /\ type \notin {247, 248} => type = column.type
      /\ type \in {17, 18, 19} => meta \in 0..6
    BY DeclaredIs
<1>2. column.type # 255 /\ (column.type \in {17, 19} => meta \notin {1, 2})
    BY TypeCodes DEF Readable, Unknown, Aborting
<1>3. type # 255 /\ (type \in {17, 19} => meta \in {0, 3, 4, 5, 6})
    BY <1>1, <1>2
<1>4. /\ type = 4 => Len(v) = 4
      /\ type = 5 => Len(v) = 8
      /\ type = 248 => Len(v) = low
      /\ type = 16 => Len(v) = (high + 8 * low + 7) \div 8
      /\ IsSeq(v)
    BY TypeCodes DEF Storable
<1>5. type \in {252, 15, 254} => Len(v) < <<256, 65536, 16777216, 1073741824>>[LengthSize(column)]
    BY TypeCodes DEF Storable, Fits
<1>6. /\ type = 252 => LengthSize(column) = meta
      /\ type = 15 => LengthSize(column) = PrefixSize(meta)
      /\ type = 254 => LengthSize(column) = PrefixSize(StringLength(meta))
      /\ type \in {15, 252, 254} => LengthSize(column) \in 1..4
      /\ type \in {4, 5, 16, 248} => LengthSize(column) = 0
    BY LengthSizeIs
<1>7. /\ type \in {1, 2, 3, 8, 9} => Len(encoded) = IntegerSize(type)
      /\ type = 13 => Len(encoded) = 1
      /\ type = 247 => Len(encoded) = low
      /\ type \in {10, 11, 14} => Len(encoded) = 3
      /\ type = 12 => Len(encoded) = 8
      /\ type = 7 => Len(encoded) = 4
      /\ type = 17 => Len(encoded) = 4 + FracSize(meta)
      /\ type = 18 => Len(encoded) = 5 + FracSize(meta)
      /\ type = 19 => Len(encoded) = 3 + FracSize(meta)
      /\ type = 246 => Len(encoded) = DecimalBinSize(high, low)
      /\ type \in {4, 5, 15, 16, 248, 252, 254} =>
             /\ encoded = LowBytes(Len(v), LengthSize(column)) \o v
             /\ Len(encoded) = LengthSize(column) + Len(v)
    BY EncodedSize
<1>8. /\ type \in {1, 2, 3, 8, 9} => parsed.size = IntegerSize(type)
      /\ type \in {4, 7} => parsed.size = 4
      /\ type \in {5, 12} => parsed.size = 8
      /\ type \in {10, 11, 14} => parsed.size = 3
      /\ type = 13 => parsed.size = 1
      /\ type \in {247, 248} => parsed.size = low
      /\ type = 252 => parsed = Prefixed(buf, at, meta)
      /\ type = 15 => parsed = Prefixed(buf, at, PrefixSize(meta))
      /\ type = 254 => parsed = Prefixed(buf, at, PrefixSize(StringLength(meta)))
      /\ type = 16 => parsed.size = (high + 8 * low + 7) \div 8
      /\ type = 246 => parsed.size = DecimalBinSize(high, low)
      /\ type = 17 => parsed = Timestamp2(buf, at, meta)
      /\ type = 18 => parsed = Datetime2(buf, at, meta)
      /\ type = 19 => parsed = Time2(buf, at, meta)
    BY ParsedSize
<1>9. \A size, text : Value(size, text).size = size
    BY DEF Value
<1>10. Len(v) \in Nat
    BY <1>4, SeqFacts
<1>11. Reads(buf, at, encoded)
    OBVIOUS
<1> HIDE DEF type, meta, high, low, parsed, encoded
<1>12. CASE type \in {1, 2, 3, 7, 8, 9, 10, 11, 12, 13, 14, 246, 247}
    <2>1. type \in {1, 2, 3, 8, 9} => parsed.size = Len(encoded)
        BY <1>7, <1>8
    <2>2. type = 7 => parsed.size = Len(encoded)
        BY <1>7, <1>8
    <2>3. type \in {10, 11, 14} => parsed.size = Len(encoded)
        BY <1>7, <1>8
    <2>4. type = 13 => parsed.size = Len(encoded)
        BY <1>7, <1>8
    <2>5. type = 246 => parsed.size = Len(encoded)
        BY <1>7, <1>8
    <2>6. type = 247 => parsed.size = Len(encoded)
        BY <1>7, <1>8
    <2>7. type = 12 => parsed.size = Len(encoded)
        BY <1>7, <1>8
    <2>8. parsed.size = Len(encoded)
        BY <1>12, <2>1, <2>2, <2>3, <2>4, <2>5, <2>6, <2>7
    <2> QED
        BY <2>8 DEF parsed, encoded, meta
<1>13. CASE type \in {4, 5, 16, 248}
    <2>1. Len(encoded) = Len(v)
        BY <1>6, <1>7, <1>10, <1>13
    <2>2. parsed.size = Len(v)
        BY <1>4, <1>8, <1>13
    <2> QED
        BY <2>1, <2>2 DEF parsed, encoded, meta
<1>14. CASE type \in {15, 252, 254}
    <2> DEFINE size == LengthSize(column)
    <2>1. size \in 1..4 /\ Len(v) < <<256, 65536, 16777216, 1073741824>>[size]
        BY <1>5, <1>6, <1>14
    <2>2. encoded = LowBytes(Len(v), size) \o v /\ Len(encoded) = size + Len(v)
        BY <1>7, <1>14
    <2>3. parsed = Prefixed(buf, at, size)
        BY <1>6, <1>8, <1>14
    <2> HIDE DEF size
    <2>4. /\ size = 1 => Len(v) < 256
          /\ size = 2 => Len(v) < 65536
          /\ size = 3 => Len(v) < 16777216
          /\ size = 4 => Len(v) < 4294967296
        BY <1>10, <2>1, SMT
    <2>5. Reads(buf, at, LowBytes(Len(v), size) \o v)
        BY <1>11, <2>2
    <2>6. Prefixed(buf, at, size).size = size + Len(v)
        BY <1>4, <2>1, <2>4, <2>5, PrefixRead, SMT
    <2> QED
        BY <2>2, <2>3, <2>6 DEF parsed, encoded, meta
<1>15. CASE type = 17
    <2>1. Timestamp2(buf, at, meta).size = CASE meta \in {1, 2} -> 8 [] meta \in {3, 4} -> 6 [] meta \in {5, 6} -> 7 [] OTHER -> 4
        BY <1>9 DEF Timestamp2
    <2>2. meta \in {0, 3, 4, 5, 6}
        BY <1>3, <1>15
    <2>3. FracSize(meta) = IF meta = 0 THEN 0 ELSE IF meta \in {3, 4} THEN 2 ELSE 3
        BY <2>2 DEF FracSize
    <2>4. parsed.size = Len(encoded)
        <3>1. Len(encoded) = 4 + FracSize(meta)
            BY <1>7, <1>15
        <3>2. parsed = Timestamp2(buf, at, meta)
            BY <1>8, <1>15
        <3>3. Timestamp2(buf, at, meta).size = 4 + FracSize(meta)
            BY <2>1, <2>2, <2>3
        <3> QED
            BY <3>1, <3>2, <3>3
    <2> QED
        BY <2>4 DEF parsed, encoded, meta
<1>16. CASE type = 18
    <2>1. Datetime2(buf, at, meta).size = 5 + FracSize(meta)
        BY <1>9 DEF Datetime2
    <2> QED
        BY <1>7, <1>8, <1>16, <2>1 DEF parsed, encoded, meta
<1>17. CASE type = 19
    <2>1. Time2(buf, at, meta).size = CASE meta \in {3, 4} -> 5 [] meta \in {5, 6} -> 6 [] OTHER -> 3
        BY <1>9 DEF Time2
    <2>2. meta \in {0, 3, 4, 5, 6}
        BY <1>3, <1>17
    <2>3. FracSize(meta) = IF meta = 0 THEN 0 ELSE IF meta \in {3, 4} THEN 2 ELSE 3
        BY <2>2 DEF FracSize
    <2>4. parsed.size = Len(encoded)
        <3>1. Len(encoded) = 3 + FracSize(meta)
            BY <1>7, <1>17
        <3>2. parsed = Time2(buf, at, meta)
            BY <1>8, <1>17
        <3>3. Time2(buf, at, meta).size = 3 + FracSize(meta)
            BY <2>1, <2>2, <2>3
        <3> QED
            BY <3>1, <3>2, <3>3
    <2> QED
        BY <2>4 DEF parsed, encoded, meta
<1> QED
    BY <1>1, <1>3, <1>12, <1>13, <1>14, <1>15, <1>16, <1>17

-----------------------------------------------------------------------------
(* The Rows event.                                                         *)

\* Its images, and the fields of one.
ImageParts == [q \in Nat |-> ImageBytes(q)]
FieldParts(k) == [j \in Nat |-> Field(k, j)]

\* The parts of the event and of an image that the places are defined by.
LEMMA PartPrefixes ==
    ASSUME NEW n
    PROVE  /\ [q \in 1..n |-> ImageBytes(q)] = Prefix(ImageParts, n)
           /\ \A k : [j \in 1..n |-> Field(k, j)] = Prefix(FieldParts(k), n)
<1>1. \A q \in 1..n : ImageParts[q] = ImageBytes(q) /\ \A k : FieldParts(k)[q] = Field(k, q)
    BY DEF ImageParts, FieldParts
<1> QED
    BY <1>1 DEF Prefix

\* What an image contains of a column: its value, or nothing if it is NULL or left out.
LEMMA FieldIs ==
    ASSUME EventInv, NEW k \in 1..Len(images), NEW i \in 1..Len(columns)
    PROVE  /\ IsSeq(Field(k, i))
           /\ i \in PresentIn(k) /\ ~IsNull(k, i) =>
                  /\ Declared(columns[i]) /\ Storable(columns[i], images[k][i])
                  /\ Field(k, i) = Encoded(columns[i], images[k][i])
           /\ i \notin PresentIn(k) \/ IsNull(k, i) => Field(k, i) = << >>
<1>1. DOMAIN columns = 1..Len(columns) /\ DOMAIN images = 1..Len(images)
    BY SeqFacts DEF EventInv
<1>2. Declared(columns[i])
    BY <1>1 DEF EventInv
<1>3. CASE i \in PresentIn(k) /\ ~IsNull(k, i)
    <2>1. Storable(columns[i], images[k][i])
        BY <1>1, <1>3 DEF EventInv
    <2>2. Field(k, i) = Encoded(columns[i], images[k][i])
        BY <1>3 DEF Field
    <2>3. IsSeq(Encoded(columns[i], images[k][i]))
        BY <1>2, <2>1, EncodedSize
    <2> QED
        BY <1>2, <1>3, <2>1, <2>2, <2>3
<1>4. CASE ~(i \in PresentIn(k) /\ ~IsNull(k, i))
    <2>1. Field(k, i) = << >>
        BY <1>4 DEF Field, Empty
    <2> QED
        BY <1>4, <2>1, EmptyIsSeq
<1> QED
    BY <1>3, <1>4

\* The null bits of an image: one for each column that it contains, in their order.
LEMMA NullBytesIs ==
    ASSUME EventInv, NEW k \in 1..Len(images)
    PROVE  /\ IsSeq(NullBytes(k))
           /\ Len(NullBytes(k)) = (Cardinality(PresentIn(k)) + 7) \div 8
           /\ \A b \in 1..Len(NullBytes(k)) : NullBytes(k)[b] \in Nat /\ NullBytes(k)[b] < 256
           /\ \A i \in PresentIn(k) : GetBit(NullBytes(k), Before(PresentIn(k), i)) <=> IsNull(k, i)
<1> DEFINE P == PresentIn(k)
           n == Len(columns)
           size == (Cardinality(P) + 7) \div 8
           bits == {Before(P, i) : i \in {j \in P : IsNull(k, j)}}
<1>1. n \in Nat /\ P \in SUBSET (1..n)
    <2>1. Len(images) \in Nat /\ k \in Nat \ {0}
        BY SeqFacts DEF EventInv
    <2> QED
        BY <2>1, PresentInIs, SeqFacts DEF EventInv
<1>2. NullBytes(k) = Bitmap(bits, size)
    BY DEF NullBytes, Before
<1> HIDE DEF P, n
<1>3. Cardinality(P) \in Nat
    BY <1>1, PartFinite
<1>4. size \in Nat /\ Cardinality(P) <= 8 * size
    BY <1>3, BytesFor
<1>5. ASSUME NEW i \in P
      PROVE  GetBit(Bitmap(bits, size), Before(P, i)) <=> IsNull(k, i)
    <2>1. Before(P, i) \in Nat /\ Before(P, i) < Cardinality(P)
        BY <1>1, BeforeLess
    <2>2. Before(P, i) < 8 * size
        BY <1>3, <1>4, <2>1
    <2>3. GetBit(Bitmap(bits, size), Before(P, i)) <=> Before(P, i) \in bits
        <3> HIDE DEF bits, size
        <3> QED
            BY <1>4, <2>1, <2>2, BitmapBit
    <2>4. Before(P, i) \in bits => IsNull(k, i)
        <3> SUFFICES ASSUME Before(P, i) \in bits PROVE IsNull(k, i)
            OBVIOUS
        <3>1. PICK j \in P : IsNull(k, j) /\ Before(P, i) = Before(P, j)
            OBVIOUS
        <3>2. i = j
            BY <1>1, <3>1, BeforeDiffers
        <3> QED
            BY <3>1, <3>2
    <2>5. IsNull(k, i) => Before(P, i) \in bits
        OBVIOUS
    <2> QED
        BY <2>3, <2>4, <2>5
<1> HIDE DEF bits, size
<1>6. IsSeq(Bitmap(bits, size)) /\ Len(Bitmap(bits, size)) = size
    BY <1>4, BitmapIsSeq
<1>7. \A b \in 1..size : Bitmap(bits, size)[b] \in Nat /\ Bitmap(bits, size)[b] < 256
    BY <1>4, BitmapByte
<1> QED
    BY <1>2, <1>5, <1>6, <1>7 DEF size, P

\* Where the columns of an image are in it.
LEMMA ImageBytesIs ==
    ASSUME EventInv, NEW k \in 1..Len(images)
    PROVE  /\ IsSeq(ImageBytes(k))
           /\ Reads(ImageBytes(k), 0, NullBytes(k))
           /\ \A i \in 1..Len(columns) :
                  Reads(ImageBytes(k), Len(NullBytes(k)) + Len(FlattenSeq(Prefix(FieldParts(k), i - 1))), Field(k, i))
           /\ Len(ImageBytes(k)) = Len(NullBytes(k)) + Len(FlattenSeq(Prefix(FieldParts(k), Len(columns))))
           /\ Len(NullBytes(k)) \in Nat
           /\ \A i \in 0..Len(columns) : Len(FlattenSeq(Prefix(FieldParts(k), i))) \in Nat
           /\ \A i \in 1..Len(columns) :
                  Len(FlattenSeq(Prefix(FieldParts(k), i))) =
                      Len(FlattenSeq(Prefix(FieldParts(k), i - 1))) + Len(Field(k, i))
<1> DEFINE n == Len(columns)
           parts == FieldParts(k)
           fields == FlattenSeq(Prefix(parts, n))
           front == NullBytes(k)
<1>1. n \in Nat /\ DOMAIN columns = 1..n
    BY SeqFacts DEF EventInv
<1>2. ImageBytes(k) = front \o fields
    <2>1. [i \in DOMAIN columns |-> Field(k, i)] = Prefix(parts, n)
        BY <1>1, PartPrefixes
    <2> QED
        BY <2>1 DEF ImageBytes
<1>3. \A i \in 1..n : IsSeq(parts[i]) /\ parts[i] = Field(k, i)
    BY FieldIs DEF FieldParts
<1>4. IsSeq(front)
    BY NullBytesIs
<1> HIDE DEF n, parts, front
<1>5. ASSUME NEW i \in 0..n PROVE IsSeq(FlattenSeq(Prefix(parts, i)))
    <2>1. i \in Nat /\ \A j \in 1..i : IsSeq(parts[j])
        BY <1>1, <1>3
    <2> QED
        BY <2>1, FlattenIsSeq
<1>6. \A i \in 0..n : Len(FlattenSeq(Prefix(parts, i))) \in Nat
    BY <1>5, SeqFacts
<1>7. n \in 0..n
    BY <1>1
<1>8. /\ IsSeq(front \o fields) /\ Len(front \o fields) = Len(front) + Len(fields)
      /\ Reads(front \o fields, 0, front) /\ Reads(front \o fields, Len(front), fields)
    BY <1>4, <1>5, <1>7, ConcatIsSeq, ReadsConcat
<1>9. ASSUME NEW i \in 1..n
      PROVE  Reads(front \o fields, Len(front) + Len(FlattenSeq(Prefix(parts, i - 1))), Field(k, i))
    <2>1. \A j \in 1..n : IsSeq(parts[j])
        BY <1>3
    <2>2. Reads(fields, Len(FlattenSeq(Prefix(parts, i - 1))), parts[i])
        BY <1>1, <2>1, FlattenReads
    <2> HIDE DEF fields
    <2> QED
        BY <1>3, <1>8, <2>2, ReadsPart
<1>10. ASSUME NEW i \in 1..n
       PROVE  Len(FlattenSeq(Prefix(parts, i))) = Len(FlattenSeq(Prefix(parts, i - 1))) + Len(Field(k, i))
    <2>1. i \in Nat \ {0} /\ i - 1 \in 0..n /\ \A j \in 1..i : IsSeq(parts[j])
        BY <1>1, <1>3
    <2>2. FlattenSeq(Prefix(parts, i)) = FlattenSeq(Prefix(parts, i - 1)) \o parts[i]
        BY <2>1, FlattenStep
    <2>3. IsSeq(FlattenSeq(Prefix(parts, i - 1))) /\ IsSeq(parts[i]) /\ parts[i] = Field(k, i)
        BY <1>3, <1>5, <2>1
    <2>4. Len(FlattenSeq(Prefix(parts, i - 1)) \o parts[i]) = Len(FlattenSeq(Prefix(parts, i - 1))) + Len(parts[i])
        BY <2>3, ConcatIsSeq
    <2> QED
        BY <2>2, <2>3, <2>4
<1>11. Len(front) \in Nat
    BY <1>4, SeqFacts
<1> QED
    BY <1>2, <1>6, <1>8, <1>9, <1>10, <1>11 DEF n, parts, front

\* What is in a part that the buffer begins with.
LEMMA ReadsFirst ==
    ASSUME NEW buf, NEW s, NEW at, NEW part, Reads(buf, 0, s), Reads(s, at, part)
    PROVE  Reads(buf, at, part)
<1>1. Reads(buf, 0 + at, part) /\ at \in Nat
    BY ReadsPart, ReadsFacts
<1> QED
    BY <1>1, 0 + at = at

\* The head of a Rows event: its extra data, and the columns its images contain.
ExtraBytes == IF cmd \in Version2 THEN LowBytes(2 + Len(extra), 2) \o extra ELSE Empty
PresentParts == [w \in Nat |-> Bitmap({i - 1 : i \in presents[w]}, (Len(columns) + 7) \div 8)]
Presents(w) == FlattenSeq(Prefix(PresentParts, w))

\* Extra data, with their length in front, in events of the second version only.
LEMMA ExtraBytesIs ==
    ASSUME EventInv
    PROVE  /\ IsSeq(ExtraBytes) /\ Len(ExtraBytes) \in Nat
           /\ cmd \in Version2 =>
                  /\ Reads(ExtraBytes, 0, LowBytes(2 + Len(extra), 2))
                  /\ Len(ExtraBytes) = 2 + Len(extra)
           /\ cmd \notin Version2 => Len(ExtraBytes) = 0
<1>1. IsSeq(extra) /\ Len(extra) \in Nat
    BY SeqFacts DEF EventInv
<1>2. CASE cmd \in Version2
    <2> DEFINE size == LowBytes(2 + Len(extra), 2)
    <2>1. IsSeq(size) /\ Len(size) = 2
        BY LowBytesIsSeq
    <2>2. ExtraBytes = size \o extra
        BY <1>2 DEF ExtraBytes
    <2> HIDE DEF size
    <2>3. IsSeq(size \o extra) /\ Len(size \o extra) = Len(size) + Len(extra) /\ Reads(size \o extra, 0, size)
        BY <1>1, <2>1, ConcatIsSeq, ReadsConcat
    <2>4. IsSeq(ExtraBytes) /\ Len(ExtraBytes) = 2 + Len(extra) /\ Reads(ExtraBytes, 0, size)
        BY <2>1, <2>2, <2>3
    <2>5. Len(ExtraBytes) \in Nat
        BY <2>4, SeqFacts
    <2> QED
        BY <1>2, <2>4, <2>5 DEF size
<1>3. CASE cmd \notin Version2
    <2>1. ExtraBytes = << >>
        BY <1>3 DEF ExtraBytes, Empty
    <2> QED
        BY <1>3, <2>1, EmptyIsSeq
<1> QED
    BY <1>2, <1>3

\* The bitmaps of present columns, one for each image of a row, behind one another.
LEMMA PresentsAre ==
    ASSUME EventInv
    PROVE  /\ (Len(columns) + 7) \div 8 \in Nat
           /\ \A w \in 1..PerRow :
                  /\ PresentParts[w] = Bitmap({i - 1 : i \in presents[w]}, (Len(columns) + 7) \div 8)
                  /\ Len(PresentParts[w]) = (Len(columns) + 7) \div 8
                  /\ Reads(Presents(PerRow), (w - 1) * ((Len(columns) + 7) \div 8), PresentParts[w])
           /\ IsSeq(Presents(PerRow))
           /\ Len(Presents(PerRow)) = PerRow * ((Len(columns) + 7) \div 8)
<1> DEFINE size == (Len(columns) + 7) \div 8
           parts == PresentParts
<1>1. size \in Nat
    <2>1. Len(columns) \in Nat
        BY SeqFacts DEF EventInv
    <2> QED
        BY <2>1
<1>2. PerRow \in {1, 2}
    BY PerRowIs
<1>3. \A w \in Nat : parts[w] = Bitmap({i - 1 : i \in presents[w]}, size)
    BY DEF PresentParts
<1>4. ASSUME NEW w \in Nat PROVE IsSeq(parts[w]) /\ Len(parts[w]) = size
    <2> HIDE DEF size, parts
    <2> QED
        BY <1>1, <1>3, BitmapIsSeq
<1> HIDE DEF size, parts
<1>5. ASSUME NEW w \in Nat PROVE IsSeq(FlattenSeq(Prefix(parts, w)))
    <2>1. \A i \in 1..w : IsSeq(parts[i])
        BY <1>4
    <2> QED
        BY <2>1, FlattenIsSeq
<1>6. Len(FlattenSeq(Prefix(parts, 0))) = 0
    BY FlattenEmpty, EmptyIsSeq
<1>7. ASSUME NEW w \in Nat \ {0}
      PROVE  Len(FlattenSeq(Prefix(parts, w))) = Len(FlattenSeq(Prefix(parts, w - 1))) + size
    <2>1. w - 1 \in Nat /\ \A i \in 1..w : IsSeq(parts[i])
        BY <1>4
    <2>2. FlattenSeq(Prefix(parts, w)) = FlattenSeq(Prefix(parts, w - 1)) \o parts[w]
        BY <2>1, FlattenStep
    <2>3. IsSeq(FlattenSeq(Prefix(parts, w - 1))) /\ IsSeq(parts[w]) /\ Len(parts[w]) = size
        BY <2>1, <1>4, <1>5
    <2>4. Len(FlattenSeq(Prefix(parts, w - 1)) \o parts[w]) = Len(FlattenSeq(Prefix(parts, w - 1))) + Len(parts[w])
        BY <2>3, ConcatIsSeq
    <2> QED
        BY <2>2, <2>3, <2>4
<1>8. Len(FlattenSeq(Prefix(parts, 1))) = size
    <2>1. Len(FlattenSeq(Prefix(parts, 1))) = Len(FlattenSeq(Prefix(parts, 1 - 1))) + size
        BY <1>7
    <2> QED
        BY <2>1, <1>1, <1>6, 1 - 1 = 0
<1>9. Len(FlattenSeq(Prefix(parts, 2))) = 2 * size
    <2>1. Len(FlattenSeq(Prefix(parts, 2))) = Len(FlattenSeq(Prefix(parts, 2 - 1))) + size
        BY <1>7
    <2> QED
        BY <2>1, <1>1, <1>8, 2 - 1 = 1
<1>10. ASSUME NEW w \in 1..PerRow
       PROVE  Reads(FlattenSeq(Prefix(parts, PerRow)), (w - 1) * size, parts[w])
    <2>1. PerRow \in Nat /\ \A i \in 1..PerRow : IsSeq(parts[i])
        BY <1>2, <1>4
    <2>2. Reads(FlattenSeq(Prefix(parts, PerRow)), Len(FlattenSeq(Prefix(parts, w - 1))), parts[w])
        BY <2>1, FlattenReads
    <2>3. w - 1 \in {0, 1}
        BY <1>2
    <2>4. Len(FlattenSeq(Prefix(parts, w - 1))) = (w - 1) * size
        BY <2>3, <1>1, <1>6, <1>8
    <2> QED
        BY <2>2, <2>4
<1>11. PerRow \in Nat
    BY <1>2
<1>12. \A w \in 1..PerRow : w \in Nat
    BY <1>11
<1>13. Len(FlattenSeq(Prefix(parts, PerRow))) = PerRow * size
    BY <1>1, <1>2, <1>8, <1>9
<1> QED
    BY <1>1, <1>3, <1>4, <1>5, <1>10, <1>11, <1>12, <1>13 DEF size, parts, Presents

\* The bytes of a Rows event: its head, and the images behind it.
LEMMA RowHeadIs ==
    ASSUME EventInv
    PROVE  /\ IsSeq(RowHeadBytes) /\ Len(RowHeadBytes) \in Nat
           /\ Reads(RowHeadBytes, PostHeadSize, ExtraBytes)
           /\ Reads(RowHeadBytes, PostHeadSize + Len(ExtraBytes), LenencInt(Len(columns)))
           /\ Reads(RowHeadBytes, PostHeadSize + Len(ExtraBytes) + Len(LenencInt(Len(columns))), Presents(PerRow))
           /\ Len(RowHeadBytes) = PostHeadSize + Len(ExtraBytes) + Len(LenencInt(Len(columns))) + Len(Presents(PerRow))
<1> DEFINE a == PostHead
           b == ExtraBytes
           c == LenencInt(Len(columns))
           d == Presents(PerRow)
<1>1. IsSeq(a) /\ Len(a) = PostHeadSize /\ IsSeq(b) /\ IsSeq(d)
    BY PostHeadFacts, ExtraBytesIs, PresentsAre
<1>2. IsSeq(c)
    <2>1. Len(columns) \in Nat
        BY SeqFacts DEF EventInv
    <2> QED
        BY <2>1, LenencIsSeq
<1>3. RowHeadBytes = a \o b \o c \o d
    <2>1. [w \in 1..PerRow |-> Bitmap({i - 1 : i \in presents[w]}, (Len(columns) + 7) \div 8)] = Prefix(PresentParts, PerRow)
        <3>1. \A w \in 1..PerRow : PresentParts[w] = Bitmap({i - 1 : i \in presents[w]}, (Len(columns) + 7) \div 8)
            BY PresentsAre
        <3> QED
            BY <3>1 DEF Prefix
    <2> QED
        BY <2>1 DEF RowHeadBytes, ExtraBytes, Presents
<1> HIDE DEF a, b, c, d
<1>4. ASSUME NEW s, NEW t, IsSeq(s), IsSeq(t)
      PROVE  IsSeq(s \o t) /\ Len(s \o t) = Len(s) + Len(t) /\ Reads(s \o t, 0, s) /\ Reads(s \o t, Len(s), t)
    BY <1>4, ConcatIsSeq, ReadsConcat
<1> DEFINE ab == a \o b
           ac == ab \o c
           ad == ac \o d
<1>5. RowHeadBytes = ad
    BY <1>3
<1>6. IsSeq(ab) /\ Len(ab) = Len(a) + Len(b) /\ Reads(ab, Len(a), b)
    BY <1>1, <1>4
<1> HIDE DEF ab
<1>7. IsSeq(ac) /\ Len(ac) = Len(ab) + Len(c) /\ Reads(ac, 0, ab) /\ Reads(ac, Len(ab), c)
    BY <1>2, <1>4, <1>6
<1> HIDE DEF ac
<1>8. IsSeq(ad) /\ Len(ad) = Len(ac) + Len(d) /\ Reads(ad, 0, ac) /\ Reads(ad, Len(ac), d)
    BY <1>1, <1>4, <1>7
<1> HIDE DEF ad
<1>9. Reads(ad, Len(ab), c)
    BY <1>7, <1>8, ReadsFirst
<1>10. Reads(ad, Len(a), b)
    <2>1. Reads(ac, Len(a), b)
        BY <1>6, <1>7, ReadsFirst
    <2> QED
        BY <1>8, <2>1, ReadsFirst
<1>11. Len(ad) \in Nat
    BY <1>8, SeqFacts
<1> QED
    BY <1>1, <1>5, <1>6, <1>7, <1>8, <1>9, <1>10, <1>11 DEF a, b, c, d

\* The images are behind the head, one after the other, and end with the event.
LEMMA RowBytesAre ==
    ASSUME EventInv
    PROVE  /\ IsSeq(rowBuf) /\ Len(rowBuf) \in Nat
           /\ Reads(rowBuf, 0, RowHeadBytes)
           /\ Len(rowBuf) = Len(RowHeadBytes) + Len(FlattenSeq(Prefix(ImageParts, Len(images))))
           /\ \A k \in 1..Len(images) :
                  Reads(rowBuf, Len(RowHeadBytes) + Len(FlattenSeq(Prefix(ImageParts, k - 1))), ImageBytes(k))
<1> DEFINE m == Len(images)
           head == RowHeadBytes
           tail == FlattenSeq(Prefix(ImageParts, m))
<1>1. m \in Nat /\ DOMAIN images = 1..m
    BY SeqFacts DEF EventInv
<1>2. rowBuf = head \o tail
    <2>1. [k \in DOMAIN images |-> ImageBytes(k)] = Prefix(ImageParts, m)
        BY <1>1, PartPrefixes
    <2>2. rowBuf = RowBytes
        BY DEF EventInv
    <2>3. RowBytes = RowHeadBytes \o FlattenSeq([k \in DOMAIN images |-> ImageBytes(k)])
        BY DEF RowBytes
    <2> HIDE DEF m
    <2> QED
        BY <2>1, <2>2, <2>3
<1>3. \A k \in 1..m : IsSeq(ImageParts[k]) /\ ImageParts[k] = ImageBytes(k)
    BY <1>1, ImageBytesIs DEF ImageParts
<1>4. IsSeq(head)
    BY RowHeadIs
<1> HIDE DEF m, head
<1>5. IsSeq(tail)
    BY <1>1, <1>3, FlattenIsSeq
<1>6. /\ IsSeq(head \o tail) /\ Len(head \o tail) = Len(head) + Len(tail)
      /\ Reads(head \o tail, 0, head) /\ Reads(head \o tail, Len(head), tail)
    BY <1>4, <1>5, ConcatIsSeq, ReadsConcat
<1>7. ASSUME NEW k \in 1..m
      PROVE  Reads(head \o tail, Len(head) + Len(FlattenSeq(Prefix(ImageParts, k - 1))), ImageBytes(k))
    <2>1. \A j \in 1..m : IsSeq(ImageParts[j])
        BY <1>3
    <2>2. Reads(tail, Len(FlattenSeq(Prefix(ImageParts, k - 1))), ImageParts[k])
        BY <1>1, <2>1, FlattenReads
    <2> HIDE DEF tail
    <2> QED
        BY <1>3, <1>6, <2>2, ReadsPart
<1>8. Len(head \o tail) \in Nat
    BY <1>6, SeqFacts
<1> QED
    BY <1>2, <1>6, <1>7, <1>8 DEF m, head

\* The head is read as it was written.
LEMMA RowHeadRead ==
    ASSUME EventInv, ParseRowHead
    PROVE  /\ bitmaps' = [w \in 1..PerRow |-> PresentParts[w]]
           /\ pos' = Len(RowHeadBytes)
<1> DEFINE n == Len(columns)
           count1 == LenencInt(n)
           extraAt == PostHeadSize
           countAt == IF cmd \in Version2 THEN extraAt + Low(Slice(rowBuf, extraAt, 2)) ELSE extraAt
           count == UnpackLenencInt(rowBuf, countAt)
           size == (count.number + 7) \div 8
           bitmapAt(w) == countAt + count.size + (w - 1) * size
<1>1. /\ bitmaps' = [w \in 1..PerRow |-> Slice(rowBuf, bitmapAt(w), size)]
      /\ pos' = bitmapAt(PerRow + 1)
    BY DEF ParseRowHead
<1>2. n \in Nat /\ n <= 4096 /\ Len(extra) \in Nat /\ Len(extra) < 65534
    BY SeqFacts DEF EventInv
<1>3. /\ Reads(rowBuf, 0, RowHeadBytes)
      /\ Reads(RowHeadBytes, PostHeadSize, ExtraBytes)
      /\ Reads(RowHeadBytes, PostHeadSize + Len(ExtraBytes), count1)
      /\ Reads(RowHeadBytes, PostHeadSize + Len(ExtraBytes) + Len(count1), Presents(PerRow))
      /\ Len(RowHeadBytes) = PostHeadSize + Len(ExtraBytes) + Len(count1) + Len(Presents(PerRow))
    BY RowHeadIs, RowBytesAre
<1>4. PostHeadSize \in Nat /\ Len(ExtraBytes) \in Nat
    BY PostHeadFacts, ExtraBytesIs
<1>5. Len(count1) \in {1, 3}
    BY <1>2, LenencIsSeq
<1> HIDE DEF n, count1
<1>6. countAt = PostHeadSize + Len(ExtraBytes)
    <2>1. CASE cmd \in Version2
        <3> DEFINE two == LowBytes(2 + Len(extra), 2)
        <3>1. Reads(ExtraBytes, 0, two) /\ Len(ExtraBytes) = 2 + Len(extra) /\ Len(two) = 2
            BY <2>1, ExtraBytesIs, LowBytesIsSeq
        <3>2. Low(two) = 2 + Len(extra)
            <4>1. 2 + Len(extra) \in Nat /\ 2 + Len(extra) < 65536
                BY <1>2
            <4> QED
                BY <4>1, LowOfLowBytes
        <3> HIDE DEF two
        <3>3. Reads(RowHeadBytes, PostHeadSize + 0, two)
            BY <1>3, <3>1, ReadsPart
        <3>4. PostHeadSize + 0 = PostHeadSize
            BY <1>4
        <3>5. Reads(RowHeadBytes, PostHeadSize, two)
            BY <3>3, <3>4
        <3>6. Reads(rowBuf, PostHeadSize, two)
            BY <1>3, <3>5, ReadsFirst
        <3>7. Slice(rowBuf, PostHeadSize, 2) = two
            BY <3>1, <3>6, ReadsSlice
        <3> QED
            BY <2>1, <3>1, <3>2, <3>7
    <2>2. CASE cmd \notin Version2
        BY <2>2, <1>4, ExtraBytesIs
    <2> QED
        BY <2>1, <2>2
<1> HIDE DEF countAt
<1>7. count = [size |-> Len(count1), number |-> n]
    <2>1. Reads(rowBuf, countAt, LenencInt(n))
        BY <1>3, <1>6, ReadsFirst DEF count1
    <2>2. n < 65536
        BY <1>2
    <2> QED
        BY <1>2, <2>1, <2>2, LenencRead DEF count1
<1>8. count.size = Len(count1) /\ count.number = n
    BY <1>7
<1> HIDE DEF count
<1> DEFINE bytes == (n + 7) \div 8
           at == PostHeadSize + Len(ExtraBytes) + Len(count1)
<1>9. size = bytes
    BY <1>8
<1>10. /\ bytes \in Nat /\ Len(Presents(PerRow)) = PerRow * bytes
       /\ \A w \in 1..PerRow :
              Len(PresentParts[w]) = bytes /\ Reads(Presents(PerRow), (w - 1) * bytes, PresentParts[w])
    BY PresentsAre DEF n
<1>11. \A w : bitmapAt(w) = at + (w - 1) * bytes
    BY <1>6, <1>8, <1>9
<1> HIDE DEF bitmapAt, size, bytes
<1>12. PerRow \in {1, 2} /\ at \in Nat
    BY <1>4, <1>5, PerRowIs
<1>13. ASSUME NEW w \in 1..PerRow PROVE Slice(rowBuf, bitmapAt(w), size) = PresentParts[w]
    <2>1. Reads(RowHeadBytes, at + (w - 1) * bytes, PresentParts[w])
        BY <1>3, <1>10, ReadsPart
    <2>2. Reads(rowBuf, bitmapAt(w), PresentParts[w])
        BY <1>3, <1>11, <2>1, ReadsFirst
    <2> QED
        BY <1>9, <1>10, <2>2, ReadsSlice
<1>14. bitmapAt(PerRow + 1) = Len(RowHeadBytes)
    <2>1. (PerRow + 1) - 1 = PerRow
        BY <1>12
    <2>2. bitmapAt(PerRow + 1) = at + PerRow * bytes
        BY <1>11, <2>1
    <2> QED
        BY <1>3, <1>10, <2>2
<1> QED
    BY <1>1, <1>13, <1>14

-----------------------------------------------------------------------------
(* The places of images and columns.                                       *)

\* Where each image is.  The first is behind the head, the last ends with the event.
LEMMA ImagePlaces ==
    ASSUME EventInv
    PROVE  /\ ImageStart(1) = Len(RowHeadBytes)
           /\ ImageStart(Len(images) + 1) = Len(rowBuf)
           /\ \A k \in 1..Len(images) :
                  /\ ImageStart(k) \in Nat /\ Len(ImageBytes(k)) \in Nat
                  /\ Reads(rowBuf, ImageStart(k), ImageBytes(k))
                  /\ ImageStart(k + 1) = ImageStart(k) + Len(ImageBytes(k))
<1> DEFINE m == Len(images)
           Size(k) == Len(FlattenSeq(Prefix(ImageParts, k)))
<1>1. m \in Nat
    BY SeqFacts DEF EventInv
<1>2. ASSUME NEW k \in Nat PROVE ImageStart(k + 1) = Len(RowHeadBytes) + Size(k)
    <2>1. [q \in 1..(k + 1) - 1 |-> ImageBytes(q)] = Prefix(ImageParts, k)
        <3>1. (k + 1) - 1 = k
            OBVIOUS
        <3> QED
            BY <3>1, PartPrefixes
    <2> QED
        BY <2>1 DEF ImageStart
<1>3. Len(RowHeadBytes) \in Nat
    BY RowHeadIs
<1>4. \A k \in 1..m : IsSeq(ImageParts[k]) /\ ImageParts[k] = ImageBytes(k)
    BY <1>1, ImageBytesIs DEF ImageParts
<1>5. ASSUME NEW k \in 0..m PROVE IsSeq(FlattenSeq(Prefix(ImageParts, k))) /\ Size(k) \in Nat
    <2>1. k \in Nat /\ \A j \in 1..k : IsSeq(ImageParts[j])
        BY <1>1, <1>4
    <2>2. IsSeq(FlattenSeq(Prefix(ImageParts, k)))
        BY <2>1, FlattenIsSeq
    <2> QED
        BY <2>2, SeqFacts
<1>6. ASSUME NEW k \in 1..m PROVE Size(k) = Size(k - 1) + Len(ImageBytes(k))
    <2>1. k \in Nat \ {0} /\ k - 1 \in 0..m /\ \A j \in 1..k : IsSeq(ImageParts[j])
        BY <1>1, <1>4
    <2>2. FlattenSeq(Prefix(ImageParts, k)) = FlattenSeq(Prefix(ImageParts, k - 1)) \o ImageParts[k]
        BY <2>1, FlattenStep
    <2>3. IsSeq(FlattenSeq(Prefix(ImageParts, k - 1))) /\ IsSeq(ImageParts[k]) /\ ImageParts[k] = ImageBytes(k)
        BY <1>4, <1>5, <2>1
    <2>4. Len(FlattenSeq(Prefix(ImageParts, k - 1)) \o ImageParts[k])
              = Len(FlattenSeq(Prefix(ImageParts, k - 1))) + Len(ImageParts[k])
        BY <2>3, ConcatIsSeq
    <2> QED
        BY <2>2, <2>3, <2>4
<1>7. Size(0) = 0
    BY FlattenEmpty, EmptyIsSeq
<1>8. /\ Len(rowBuf) = Len(RowHeadBytes) + Size(m)
      /\ \A k \in 1..m : Reads(rowBuf, Len(RowHeadBytes) + Size(k - 1), ImageBytes(k))
    BY RowBytesAre
<1>9. \A k \in 1..m : Len(ImageBytes(k)) \in Nat
    BY <1>8, ReadsFacts
<1> HIDE DEF Size, m
<1>10. ImageStart(1) = Len(RowHeadBytes)
    <2>1. ImageStart(0 + 1) = Len(RowHeadBytes) + Size(0)
        BY <1>2
    <2> QED
        BY <1>3, <1>7, <2>1, 0 + 1 = 1
<1>11. ImageStart(m + 1) = Len(rowBuf)
    BY <1>1, <1>2, <1>8
<1>12. ASSUME NEW k \in 1..m
       PROVE  /\ ImageStart(k) \in Nat
              /\ Reads(rowBuf, ImageStart(k), ImageBytes(k))
              /\ ImageStart(k + 1) = ImageStart(k) + Len(ImageBytes(k))
    <2>1. k \in Nat /\ k - 1 \in Nat /\ k - 1 \in 0..m /\ (k - 1) + 1 = k
        BY <1>1
    <2>2. ImageStart(k) = Len(RowHeadBytes) + Size(k - 1)
        <3>1. ImageStart((k - 1) + 1) = Len(RowHeadBytes) + Size(k - 1)
            BY <1>2, <2>1
        <3> QED
            BY <2>1, <3>1
    <2>3. ImageStart(k + 1) = Len(RowHeadBytes) + Size(k)
        BY <1>2, <2>1
    <2>4. Size(k) = Size(k - 1) + Len(ImageBytes(k)) /\ Size(k - 1) \in Nat /\ Len(ImageBytes(k)) \in Nat
        BY <1>5, <1>6, <1>9, <2>1
    <2>5. Reads(rowBuf, ImageStart(k), ImageBytes(k))
        BY <1>8, <2>2
    <2> QED
        BY <1>3, <2>2, <2>3, <2>4, <2>5
<1> QED
    BY <1>9, <1>10, <1>11, <1>12 DEF m

\* Where each column of an image is.  The first is behind the null bits, the last ends with the image.
LEMMA ColumnPlaces ==
    ASSUME EventInv, NEW k \in 1..Len(images)
    PROVE  /\ Reads(rowBuf, ImageStart(k), NullBytes(k))
           /\ ColumnStart(k, 1) = ImageStart(k) + Len(NullBytes(k))
           /\ ColumnStart(k, Len(columns) + 1) = ImageStart(k + 1)
           /\ \A i \in 1..Len(columns) :
                  /\ ColumnStart(k, i) \in Nat
                  /\ Reads(rowBuf, ColumnStart(k, i), Field(k, i))
                  /\ ColumnStart(k, i + 1) = ColumnStart(k, i) + Len(Field(k, i))
<1> DEFINE n == Len(columns)
           start == ImageStart(k)
           front == Len(NullBytes(k))
           Size(i) == Len(FlattenSeq(Prefix(FieldParts(k), i)))
<1>1. /\ start \in Nat /\ Reads(rowBuf, start, ImageBytes(k))
      /\ ImageStart(k + 1) = start + Len(ImageBytes(k))
    BY ImagePlaces
<1>2. /\ Reads(ImageBytes(k), 0, NullBytes(k))
      /\ \A i \in 1..n : Reads(ImageBytes(k), front + Size(i - 1), Field(k, i))
      /\ Len(ImageBytes(k)) = front + Size(n)
      /\ front \in Nat
      /\ \A i \in 0..n : Size(i) \in Nat
      /\ \A i \in 1..n : Size(i) = Size(i - 1) + Len(Field(k, i))
    BY ImageBytesIs
<1>3. ASSUME NEW i \in Nat PROVE ColumnStart(k, i + 1) = start + front + Size(i)
    <2>1. [j \in 1..(i + 1) - 1 |-> Field(k, j)] = Prefix(FieldParts(k), i)
        <3>1. (i + 1) - 1 = i
            OBVIOUS
        <3> QED
            BY <3>1, PartPrefixes
    <2> QED
        BY <2>1 DEF ColumnStart
<1>4. Size(0) = 0
    BY FlattenEmpty, EmptyIsSeq
<1>5. n \in Nat
    BY SeqFacts DEF EventInv
<1> HIDE DEF n, start, front, Size
<1>6. Reads(rowBuf, start, NullBytes(k))
    <2>1. Reads(rowBuf, start + 0, NullBytes(k))
        BY <1>1, <1>2, ReadsPart
    <2>2. start + 0 = start
        BY <1>1
    <2> QED
        BY <2>1, <2>2
<1>7. ColumnStart(k, 1) = start + front
    <2>1. ColumnStart(k, 0 + 1) = start + front + Size(0)
        BY <1>3
    <2> QED
        BY <1>1, <1>2, <1>4, <2>1, 0 + 1 = 1
<1>8. ColumnStart(k, n + 1) = ImageStart(k + 1)
    <2>1. ColumnStart(k, n + 1) = start + front + Size(n) /\ Size(n) \in Nat
        BY <1>2, <1>3, <1>5
    <2> QED
        BY <1>1, <1>2, <2>1
<1>9. ASSUME NEW i \in 1..n
      PROVE  /\ ColumnStart(k, i) \in Nat
             /\ Reads(rowBuf, ColumnStart(k, i), Field(k, i))
             /\ ColumnStart(k, i + 1) = ColumnStart(k, i) + Len(Field(k, i))
    <2>1. i \in Nat /\ i - 1 \in Nat /\ i - 1 \in 0..n /\ (i - 1) + 1 = i
        BY <1>5
    <2>2. ColumnStart(k, i) = start + front + Size(i - 1)
        <3>1. ColumnStart(k, (i - 1) + 1) = start + front + Size(i - 1)
            BY <1>3, <2>1
        <3> QED
            BY <2>1, <3>1
    <2>3. ColumnStart(k, i + 1) = start + front + Size(i)
        BY <1>3, <2>1
    <2>4. Reads(ImageBytes(k), front + Size(i - 1), Field(k, i))
        BY <1>2
    <2>5. Reads(rowBuf, start + (front + Size(i - 1)), Field(k, i))
        BY <1>1, <2>4, ReadsPart
    <2>6. Size(i - 1) \in Nat /\ Size(i) = Size(i - 1) + Len(Field(k, i)) /\ Len(Field(k, i)) \in Nat
        BY <1>2, <2>1, <2>4, ReadsFacts
    <2>7. start + (front + Size(i - 1)) = ColumnStart(k, i)
        BY <1>1, <1>2, <2>2, <2>6
    <2>8. Reads(rowBuf, ColumnStart(k, i), Field(k, i))
        BY <2>5, <2>7
    <2> QED
        BY <1>1, <1>2, <2>2, <2>3, <2>6, <2>8, SMTT(30)
<1> QED
    BY <1>6, <1>7, <1>8, <1>9 DEF n, start, front

-----------------------------------------------------------------------------
(* The rows.                                                               *)

\* Which of a row's images is read: bitmaps and images are numbered alike.
Which(old) == IF cmd \in Updates /\ ~old THEN 2 ELSE 1

\* The parser is in front of a row.
InRows ==
    /\ Len(lines) * PerRow <= Len(images)
    /\ pos = ImageStart(Len(lines) * PerRow + 1)

\* The line's columns are those of the images that were read.
LineInv ==
    /\ isOld \in BOOLEAN /\ (isOld => cmd \in Updates)
    /\ IsSeq(line.old) /\ IsSeq(line.new)
    /\ line = [old |-> line.old, new |-> line.new]
    /\ Len(line.old) <= Len(columns) /\ Len(line.new) <= Len(columns)
    /\ isOld => Len(line.new) = 0
    /\ (Len(lines) + 1) * PerRow <= Len(images)

\* The parser is in front of the next column of an image, or behind the last one.
InColumns ==
    /\ LineInv
    /\ nulls = NullBytes(Image)
    /\ presentPos = Before(PresentIn(Image), Column)
    /\ pos = ColumnStart(Image, Column)

\* Where the parser is.
RowsInv ==
    /\ IsSeq(lines)
    /\ stage \in {"tablemap", "meta", "head"} => lines = Empty
    /\ stage \in {"rows", "columns"} => bitmaps = [w \in 1..PerRow |-> PresentParts[w]]
    /\ stage = "rows" => InRows
    /\ stage = "columns" => InColumns

\* These places depend on the event alone.
LEMMA SamePlaces ==
    ASSUME UNCHANGED event
    PROVE  /\ PerRow' = PerRow /\ PresentParts' = PresentParts
           /\ columns' = columns /\ images' = images /\ cmd' = cmd /\ rowBuf' = rowBuf
           /\ \A k : NullBytes(k)' = NullBytes(k) /\ PresentIn(k)' = PresentIn(k)
           /\ \A k : ImageStart(k)' = ImageStart(k)
           /\ \A k, i : ColumnStart(k, i)' = ColumnStart(k, i)
<1>1. /\ columns' = columns /\ cmd' = cmd /\ headLen' = headLen /\ extra' = extra /\ presents' = presents
      /\ images' = images /\ rowBuf' = rowBuf
    BY DEF event
<1>2. PerRow' = PerRow
    BY <1>1 DEF PerRow
<1>3. PostHead' = PostHead
    BY <1>1 DEF PostHead
<1>4. PresentParts' = PresentParts
    BY <1>1 DEF PresentParts
<1>5. \A k : PresentIn(k)' = PresentIn(k)
    BY <1>1, <1>2 DEF PresentIn
<1>6. \A k, i : IsNull(k, i)' = IsNull(k, i)
    BY <1>1, <1>5 DEF IsNull
<1>7. \A k : NullBytes(k)' = NullBytes(k)
    BY <1>5, <1>6 DEF NullBytes
<1>8. \A k, i : Field(k, i)' = Field(k, i)
    BY <1>1, <1>5, <1>6 DEF Field
<1>9. \A k : ImageBytes(k)' = ImageBytes(k)
    BY <1>1, <1>7, <1>8 DEF ImageBytes
<1>10. RowHeadBytes' = RowHeadBytes
    BY <1>1, <1>2, <1>3 DEF RowHeadBytes
<1>11. \A k : ImageStart(k)' = ImageStart(k)
    BY <1>9, <1>10 DEF ImageStart
<1>12. \A k, i : ColumnStart(k, i)' = ColumnStart(k, i)
    BY <1>7, <1>8, <1>11 DEF ColumnStart
<1> QED
    BY <1>1, <1>2, <1>4, <1>5, <1>7, <1>11, <1>12

\* The image that is read is one of the row's, and its bitmap says which columns it contains.
LEMMA ImageIs ==
    ASSUME EventInv, IsSeq(lines), NEW old \in BOOLEAN, old => cmd \in Updates,
           (Len(lines) + 1) * PerRow <= Len(images)
    PROVE  /\ Which(old) \in 1..PerRow
           /\ Len(lines) * PerRow + Which(old) \in 1..Len(images)
           /\ PresentIn(Len(lines) * PerRow + Which(old)) = presents[Which(old)]
           /\ presents[Which(old)] \in SUBSET (1..Len(columns))
<1>1. Len(lines) \in Nat /\ Len(images) \in Nat /\ DOMAIN columns = 1..Len(columns)
    BY SeqFacts DEF EventInv
<1> DEFINE l == Len(lines)
<1>2. CASE cmd \in Updates
    <2>1. PerRow = 2 /\ Which(old) \in {1, 2}
        BY <1>2 DEF PerRow, Which
    <2>2. 1 + (((l * 2 + Which(old)) - 1) % 2) = Which(old) /\ l * 2 + Which(old) \in 1..Len(images)
        BY <1>1, <2>1
    <2>3. PresentIn(l * PerRow + Which(old)) = presents[Which(old)]
        BY <2>1, <2>2 DEF PresentIn
    <2> QED
        BY <1>1, <2>1, <2>2, <2>3 DEF EventInv
<1>3. CASE cmd \notin Updates
    <2>1. PerRow = 1 /\ Which(old) = 1
        BY <1>3 DEF PerRow, Which
    <2>2. 1 + (((l * 1 + 1) - 1) % 1) = 1 /\ l * 1 + 1 \in 1..Len(images)
        BY <1>1, <2>1
    <2>3. PresentIn(l * PerRow + Which(old)) = presents[Which(old)]
        BY <2>1, <2>2 DEF PresentIn
    <2> QED
        BY <1>1, <2>1, <2>2, <2>3 DEF EventInv
<1> QED
    BY <1>2, <1>3

\* A column's bit in the bitmap of an image.
LEMMA PresentBit ==
    ASSUME EventInv, NEW w \in 1..PerRow, NEW i \in 1..Len(columns)
    PROVE  GetBit(PresentParts[w], i - 1) <=> i \in presents[w]
<1> DEFINE n == Len(columns)
           size == (n + 7) \div 8
           P == presents[w]
           bits == {j - 1 : j \in P}
<1>1. n \in Nat /\ P \in SUBSET (1..n)
    <2>1. n \in Nat /\ DOMAIN columns = 1..n
        BY SeqFacts DEF EventInv
    <2> QED
        BY <2>1 DEF EventInv
<1>2. PresentParts[w] = Bitmap(bits, size)
    BY PresentsAre
<1> HIDE DEF n, P
<1>3. size \in Nat /\ n <= 8 * size
    BY <1>1, BytesFor
<1>4. i - 1 \in Nat /\ i - 1 < 8 * size
    BY <1>1, <1>3 DEF n
<1>5. GetBit(Bitmap(bits, size), i - 1) <=> i - 1 \in bits
    <2> HIDE DEF bits, size
    <2> QED
        BY <1>3, <1>4, BitmapBit
<1>6. i - 1 \in bits <=> i \in P
    <2>1. i \in Nat /\ \A j \in P : j \in Nat
        BY <1>1, <1>4 DEF n
    <2>2. \A j \in P : i - 1 = j - 1 => i = j
        BY <2>1
    <2> QED
        BY <2>2
<1> QED
    BY <1>2, <1>5, <1>6 DEF P

\* An image is begun behind its null bitmap.
LEMMA BeginImageIs ==
    ASSUME EventInv, bitmaps = [w \in 1..PerRow |-> PresentParts[w]], NEW old \in BOOLEAN, BeginImage(old),
           NEW k \in 1..Len(images), Which(old) \in 1..PerRow, PresentIn(k) = presents[Which(old)],
           pos = ImageStart(k)
    PROVE  /\ nulls' = NullBytes(k) /\ pos' = ColumnStart(k, 1)
           /\ presentPos' = Before(PresentIn(k), 1)
           /\ isOld' = old /\ stage' = "columns"
<1> DEFINE n == Len(columns)
           P == PresentIn(k)
           size == (Cardinality(P) + 7) \div 8
           counted == GetBitsetCount(bitmaps[Which(old)], n)
<1>1. /\ nulls' = Slice(rowBuf, pos, (counted + 7) \div 8)
      /\ pos' = pos + (counted + 7) \div 8
      /\ presentPos' = 0 /\ isOld' = old /\ stage' = "columns"
    BY DEF BeginImage, Which
<1>2. n \in Nat /\ P \in SUBSET (1..n)
    <2>1. Len(images) \in Nat /\ k \in Nat \ {0}
        BY SeqFacts DEF EventInv
    <2> QED
        BY <2>1, PresentInIs, SeqFacts DEF EventInv
<1>3. bitmaps[Which(old)] = Bitmap({i - 1 : i \in P}, (n + 7) \div 8)
    <2>1. PresentParts[Which(old)] = Bitmap({i - 1 : i \in presents[Which(old)]}, (n + 7) \div 8)
        BY PresentsAre
    <2> QED
        BY <2>1
<1> HIDE DEF n, P
<1>4. counted = Cardinality(P)
    BY <1>2, <1>3, BitsetCount
<1>5. /\ Reads(rowBuf, ImageStart(k), NullBytes(k))
      /\ ColumnStart(k, 1) = ImageStart(k) + Len(NullBytes(k))
      /\ Len(NullBytes(k)) = size
    BY ColumnPlaces, NullBytesIs DEF P
<1> HIDE DEF counted
<1>6. nulls' = NullBytes(k)
    <2>1. Slice(rowBuf, ImageStart(k), Len(NullBytes(k))) = NullBytes(k)
        BY <1>5, ReadsSlice
    <2> QED
        BY <1>1, <1>4, <1>5, <2>1
<1>7. pos' = ColumnStart(k, 1)
    BY <1>1, <1>4, <1>5
<1>8. Before(P, 1) = 0
    BY <1>2, BeforeFirst
<1> QED
    BY <1>1, <1>6, <1>7, <1>8 DEF P

\* A text is pushed to the image that is read.
LEMMA PushIs ==
    ASSUME EventInv, LineInv, Column <= Len(columns), NEW text, PushBack(text), UNCHANGED <<event, isOld, lines>>
    PROVE  /\ LineInv' /\ Column' = Column + 1
           /\ Column \in 1..Len(columns)
<1>1. ASSUME NEW s, IsSeq(s)
      PROVE  IsSeq(Append(s, text)) /\ Len(Append(s, text)) = Len(s) + 1 /\ Len(s) \in Nat
    <2> DEFINE t == <<text>>
    <2>1. Append(s, text) = s \o t
        BY <1>1 DEF IsSeq
    <2>2. IsSeq(t) /\ Len(t) = 1
        BY SingleIsSeq
    <2> HIDE DEF t
    <2>3. IsSeq(s \o t) /\ Len(s \o t) = Len(s) + Len(t)
        BY <1>1, <2>2, ConcatIsSeq
    <2> QED
        BY <1>1, <2>1, <2>2, <2>3, SeqFacts
<1>2. /\ isOld \in BOOLEAN /\ (isOld => cmd \in Updates)
      /\ IsSeq(line.old) /\ IsSeq(line.new)
      /\ line = [old |-> line.old, new |-> line.new]
      /\ Len(line.old) <= Len(columns) /\ Len(line.new) <= Len(columns)
      /\ isOld => Len(line.new) = 0
      /\ (Len(lines) + 1) * PerRow <= Len(images)
    BY DEF LineInv
<1>3. columns' = columns /\ cmd' = cmd /\ PerRow' = PerRow /\ images' = images /\ isOld' = isOld /\ lines' = lines
    BY SamePlaces
<1>4. Len(columns) \in Nat
    BY SeqFacts DEF EventInv
<1>5. CASE isOld
    <2> DEFINE s == Append(line.old, text)
    <2>1. line' = [old |-> s, new |-> line.new]
        BY <1>2, <1>5 DEF PushBack
    <2>2. IsSeq(s) /\ Len(s) = Len(line.old) + 1 /\ Len(line.old) \in Nat
        BY <1>1, <1>2
    <2> HIDE DEF s
    <2>3. line'.old = s /\ line'.new = line.new /\ line' = [old |-> line'.old, new |-> line'.new]
        BY <2>1
    <2>4. Column = Len(line.old) + 1 /\ Column' = Len(s) + 1
        BY <1>3, <1>5, <2>3 DEF Column, Pushed
    <2> QED
        BY <1>2, <1>3, <1>4, <1>5, <2>2, <2>3, <2>4 DEF LineInv
<1>6. CASE ~isOld
    <2> DEFINE s == Append(line.new, text)
    <2>1. line' = [old |-> line.old, new |-> s]
        BY <1>2, <1>6 DEF PushBack
    <2>2. IsSeq(s) /\ Len(s) = Len(line.new) + 1 /\ Len(line.new) \in Nat
        BY <1>1, <1>2
    <2> HIDE DEF s
    <2>3. line'.old = line.old /\ line'.new = s /\ line' = [old |-> line'.old, new |-> line'.new]
        BY <2>1
    <2>4. Column = Len(line.new) + 1 /\ Column' = Len(s) + 1
        BY <1>3, <1>6, <2>3 DEF Column, Pushed
    <2> QED
        BY <1>2, <1>3, <1>4, <1>6, <2>2, <2>3, <2>4 DEF LineInv
<1> QED
    BY <1>5, <1>6

\* The number of the image that is read, by the lines that are complete.
LEMMA ImageOfLine ==
    ASSUME stage # "rows"
    PROVE  Image = Len(lines) * PerRow + Which(isOld)
BY DEF Image, Which

\* In front of a column the parser knows whether the image contains it and whether it is null,
\* and its value begins here.
LEMMA NextColumn ==
    ASSUME EventInv, RowsInv, stage = "columns", Column <= Len(columns)
    PROVE  /\ Image \in 1..Len(images) /\ Column \in 1..Len(columns)
           /\ Present <=> Column \in PresentIn(Image)
           /\ Column \in PresentIn(Image) => (GetBit(nulls, presentPos) <=> IsNull(Image, Column))
           /\ Reads(rowBuf, pos, Field(Image, Column))
           /\ ColumnStart(Image, Column + 1) = pos + Len(Field(Image, Column))
           /\ Before(PresentIn(Image), Column + 1)
                  = IF Column \in PresentIn(Image) THEN presentPos + 1 ELSE presentPos
           /\ presentPos \in Nat /\ presentPos <= Len(columns)
           /\ Column \in PresentIn(Image) => presentPos + 1 <= Len(columns)
           /\ presents[Which(isOld)] = PresentIn(Image)
<1> DEFINE n == Len(columns)
           k == Image
           P == PresentIn(k)
           i == Column
<1>1. InColumns /\ IsSeq(lines) /\ bitmaps = [w \in 1..PerRow |-> PresentParts[w]]
    BY DEF RowsInv
<1>2. /\ isOld \in BOOLEAN /\ (isOld => cmd \in Updates) /\ (Len(lines) + 1) * PerRow <= Len(images)
      /\ IsSeq(line.old) /\ IsSeq(line.new)
      /\ nulls = NullBytes(k) /\ presentPos = Before(P, i) /\ pos = ColumnStart(k, i)
    BY <1>1 DEF InColumns, LineInv
<1>3. k = Len(lines) * PerRow + Which(isOld)
    BY ImageOfLine
<1>4. Which(isOld) \in 1..PerRow /\ k \in 1..Len(images) /\ P = presents[Which(isOld)] /\ P \in SUBSET (1..n)
    <2>1. /\ Which(isOld) \in 1..PerRow /\ Len(lines) * PerRow + Which(isOld) \in 1..Len(images)
          /\ PresentIn(Len(lines) * PerRow + Which(isOld)) = presents[Which(isOld)]
          /\ presents[Which(isOld)] \in SUBSET (1..Len(columns))
        BY <1>1, <1>2, ImageIs
    <2> QED
        BY <1>3, <2>1
<1>5. n \in Nat /\ i \in 1..n
    <2>1. Len(line.old) \in Nat /\ Len(line.new) \in Nat /\ n \in Nat
        BY <1>2, SeqFacts DEF EventInv
    <2>2. i \in Nat /\ i >= 1
        BY <2>1 DEF Column, Pushed
    <2> QED
        BY <2>1, <2>2
<1>6. Present <=> i \in P
    <2>1. GetBit(PresentParts[Which(isOld)], i - 1) <=> i \in presents[Which(isOld)]
        BY <1>4, <1>5, PresentBit
    <2>2. Present <=> GetBit(bitmaps[Which(isOld)], i - 1)
        BY DEF Present, Which
    <2> HIDE DEF i, P
    <2> QED
        BY <1>1, <1>4, <2>1, <2>2
<1> HIDE DEF n, k, P, i
<1>7. i \in P => (GetBit(nulls, presentPos) <=> IsNull(k, i))
    <2>1. \A j \in P : GetBit(NullBytes(k), Before(P, j)) <=> IsNull(k, j)
        BY <1>4, NullBytesIs DEF P
    <2> QED
        BY <1>2, <2>1
<1>8. Reads(rowBuf, pos, Field(k, i)) /\ ColumnStart(k, i + 1) = pos + Len(Field(k, i))
    BY <1>2, <1>4, <1>5, ColumnPlaces DEF n
<1>9. /\ Before(P, i + 1) = IF i \in P THEN presentPos + 1 ELSE presentPos
    BY <1>2, <1>4, <1>5, BeforeNext
<1>10. /\ Before(P, i) \in Nat /\ Before(P, i) <= Cardinality(P) /\ Cardinality(P) <= n /\ Cardinality(P) \in Nat
    BY <1>4, <1>5, PartFinite
<1>11. i \in P => Before(P, i) < Cardinality(P)
    BY <1>4, <1>5, BeforeLess
<1>12. presentPos \in Nat /\ presentPos <= n /\ (i \in P => presentPos + 1 <= n)
    BY <1>2, <1>5, <1>10, <1>11
<1> QED
    BY <1>4, <1>5, <1>6, <1>7, <1>8, <1>9, <1>12 DEF n, k, P, i

\* In front of a value the parser knows its column's type and metadata.
LEMMA NextValue ==
    ASSUME EventInv, MetasInv, RowsInv, stage = "columns", Column <= Len(columns),
           Column \in PresentIn(Image), ~IsNull(Image, Column)
    PROVE  /\ Declared(columns[Column]) /\ Storable(columns[Column], images[Image][Column])
           /\ types[Column] = columns[Column].type /\ metas[Column] = columns[Column].meta
           /\ Reads(rowBuf, pos, Encoded(columns[Column], images[Image][Column]))
           /\ ColumnStart(Image, Column + 1) = pos + Len(Encoded(columns[Column], images[Image][Column]))
<1> DEFINE k == Image
           i == Column
           column == columns[i]
           v == images[k][i]
<1>1. /\ k \in 1..Len(images) /\ i \in 1..Len(columns)
      /\ Reads(rowBuf, pos, Field(k, i))
      /\ ColumnStart(k, i + 1) = pos + Len(Field(k, i))
    BY NextColumn
<1>2. Declared(column) /\ Storable(column, v) /\ Field(k, i) = Encoded(column, v)
    BY <1>1, FieldIs
<1>3. types[i] = column.type
    <2>1. types = TypeBytes /\ i \in DOMAIN columns
        BY <1>1, SeqFacts DEF MetasInv, EventInv
    <2> QED
        BY <2>1 DEF TypeBytes
<1>4. metas[i] = column.meta
    <2>1. Len(metas) = Len(columns)
        BY DEF MetasInv
    <2>2. metas[i] = IF MetaBytes(column) = Empty THEN 0 ELSE column.meta
        BY <1>1, <2>1 DEF MetasInv
    <2>3. MetaBytes(column) = Empty => column.meta = 0
        <3> SUFFICES ASSUME MetaBytes(column) = Empty PROVE column.meta = 0
            OBVIOUS
        <3>1. Len(MetaBytes(column)) = MetaSize(column.type)
            BY <1>2, MetaRead
        <3>2. Len(MetaBytes(column)) = 0
            BY EmptyIsSeq DEF Empty
        <3>3. column.type \in PlainTypes
            <4>1. column.type \in ServerTypes
                BY <1>2 DEF Declared
            <4>2. MetaSize(column.type) = 0
                BY <3>1, <3>2
            <4>3. column.type \notin OneByteMeta /\ column.type \notin TwoByteMeta
                BY <4>2, 1 # 0, 2 # 0 DEF MetaSize
            <4> HIDE DEF column
            <4> QED
                BY <4>1, <4>3 DEF OneByteMeta, TwoByteMeta, ServerTypes
        <3> QED
            BY <1>2, <3>3 DEF Declared
    <2> QED
        BY <2>2, <2>3
<1> HIDE DEF k, i, column, v
<1>5. Reads(rowBuf, pos, Encoded(column, v))
    BY <1>1, <1>2
<1> QED
    BY <1>1, <1>2, <1>3, <1>4, <1>5 DEF k, i, column, v

\* The value is read, and the parser is behind it.
LEMMA ValuePassed ==
    ASSUME EventInv, MetasInv, RowsInv, stage = "columns", Column <= Len(columns),
           Column \in PresentIn(Image), ~IsNull(Image, Column),
           Readable(columns[Column]) \/ columns[Column].type = T.NEWDECIMAL
    PROVE  pos + ParseColumnValue(rowBuf, pos, types[Column], metas[Column]).size = ColumnStart(Image, Column + 1)
<1> DEFINE column == columns[Column]
           v == images[Image][Column]
<1>1. /\ Declared(column) /\ Storable(column, v)
      /\ types[Column] = column.type /\ metas[Column] = column.meta
      /\ Reads(rowBuf, pos, Encoded(column, v))
      /\ ColumnStart(Image, Column + 1) = pos + Len(Encoded(column, v))
    BY NextValue
<1>2. Readable(column) \/ column.type = T.NEWDECIMAL
    OBVIOUS
<1> HIDE DEF column, v
<1>3. ParseColumnValue(rowBuf, pos, column.type, column.meta).size = Len(Encoded(column, v))
    BY <1>1, <1>2, ColumnPassed
<1> QED
    BY <1>1, <1>3

\* When an image is begun at its place the parser is at its first column.
LEMMA ImageBegun ==
    ASSUME EventInv, IsSeq(lines), bitmaps = [w \in 1..PerRow |-> PresentParts[w]],
           UNCHANGED <<event, bitmaps, lines>>,
           NEW old \in BOOLEAN, old => cmd \in Updates, BeginImage(old),
           (Len(lines) + 1) * PerRow <= Len(images),
           pos = ImageStart(Len(lines) * PerRow + Which(old)),
           IsSeq(line'.old), IsSeq(line'.new), line' = [old |-> line'.old, new |-> line'.new],
           Len(line'.old) <= Len(columns), Len(line'.new) = 0, old => Len(line'.old) = 0
    PROVE  RowsInv' /\ \E k \in 1..Len(images) : nulls' = NullBytes(k)
<1> DEFINE k == Len(lines) * PerRow + Which(old)
<1>1. k \in 1..Len(images) /\ Which(old) \in 1..PerRow /\ PresentIn(k) = presents[Which(old)]
    BY ImageIs
<1> HIDE DEF k
<1>2. /\ nulls' = NullBytes(k) /\ pos' = ColumnStart(k, 1)
      /\ presentPos' = Before(PresentIn(k), 1)
      /\ isOld' = old /\ stage' = "columns"
    <2>1. pos = ImageStart(k)
        BY DEF k
    <2> QED
        BY <1>1, <2>1, BeginImageIs
<1>3. /\ PerRow' = PerRow /\ PresentParts' = PresentParts
      /\ columns' = columns /\ images' = images /\ cmd' = cmd
      /\ \A q : NullBytes(q)' = NullBytes(q) /\ PresentIn(q)' = PresentIn(q)
      /\ \A q, i : ColumnStart(q, i)' = ColumnStart(q, i)
    BY SamePlaces
<1>4. Image' = k
    BY <1>2, <1>3 DEF Image, Which, k
<1>5. Column' = 1
    <2>1. Pushed' = IF old THEN line'.old ELSE line'.new
        BY <1>2 DEF Pushed
    <2>2. Len(Pushed') = 0
        BY <2>1
    <2> QED
        BY <2>2 DEF Column
<1>6. LineInv'
    <2>1. Len(columns) \in Nat
        BY SeqFacts DEF EventInv
    <2> QED
        BY <1>2, <1>3, <2>1 DEF LineInv
<1>7. InColumns'
    <2>1. NullBytes(Image)' = NullBytes(k) /\ PresentIn(Image)' = PresentIn(k)
        BY <1>3, <1>4
    <2>2. ColumnStart(Image, Column)' = ColumnStart(k, 1)
        BY <1>3, <1>4, <1>5
    <2>3. Before(PresentIn(Image), Column)' = Before(PresentIn(k), 1)
        BY <1>5, <2>1 DEF Before
    <2> QED
        BY <1>2, <1>6, <2>1, <2>2, <2>3 DEF InColumns
<1>8. bitmaps' = [w \in 1..PerRow' |-> PresentParts'[w]]
    BY <1>3
<1>9. RowsInv'
    BY <1>2, <1>7, <1>8 DEF RowsInv
<1> QED
    BY <1>1, <1>2, <1>9

\* When a column was pushed and the parser is behind it, it is at the next one.
LEMMA ColumnPushed ==
    ASSUME EventInv, RowsInv, stage = "columns", Column <= Len(columns), UNCHANGED <<event, bitmaps, isOld, nulls, lines>>,
           NEW text, PushBack(text), stage' = "columns",
           pos' = ColumnStart(Image, Column + 1),
           presentPos' = Before(PresentIn(Image), Column + 1)
    PROVE  RowsInv'
<1>1. /\ PerRow' = PerRow /\ PresentParts' = PresentParts /\ cmd' = cmd
      /\ \A q : NullBytes(q)' = NullBytes(q) /\ PresentIn(q)' = PresentIn(q)
      /\ \A q, i : ColumnStart(q, i)' = ColumnStart(q, i)
    BY SamePlaces
<1>2. LineInv /\ nulls = NullBytes(Image)
    BY DEF RowsInv, InColumns
<1>3. LineInv' /\ Column' = Column + 1
    BY <1>2, PushIs
<1>4. Image' = Image
    BY <1>1 DEF Image
<1> DEFINE k == Image
           i == Column
<1> HIDE DEF k, i
<1>5. Image' = k /\ Column' = i + 1 /\ pos' = ColumnStart(k, i + 1) /\ presentPos' = Before(PresentIn(k), i + 1)
      /\ nulls' = NullBytes(k)
    BY <1>2, <1>3, <1>4 DEF k, i
<1>6. InColumns'
    <2>1. NullBytes(Image)' = NullBytes(k) /\ PresentIn(Image)' = PresentIn(k)
        BY <1>1, <1>5
    <2>2. ColumnStart(Image, Column)' = ColumnStart(k, i + 1)
        BY <1>1, <1>5
    <2>3. Before(PresentIn(Image), Column)' = Before(PresentIn(k), i + 1)
        BY <1>5, <2>1 DEF Before
    <2> QED
        BY <1>3, <1>5, <2>1, <2>2, <2>3 DEF InColumns
<1> QED
    BY <1>1, <1>6 DEF RowsInv

\* No row has been read.
LEMMA RowsInit == Init => RowsInv
<1> SUFFICES ASSUME Init PROVE RowsInv
    OBVIOUS
<1>1. lines = Empty /\ stage = "tablemap"
    BY DEF Init
<1>2. IsSeq(lines)
    BY <1>1, EmptyIsSeq DEF Empty
<1> QED
    BY <1>1, <1>2 DEF RowsInv

\* Behind the head the first row begins.
LEMMA HeadStep ==
    ASSUME EventInv, RowsInv, ParseRowHead, UNCHANGED event
    PROVE  RowsInv'
<1>1. stage = "head" /\ stage' = "rows" /\ lines' = lines
    BY DEF ParseRowHead
<1>2. lines = << >> /\ Len(lines) = 0 /\ IsSeq(lines)
    BY <1>1, EmptyIsSeq DEF RowsInv, Empty
<1>3. bitmaps' = [w \in 1..PerRow |-> PresentParts[w]] /\ pos' = ImageStart(1)
    BY RowHeadRead, ImagePlaces
<1>4. /\ PerRow' = PerRow /\ PresentParts' = PresentParts /\ images' = images
      /\ \A k : ImageStart(k)' = ImageStart(k)
    BY SamePlaces
<1>5. PerRow \in {1, 2} /\ Len(images) \in Nat
    BY PerRowIs, SeqFacts DEF EventInv
<1>6. Len(lines) * PerRow = 0 /\ 0 + 1 = 1 /\ 0 <= Len(images)
    BY <1>2, <1>5
<1>7. InRows'
    <2>1. Len(lines') * PerRow' = 0
        BY <1>1, <1>4, <1>6
    <2>2. Len(lines') * PerRow' + 1 = 1
        BY <2>1
    <2>3. ImageStart(Len(lines) * PerRow + 1)' = ImageStart(1)
        BY <1>4, <2>2
    <2> QED
        BY <1>3, <1>4, <1>6, <2>1, <2>3 DEF InRows
<1> QED
    BY <1>1, <1>2, <1>3, <1>4, <1>7 DEF RowsInv

\* A row begins with its first image.
LEMMA BeginRowStep ==
    ASSUME EventInv, RowsInv, BeginRow, UNCHANGED event
    PROVE  RowsInv' /\ \E k \in 1..Len(images) : nulls' = NullBytes(k)
<1> DEFINE l == Len(lines)
           old == cmd \in Updates
<1>1. /\ stage = "rows" /\ pos < Len(rowBuf) /\ UNCHANGED <<bitmaps, lines>>
      /\ line' = [old |-> << >>, new |-> << >>] /\ BeginImage(old)
    BY DEF BeginRow, Empty
<1>2. /\ IsSeq(lines) /\ bitmaps = [w \in 1..PerRow |-> PresentParts[w]]
      /\ l * PerRow <= Len(images) /\ pos = ImageStart(l * PerRow + 1)
    BY <1>1 DEF RowsInv, InRows
<1>3. /\ l \in Nat /\ PerRow \in {1, 2} /\ Len(images) \in Nat /\ Len(columns) \in Nat
      /\ \E m \in Nat : Len(images) = m * PerRow
    BY <1>2, SeqFacts, PerRowIs DEF EventInv
<1>4. Len(rowBuf) = ImageStart(Len(images) + 1) /\ Len(rowBuf) \in Nat
    BY ImagePlaces, RowBytesAre
<1>5. l * PerRow # Len(images)
    BY <1>1, <1>2, <1>4
<1>6. (l + 1) * PerRow <= Len(images)
    <2>1. PICK m \in Nat : Len(images) = m * PerRow
        BY <1>3
    <2>2. CASE PerRow = 1
        BY <1>2, <1>3, <1>5, <2>1, <2>2
    <2>3. CASE PerRow = 2
        BY <1>2, <1>3, <1>5, <2>1, <2>3
    <2> QED
        BY <1>3, <2>2, <2>3
<1>7. Which(old) = 1
    BY DEF Which
<1>8. line'.old = << >> /\ line'.new = << >> /\ line' = [old |-> line'.old, new |-> line'.new]
    BY <1>1
<1>9. IsSeq(line'.old) /\ IsSeq(line'.new) /\ Len(line'.old) = 0 /\ Len(line'.new) = 0
    BY <1>8, EmptyIsSeq
<1>10. old \in BOOLEAN /\ (old => cmd \in Updates)
    OBVIOUS
<1>11. pos = ImageStart(Len(lines) * PerRow + Which(old)) /\ Len(line'.old) <= Len(columns)
    BY <1>2, <1>3, <1>7, <1>9
<1> HIDE DEF old
<1> QED
    BY <1>1, <1>2, <1>6, <1>8, <1>9, <1>10, <1>11, ImageBegun

\* Behind the last column of an image the next one begins.
LEMMA ImageEnd ==
    ASSUME EventInv, RowsInv, stage = "columns", Column > Len(columns)
    PROVE  /\ LineInv /\ IsSeq(lines)
           /\ pos = ImageStart(Len(lines) * PerRow + Which(isOld) + 1)
           /\ Len(lines) \in Nat /\ PerRow \in {1, 2}
           /\ Len(Pushed) = Len(columns)
<1>1. LineInv /\ pos = ColumnStart(Image, Column) /\ IsSeq(lines)
    BY DEF RowsInv, InColumns
<1>2. /\ IsSeq(line.old) /\ IsSeq(line.new) /\ isOld \in BOOLEAN /\ (isOld => cmd \in Updates)
      /\ Len(line.old) <= Len(columns) /\ Len(line.new) <= Len(columns)
      /\ (Len(lines) + 1) * PerRow <= Len(images)
    BY <1>1 DEF LineInv
<1>3. Len(line.old) \in Nat /\ Len(line.new) \in Nat /\ Len(columns) \in Nat /\ Len(lines) \in Nat
    BY <1>1, <1>2, SeqFacts, SMTT(20) DEF EventInv
<1>4. Column = Len(columns) + 1 /\ Len(Pushed) = Len(columns)
    BY <1>2, <1>3 DEF Column, Pushed
<1>5. Image = Len(lines) * PerRow + Which(isOld)
    BY ImageOfLine
<1>6. Image \in 1..Len(images)
    BY <1>1, <1>2, <1>5, ImageIs
<1>7. pos = ImageStart(Image + 1)
    BY <1>1, <1>4, <1>6, ColumnPlaces
<1> QED
    BY <1>1, <1>3, <1>4, <1>5, <1>7, PerRowIs

\* Behind the old image of an update is its new one.
LEMMA EndOldStep ==
    ASSUME EventInv, RowsInv, EndOld, UNCHANGED event
    PROVE  RowsInv' /\ \E k \in 1..Len(images) : nulls' = NullBytes(k)
<1>1. /\ stage = "columns" /\ Column > Len(columns) /\ isOld /\ BeginImage(FALSE)
      /\ UNCHANGED <<bitmaps, lines, line>>
    BY DEF EndOld
<1>2. /\ LineInv /\ IsSeq(lines)
      /\ pos = ImageStart(Len(lines) * PerRow + Which(isOld) + 1)
      /\ Len(lines) \in Nat /\ PerRow \in {1, 2}
    BY <1>1, ImageEnd
<1>3. /\ cmd \in Updates /\ IsSeq(line.old) /\ IsSeq(line.new)
      /\ line = [old |-> line.old, new |-> line.new]
      /\ Len(line.old) <= Len(columns) /\ Len(line.new) = 0
      /\ (Len(lines) + 1) * PerRow <= Len(images)
    BY <1>1, <1>2 DEF LineInv
<1>4. bitmaps = [w \in 1..PerRow |-> PresentParts[w]]
    BY <1>1 DEF RowsInv
<1>5. Which(isOld) = 1 /\ Which(FALSE) = 2
    BY <1>1, <1>3 DEF Which
<1>6. pos = ImageStart(Len(lines) * PerRow + Which(FALSE))
    <2>1. Len(lines) * PerRow \in Nat
        BY <1>2
    <2>2. \A a \in Nat : a + 1 + 1 = a + 2
        OBVIOUS
    <2>3. Len(lines) * PerRow + Which(isOld) + 1 = Len(lines) * PerRow + Which(FALSE)
        BY <1>5, <2>1, <2>2
    <2> QED
        BY <1>2, <2>3
<1>7. /\ line'.old = line.old /\ line'.new = line.new
      /\ line' = [old |-> line'.old, new |-> line'.new]
    BY <1>1, <1>3
<1>8. FALSE \in BOOLEAN /\ (FALSE => cmd \in Updates) /\ (FALSE => Len(line'.old) = 0)
    OBVIOUS
<1>9. IsSeq(line'.old) /\ IsSeq(line'.new) /\ Len(line'.old) <= Len(columns) /\ Len(line'.new) = 0
    BY <1>3, <1>7
<1>10. UNCHANGED <<event, bitmaps, lines>>
    BY <1>1
<1> QED
    BY <1>1, <1>2, <1>3, <1>4, <1>6, <1>7, <1>8, <1>9, <1>10, ImageBegun

\* Behind the last image of a row the next row begins, or the event ends.
LEMMA EndRowStep ==
    ASSUME EventInv, RowsInv, EndRow, UNCHANGED event
    PROVE  RowsInv'
<1>1. /\ stage = "columns" /\ Column > Len(columns) /\ ~isOld /\ lines' = Append(lines, line)
      /\ stage' = "rows" /\ UNCHANGED <<pos, bitmaps>>
    BY DEF EndRow
<1>2. /\ LineInv /\ IsSeq(lines)
      /\ pos = ImageStart(Len(lines) * PerRow + Which(isOld) + 1)
      /\ Len(lines) \in Nat /\ PerRow \in {1, 2}
    BY <1>1, ImageEnd
<1>3. IsSeq(lines') /\ Len(lines') = Len(lines) + 1
    <2>1. lines' = lines \o <<line>>
        BY <1>1, <1>2 DEF IsSeq
    <2> DEFINE t == <<line>>
    <2>2. IsSeq(t) /\ Len(t) = 1
        BY SingleIsSeq
    <2>3. lines' = lines \o t
        BY <2>1
    <2> HIDE DEF t
    <2>4. IsSeq(lines \o t) /\ Len(lines \o t) = Len(lines) + Len(t)
        BY <1>2, <2>2, ConcatIsSeq
    <2> QED
        BY <2>2, <2>3, <2>4
<1>4. (Len(lines) + 1) * PerRow <= Len(images)
    BY <1>2 DEF LineInv
<1>5. Which(isOld) = PerRow
    BY <1>1 DEF Which, PerRow
<1>6. Len(lines) * PerRow + Which(isOld) + 1 = (Len(lines) + 1) * PerRow + 1
    <2>1. CASE PerRow = 1
        BY <1>2, <1>5, <2>1
    <2>2. CASE PerRow = 2
        BY <1>2, <1>5, <2>2
    <2> QED
        BY <1>2, <2>1, <2>2
<1>7. /\ PerRow' = PerRow /\ PresentParts' = PresentParts /\ images' = images
      /\ \A k : ImageStart(k)' = ImageStart(k)
    BY SamePlaces
<1>8. InRows'
    <2>1. Len(lines') * PerRow' = (Len(lines) + 1) * PerRow
        BY <1>3, <1>7
    <2>2. ImageStart(Len(lines) * PerRow + 1)' = ImageStart((Len(lines) + 1) * PerRow + 1)
        BY <1>7, <2>1
    <2>3. pos' = ImageStart((Len(lines) + 1) * PerRow + 1)
        BY <1>1, <1>2, <1>6
    <2>4. Len(lines') * PerRow' <= Len(images')
        BY <1>4, <1>7, <2>1
    <2> QED
        BY <2>2, <2>3, <2>4 DEF InRows
<1>9. bitmaps' = [w \in 1..PerRow' |-> PresentParts'[w]]
    BY <1>1, <1>7 DEF RowsInv
<1> QED
    BY <1>1, <1>3, <1>8, <1>9 DEF RowsInv

\* Each column is read at its place, whether it is absent, NULL or has a value.
LEMMA PushStep ==
    ASSUME EventInv, MetasInv, RowsInv, PushAbsent \/ PushNull \/ PushValue, UNCHANGED event
    PROVE  RowsInv'
<1> DEFINE k == Image
           i == Column
           P == PresentIn(k)
<1>1. InImage /\ stage = "columns" /\ i <= Len(columns) /\ UNCHANGED <<bitmaps, nulls, isOld, lines>>
    BY DEF PushAbsent, PushNull, PushValue, HasValue, InImage
<1>2. /\ k \in 1..Len(images) /\ i \in 1..Len(columns)
      /\ Present <=> i \in P
      /\ i \in P => (GetBit(nulls, presentPos) <=> IsNull(k, i))
      /\ Reads(rowBuf, pos, Field(k, i))
      /\ ColumnStart(k, i + 1) = pos + Len(Field(k, i))
      /\ Before(P, i + 1) = IF i \in P THEN presentPos + 1 ELSE presentPos
    BY <1>1, NextColumn
<1>3. pos \in Nat
    BY <1>2, ReadsFacts
<1>4. i \notin P \/ IsNull(k, i) => ColumnStart(k, i + 1) = pos
    <2> SUFFICES ASSUME i \notin P \/ IsNull(k, i) PROVE ColumnStart(k, i + 1) = pos
        OBVIOUS
    <2>1. Field(k, i) = << >>
        BY <1>2, FieldIs
    <2>2. Len(Field(k, i)) = 0
        BY <2>1, EmptyIsSeq
    <2> QED
        BY <1>2, <1>3, <2>2
<1>5. ASSUME NEW text, PushBack(text), stage' = "columns", pos' = ColumnStart(k, i + 1),
             presentPos' = Before(P, i + 1)
      PROVE  RowsInv'
    BY <1>1, <1>5, ColumnPushed
<1>6. CASE PushAbsent
    <2>1. ~Present /\ PushBack(Empty) /\ UNCHANGED <<stage, pos, presentPos>>
        BY <1>6 DEF PushAbsent
    <2>2. pos' = ColumnStart(k, i + 1) /\ presentPos' = Before(P, i + 1) /\ stage' = "columns"
        BY <1>1, <1>2, <1>4, <2>1
    <2> HIDE DEF k, i, P
    <2> QED
        BY <1>5, <2>1, <2>2
<1>7. CASE PushNull
    <2>1. /\ Present /\ GetBit(nulls, presentPos) /\ PushBack(Empty) /\ presentPos' = presentPos + 1
          /\ UNCHANGED <<stage, pos>>
        BY <1>7 DEF PushNull
    <2>2. pos' = ColumnStart(k, i + 1) /\ presentPos' = Before(P, i + 1) /\ stage' = "columns"
        BY <1>1, <1>2, <1>4, <2>1
    <2> HIDE DEF k, i, P
    <2> QED
        BY <1>5, <2>1, <2>2
<1>8. CASE PushValue
    <2> DEFINE value == ParseColumnValue(rowBuf, pos, types[i], metas[i])
    <2>1. /\ Present /\ ~GetBit(nulls, presentPos) /\ presentPos' = presentPos + 1
          /\ pos' = pos + value.size /\ PushBack(value.text)
          /\ stage' = IF Readable(columns[i]) THEN "columns" ELSE "lost"
        BY <1>8 DEF PushValue, HasValue, PushColumn
    <2>2. CASE Readable(columns[i])
        <3>1. pos + value.size = ColumnStart(k, i + 1)
            BY <1>1, <1>2, <2>1, <2>2, ValuePassed
        <3>2. pos' = ColumnStart(k, i + 1) /\ presentPos' = Before(P, i + 1) /\ stage' = "columns"
            BY <1>2, <2>1, <2>2, <3>1
        <3> HIDE DEF k, i, P, value
        <3> QED
            BY <1>5, <2>1, <3>2
    <2>3. CASE ~Readable(columns[i])
        <3>1. stage' = "lost" /\ lines' = lines /\ IsSeq(lines)
            BY <1>1, <2>1, <2>3 DEF RowsInv
        <3> QED
            BY <3>1 DEF RowsInv
    <2> QED
        BY <2>2, <2>3
<1> QED
    BY <1>6, <1>7, <1>8

\* So every step keeps the places.
LEMMA RowsStep ==
    ASSUME [Next]_vars, EventInv, MetasInv, RowsInv
    PROVE  RowsInv'
<1>1. UNCHANGED event
    BY EventStep
<1>2. CASE UNCHANGED vars
    <2>1. UNCHANGED <<stage, pos, bitmaps, nulls, presentPos, isOld, line, lines>>
        BY <1>2 DEF vars, image
    <2>2. /\ PerRow' = PerRow /\ PresentParts' = PresentParts
          /\ columns' = columns /\ images' = images /\ cmd' = cmd
          /\ \A q : NullBytes(q)' = NullBytes(q) /\ PresentIn(q)' = PresentIn(q)
          /\ \A q : ImageStart(q)' = ImageStart(q)
          /\ \A q, i : ColumnStart(q, i)' = ColumnStart(q, i)
        BY <1>1, SamePlaces
    <2>3. InRows' <=> InRows
        <3>1. ImageStart(Len(lines) * PerRow + 1)' = ImageStart(Len(lines) * PerRow + 1)
            BY <2>1, <2>2
        <3> QED
            BY <2>1, <2>2, <3>1 DEF InRows
    <2>4. LineInv' <=> LineInv
        BY <2>1, <2>2 DEF LineInv
    <2>5. InColumns' <=> InColumns
        <3>1. Image' = Image /\ Column' = Column
            BY <2>1, <2>2 DEF Image, Column, Pushed
        <3>2. NullBytes(Image)' = NullBytes(Image) /\ PresentIn(Image)' = PresentIn(Image)
            BY <2>2, <3>1
        <3>3. ColumnStart(Image, Column)' = ColumnStart(Image, Column)
            BY <2>2, <3>1
        <3>4. Before(PresentIn(Image), Column)' = Before(PresentIn(Image), Column)
            BY <3>1, <3>2 DEF Before
        <3> QED
            BY <2>1, <2>4, <3>2, <3>3, <3>4 DEF InColumns
    <2> QED
        BY <2>1, <2>2, <2>3, <2>5 DEF RowsInv
<1>3. CASE ParseTablemap \/ ReadMeta \/ EndTablemap
    <2>1. stage \in {"tablemap", "meta"} /\ stage' \in {"meta", "head"} /\ lines' = lines
        BY <1>3 DEF ParseTablemap, ReadMeta, EndTablemap
    <2> QED
        BY <2>1 DEF RowsInv
<1>4. CASE ParseRowHead
    BY <1>1, <1>4, HeadStep
<1>5. CASE BeginRow
    BY <1>1, <1>5, BeginRowStep
<1>6. CASE EndOld
    BY <1>1, <1>6, EndOldStep
<1>7. CASE EndRow
    BY <1>1, <1>7, EndRowStep
<1>8. CASE PushAbsent \/ PushNull \/ PushValue
    BY <1>1, <1>8, PushStep
<1>9. CASE StopImage \/ Abort
    <2>1. stage' \in {"lost", "aborted"} /\ lines' = lines
        BY <1>9 DEF StopImage, Abort
    <2> QED
        BY <2>1 DEF RowsInv
<1> QED
    BY <1>2, <1>3, <1>4, <1>5, <1>6, <1>7, <1>8, <1>9 DEF Next

\* The parser reads each column at the place where the server wrote it, and stops behind the
\* last row, whatever the types of the columns (but those after which it is lost), their
\* metadata and values, the nulls, and the columns that the first or the second image of a
\* row leaves out: ParseRow's pos and present_pos move on by what the server wrote.
THEOREM RowsAreAligned == Spec => []RowAligned
<1>1. Init => EventInv /\ MetasInv /\ RowsInv
    BY InitEvent, MetasInit, RowsInit
<1>2. EventInv /\ MetasInv /\ RowsInv /\ [Next]_vars => (EventInv /\ MetasInv /\ RowsInv)'
    BY EventStep, MetasStep, RowsStep
<1>3. EventInv /\ MetasInv /\ RowsInv => RowAligned
    <2> SUFFICES ASSUME EventInv, MetasInv, RowsInv PROVE RowAligned
        OBVIOUS
    <2>1. DOMAIN images = 1..Len(images) /\ Len(images) \in Nat /\ IsSeq(lines)
        BY SeqFacts DEF EventInv, RowsInv
    <2>2. ASSUME stage = "columns" PROVE Image \in DOMAIN images /\ pos = ColumnStart(Image, Column)
        <3>1. InColumns
            BY <2>2 DEF RowsInv
        <3>2. isOld \in BOOLEAN /\ (isOld => cmd \in Updates) /\ (Len(lines) + 1) * PerRow <= Len(images)
            BY <3>1 DEF InColumns, LineInv
        <3>3. Len(lines) * PerRow + Which(isOld) \in 1..Len(images)
            BY <2>1, <3>2, ImageIs
        <3>4. Image = Len(lines) * PerRow + Which(isOld)
            BY <2>2, ImageOfLine
        <3> QED
            BY <2>1, <3>1, <3>3, <3>4 DEF InColumns
    <2>3. ASSUME stage = "rows"
          PROVE  pos = IF Image \in DOMAIN images THEN ImageStart(Image) ELSE Len(rowBuf)
        <3>1. Len(lines) * PerRow <= Len(images) /\ pos = ImageStart(Len(lines) * PerRow + 1)
            BY <2>3 DEF RowsInv, InRows
        <3>2. Image = Len(lines) * PerRow + 1
            BY <2>3 DEF Image
        <3>3. Len(lines) * PerRow \in Nat
            BY <2>1, SeqFacts, PerRowIs
        <3>4. Image \notin DOMAIN images => Image = Len(images) + 1
            BY <2>1, <3>1, <3>2, <3>3
        <3>5. ImageStart(Len(images) + 1) = Len(rowBuf)
            BY ImagePlaces
        <3> QED
            BY <3>1, <3>2, <3>4, <3>5
    <2> QED
        BY <2>2, <2>3 DEF RowAligned
<1> QED
    BY <1>1, <1>2, <1>3, PTL DEF Spec

-----------------------------------------------------------------------------
(* Types.                                                                  *)

\* What RowsInv leaves open: the state before the first image, that of an image that is
\* finished, and what is left of one that the parser stopped in.
RestInv ==
    /\ stage \in {"tablemap", "meta", "head", "rows", "columns", "aborted", "lost"}
    /\ stage = "tablemap" => types = Empty /\ metaDef = Empty
    /\ stage \in {"tablemap", "meta", "head"} => pos = 0
    /\ Len(bitmaps) \in {0, PerRow}
    /\ nulls = Empty \/ \E k \in 1..Len(images) : nulls = NullBytes(k)
    /\ presentPos \in Nat /\ presentPos <= Len(columns)
    /\ isOld \in BOOLEAN
    /\ Len(line.old) <= Len(columns) /\ Len(line.new) <= Len(columns)
    /\ Len(lines) * PerRow <= Len(images)
    /\ stage = "aborted" => pos \in Nat /\ pos <= Len(rowBuf)

\* The rest of the types, at the beginning.
LEMMA RestInit == Init => RestInv
<1> SUFFICES ASSUME Init PROVE RestInv
    OBVIOUS
<1>1. /\ stage = "tablemap" /\ pos = 0 /\ types = Empty /\ metaDef = Empty /\ bitmaps = Empty /\ nulls = Empty
      /\ presentPos = 0 /\ isOld = FALSE /\ line.old = Empty /\ line.new = Empty /\ lines = Empty
    BY DEF Init
<1>2. Len(Empty) = 0
    BY EmptyIsSeq DEF Empty
<1>3. Len(columns) \in Nat /\ Len(images) \in Nat /\ PerRow \in {1, 2}
    BY InitEvent, SeqFacts, PerRowIs DEF EventInv
<1>4. Len(lines) * PerRow <= Len(images)
    BY <1>1, <1>2, <1>3
<1>5. Len(bitmaps) = 0 /\ Len(line.old) = 0 /\ Len(line.new) = 0 /\ 0 <= Len(columns)
    BY <1>1, <1>2, <1>3
<1>6. isOld \in BOOLEAN
    BY <1>1
<1> HIDE DEF Empty
<1> QED
    BY <1>1, <1>4, <1>5, <1>6 DEF RestInv

\* No step gives a variable a value of another type.
LEMMA RestStep ==
    ASSUME [Next]_vars, EventInv, MetasInv, RowsInv, RestInv
    PROVE  RestInv'
<1>1. /\ UNCHANGED event /\ RowsInv'
      /\ PerRow' = PerRow /\ columns' = columns /\ images' = images /\ rowBuf' = rowBuf
      /\ \A k : NullBytes(k)' = NullBytes(k)
    BY EventStep, RowsStep, SamePlaces
<1>2. Len(columns) \in Nat /\ Len(images) \in Nat /\ PerRow \in {1, 2} /\ Len(rowBuf) \in Nat
    BY SeqFacts, PerRowIs, RowBytesAre DEF EventInv
<1>3. UNCHANGED nulls => (nulls' = Empty \/ \E k \in 1..Len(images') : nulls' = NullBytes(k)')
    <2> SUFFICES ASSUME UNCHANGED nulls
                 PROVE  nulls' = Empty \/ \E k \in 1..Len(images') : nulls' = NullBytes(k)'
        OBVIOUS
    <2>1. CASE nulls = Empty
        BY <2>1
    <2>2. CASE nulls # Empty
        <3>1. PICK k \in 1..Len(images) : nulls = NullBytes(k)
            BY <2>2 DEF RestInv
        <3> QED
            BY <1>1, <3>1
    <2> QED
        BY <2>1, <2>2
<1>4. CASE UNCHANGED vars
    BY <1>1, <1>3, <1>4 DEF RestInv, vars, image, tablemap
<1>5. CASE ParseTablemap \/ ReadMeta \/ EndTablemap
    <2>1. /\ stage \in {"tablemap", "meta"} /\ stage' \in {"meta", "head"}
          /\ UNCHANGED <<pos, bitmaps, nulls, presentPos, isOld, line, lines>>
        BY <1>5 DEF ParseTablemap, ReadMeta, EndTablemap, image
    <2> QED
        BY <1>1, <1>3, <2>1 DEF RestInv
<1>6. CASE ParseRowHead
    <2>1. stage' = "rows" /\ UNCHANGED <<nulls, presentPos, isOld, line, lines>>
        BY <1>6 DEF ParseRowHead, image
    <2>2. Len(bitmaps') = PerRow
        <3>1. bitmaps' = [w \in 1..PerRow |-> PresentParts[w]]
            BY <1>6, RowHeadRead
        <3>2. PerRow \in Nat /\ bitmaps' = Prefix(PresentParts, PerRow)
            BY <1>2, <3>1 DEF Prefix
        <3> QED
            BY <3>2, PrefixFacts
    <2> QED
        BY <1>1, <1>3, <2>1, <2>2 DEF RestInv
<1>7. ASSUME BeginRow \/ EndOld PROVE RestInv'
    <2>1. stage' = "columns" /\ presentPos' = 0 /\ UNCHANGED <<bitmaps, lines>>
        BY <1>7 DEF BeginRow, EndOld, BeginImage
    <2>2. LineInv'
        BY <1>1, <2>1 DEF RowsInv, InColumns
    <2>3. PICK k \in 1..Len(images) : nulls' = NullBytes(k)
        BY <1>1, <1>7, BeginRowStep, EndOldStep
    <2>4. nulls' = NullBytes(k)'
        BY <1>1, <2>3
    <2> QED
        BY <1>1, <1>2, <2>1, <2>2, <2>3, <2>4 DEF RestInv, LineInv
<1>8. CASE EndRow
    <2>1. stage' = "rows" /\ UNCHANGED <<bitmaps, nulls, presentPos, isOld, line>>
        BY <1>8 DEF EndRow, image
    <2>2. InRows'
        BY <1>1, <2>1 DEF RowsInv
    <2> QED
        BY <1>1, <1>3, <2>1, <2>2 DEF RestInv, InRows
<1>9. CASE PushAbsent \/ PushNull \/ PushValue \/ Abort
    <2> DEFINE value == ParseColumnValue(rowBuf, pos, types[Column], metas[Column])
    <2>1. /\ stage = "columns" /\ Column <= Len(columns) /\ UNCHANGED <<bitmaps, nulls, isOld, lines>>
          /\ stage' \in {"columns", "lost", "aborted"}
        BY <1>9 DEF PushAbsent, PushNull, PushValue, Abort, HasValue, InImage
    <2>2. PICK text : PushBack(text)
        BY <1>9 DEF PushAbsent, PushNull, PushValue, Abort, PushColumn
    <2>3. LineInv
        BY <2>1 DEF RowsInv, InColumns
    <2>4. LineInv'
        BY <1>1, <2>1, <2>2, <2>3, PushIs
    <2>5. presentPos' \in Nat /\ presentPos' <= Len(columns)
        <3>1. /\ presentPos' = presentPos \/ (Present /\ presentPos' = presentPos + 1)
            BY <1>9 DEF PushAbsent, PushNull, PushValue, Abort, HasValue
        <3>2. /\ Present <=> Column \in PresentIn(Image)
              /\ presentPos \in Nat /\ presentPos <= Len(columns)
              /\ Column \in PresentIn(Image) => presentPos + 1 <= Len(columns)
            BY <2>1, NextColumn
        <3> QED
            BY <3>1, <3>2
    <2>6. stage' = "aborted" => pos' \in Nat /\ pos' <= Len(rowBuf)
        <3> SUFFICES ASSUME stage' = "aborted" PROVE pos' \in Nat /\ pos' <= Len(rowBuf)
            OBVIOUS
        <3>1. Abort
            BY <1>9, <2>1 DEF PushAbsent, PushNull, PushValue
        <3>2. Present /\ ~GetBit(nulls, presentPos) /\ types[Column] \in Aborting /\ pos' = pos + value.size
            BY <3>1 DEF Abort, HasValue, PushColumn
        <3>3. /\ Image \in 1..Len(images) /\ Column \in 1..Len(columns)
              /\ Column \in PresentIn(Image) /\ ~IsNull(Image, Column)
              /\ Reads(rowBuf, pos, Field(Image, Column))
              /\ ColumnStart(Image, Column + 1) = pos + Len(Field(Image, Column))
            BY <2>1, <3>2, NextColumn
        <3>4. types[Column] = columns[Column].type
            <4>1. types = TypeBytes /\ Column \in DOMAIN columns
                BY <2>1, <3>3, SeqFacts DEF MetasInv, EventInv
            <4> QED
                BY <4>1 DEF TypeBytes
        <3>5. columns[Column].type = T.NEWDECIMAL
            BY <3>2, <3>4 DEF Aborting
        <3>6. pos + value.size = ColumnStart(Image, Column + 1)
            BY <2>1, <3>3, <3>5, ValuePassed
        <3>7. pos \in Nat /\ Len(Field(Image, Column)) \in Nat /\ pos + Len(Field(Image, Column)) <= Len(rowBuf)
            BY <3>3, ReadsFacts
        <3>8. pos' = pos + Len(Field(Image, Column))
            BY <3>2, <3>3, <3>6
        <3> QED
            BY <3>7, <3>8
    <2> HIDE DEF value
    <2> QED
        BY <1>1, <1>3, <2>1, <2>4, <2>5, <2>6 DEF RestInv, LineInv
<1>10. CASE StopImage
    <2>1. stage' = "lost" /\ UNCHANGED <<bitmaps, nulls, presentPos, isOld, line, lines>>
        BY <1>10 DEF StopImage, HasValue, InImage
    <2> QED
        BY <1>1, <1>3, <2>1 DEF RestInv
<1> QED
    BY <1>4, <1>5, <1>6, <1>7, <1>8, <1>9, <1>10 DEF Next

\* What was read of the metadata.
LEMMA MetaPlace ==
    ASSUME EventInv, NEW k \in 0..Len(columns)
    PROVE  /\ Len(Metadata(k)) \in Nat /\ Len(Metadata(Len(columns))) \in Nat
           /\ Len(Metadata(k)) <= Len(Metadata(Len(columns)))
<1> DEFINE n == Len(columns)
<1>1. n \in Nat /\ \A i \in 1..n : IsSeq(MetaParts[i])
    BY TableFacts
<1>2. Len(Metadata(n)) \in Nat
    BY TableFacts
<1> HIDE DEF n
<1>3. CASE k = n
    BY <1>2, <1>3 DEF n
<1>4. CASE k # n
    <2>1. k + 1 \in 1..n /\ (k + 1) - 1 = k
        BY <1>1, <1>4 DEF n
    <2>2. Reads(FlattenSeq(Prefix(MetaParts, n)), Len(FlattenSeq(Prefix(MetaParts, (k + 1) - 1))), MetaParts[k + 1])
        BY <1>1, <2>1, FlattenReads
    <2>3. Reads(Metadata(n), Len(Metadata(k)), MetaParts[k + 1])
        BY <2>1, <2>2 DEF Metadata
    <2>4. /\ Len(Metadata(k)) \in Nat /\ Len(MetaParts[k + 1]) \in Nat
          /\ Len(Metadata(k)) + Len(MetaParts[k + 1]) <= Len(Metadata(n))
        BY <2>3, ReadsFacts
    <2> QED
        BY <1>2, <2>4 DEF n
<1> QED
    BY <1>3, <1>4

\* pos stays within the event.
LEMMA PlaceInEvent ==
    ASSUME EventInv, RowsInv, stage \in {"rows", "columns"}
    PROVE  pos \in Nat /\ pos <= Len(rowBuf)
<1>1. /\ Len(rowBuf) \in Nat /\ Len(images) \in Nat /\ PerRow \in {1, 2}
      /\ Len(columns) \in Nat /\ Len(lines) \in Nat
    BY SeqFacts, PerRowIs, RowBytesAre DEF EventInv, RowsInv
<1>2. ASSUME NEW k \in 1..Len(images) + 1
      PROVE  ImageStart(k) \in Nat /\ ImageStart(k) <= Len(rowBuf)
    <2>1. CASE k = Len(images) + 1
        BY <1>1, <2>1, ImagePlaces
    <2>2. CASE k # Len(images) + 1
        <3>1. k \in 1..Len(images)
            BY <1>1, <2>2
        <3>2. Reads(rowBuf, ImageStart(k), ImageBytes(k))
            BY <3>1, ImagePlaces
        <3>3. /\ ImageStart(k) \in Nat /\ Len(ImageBytes(k)) \in Nat
              /\ ImageStart(k) + Len(ImageBytes(k)) <= Len(rowBuf)
            BY <3>2, ReadsFacts
        <3> QED
            BY <1>1, <3>3
    <2> QED
        BY <2>1, <2>2
<1>3. CASE stage = "rows"
    <2>1. Len(lines) * PerRow <= Len(images) /\ pos = ImageStart(Len(lines) * PerRow + 1)
        BY <1>3 DEF RowsInv, InRows
    <2>2. Len(lines) * PerRow \in Nat
        BY <1>1
    <2>3. Len(lines) * PerRow + 1 \in 1..Len(images) + 1
        BY <1>1, <2>1, <2>2
    <2> QED
        BY <1>2, <2>1, <2>3
<1>4. CASE stage = "columns" /\ Column <= Len(columns)
    <2>1. Reads(rowBuf, pos, Field(Image, Column))
        BY <1>4, NextColumn
    <2>2. /\ pos \in Nat /\ Len(Field(Image, Column)) \in Nat
          /\ pos + Len(Field(Image, Column)) <= Len(rowBuf)
        BY <2>1, ReadsFacts
    <2> QED
        BY <1>1, <2>2
<1>5. CASE stage = "columns" /\ ~(Column <= Len(columns))
    <2>1. InColumns
        BY <1>5 DEF RowsInv
    <2>2. /\ isOld \in BOOLEAN /\ (isOld => cmd \in Updates) /\ (Len(lines) + 1) * PerRow <= Len(images)
          /\ IsSeq(line.old) /\ IsSeq(line.new)
        BY <2>1 DEF InColumns, LineInv
    <2>3. Column > Len(columns)
        <3>1. Len(line.old) \in Nat /\ Len(line.new) \in Nat
            BY <2>2, SeqFacts
        <3>2. Column \in Nat
            BY <3>1 DEF Column, Pushed
        <3> QED
            BY <1>1, <1>5, <3>2
    <2>4. pos = ImageStart(Len(lines) * PerRow + Which(isOld) + 1)
        BY <1>5, <2>3, ImageEnd
    <2>5. Len(lines) * PerRow + Which(isOld) \in 1..Len(images)
        BY <2>2, ImageIs DEF RowsInv
    <2>6. Len(lines) * PerRow + Which(isOld) + 1 \in 1..Len(images) + 1
        BY <1>1, <2>5
    <2> QED
        BY <1>2, <2>4, <2>6
<1> QED
    BY <1>3, <1>4, <1>5

\* The parser stays within the bytes of its events and the columns of its table, and pushes
\* no more texts than there are columns and no more lines than there are rows.
THEOREM TypesAreRight == Spec => []TypeOK
<1>1. Init => EventInv /\ MetasInv /\ RowsInv /\ RestInv
    BY InitEvent, MetasInit, RowsInit, RestInit
<1>2. EventInv /\ MetasInv /\ RowsInv /\ RestInv /\ [Next]_vars => (EventInv /\ MetasInv /\ RowsInv /\ RestInv)'
    BY EventStep, MetasStep, RowsStep, RestStep
<1>3. EventInv /\ MetasInv /\ RowsInv /\ RestInv => TypeOK
    <2> SUFFICES ASSUME EventInv, MetasInv, RowsInv, RestInv PROVE TypeOK
        OBVIOUS
    <2>1. /\ Len(columns) \in Nat /\ DOMAIN columns = 1..Len(columns)
          /\ IsSeq(TypeBytes) /\ Len(TypeBytes) = Len(columns)
        BY TableFacts
    <2>2. \A i \in 1..Len(columns) : Declared(columns[i])
        BY <2>1 DEF EventInv
    <2>3. Len(rowBuf) \in Nat
        BY RowBytesAre
    <2>4. pos \in 0..Len(rowBuf) \/ stage = "lost"
        <3>1. CASE stage \in {"tablemap", "meta", "head"}
            BY <2>3, <3>1 DEF RestInv
        <3>2. CASE stage \in {"rows", "columns"}
            BY <2>3, <3>2, PlaceInEvent
        <3>3. CASE stage = "aborted"
            BY <2>3, <3>3 DEF RestInv
        <3> QED
            BY <3>1, <3>2, <3>3 DEF RestInv
    <2>5. Len(types) \in {0, Len(columns)} /\ \A i \in DOMAIN types : IsByte(types[i])
        <3>1. CASE stage = "tablemap"
            <4>1. types = << >>
                BY <3>1 DEF RestInv, Empty
            <4>2. Len(types) = 0 /\ DOMAIN types = {}
                BY <4>1, EmptyIsSeq
            <4> QED
                BY <4>2
        <3>2. CASE stage # "tablemap"
            <4>1. types = TypeBytes
                BY <3>2 DEF MetasInv
            <4>2. ASSUME NEW i \in DOMAIN types PROVE IsByte(types[i])
                <5>1. i \in 1..Len(columns) /\ types[i] = columns[i].type
                    BY <2>1, <4>1 DEF TypeBytes
                <5>2. columns[i].type \in ServerTypes
                    BY <2>2, <5>1 DEF Declared
                <5> DEFINE type == columns[i].type
                <5>3. type \in {1, 2, 3, 4, 5, 7, 8, 9, 10, 11, 12, 13, 14, 15, 16, 17, 18, 19, 246, 252, 254, 255}
                    BY <5>2, TypeCodes DEF ServerTypes, PlainTypes
                <5> HIDE DEF type
                <5>4. IsByte(type)
                    BY <5>3, SMT DEF IsByte
                <5> QED
                    BY <5>1, <5>4 DEF type
            <4> QED
                BY <2>1, <4>1, <4>2
        <3> QED
            BY <3>1, <3>2
    <2>6. IsSeq(metas) /\ Len(metas) \in Nat /\ Len(metas) <= Len(columns) /\ DOMAIN metas = 1..Len(metas)
        BY SeqFacts DEF MetasInv
    <2>7. metaPos \in 0..Len(metaDef)
        <3>1. CASE stage = "tablemap"
            <4>1. metaPos = 0 /\ metaDef = << >>
                BY <3>1 DEF RestInv, MetasInv, Empty
            <4>2. Len(metaDef) = 0
                BY <4>1, EmptyIsSeq
            <4> QED
                BY <4>1, <4>2
        <3>2. CASE stage # "tablemap"
            <4>1. metaDef = Metadata(Len(columns)) /\ metaPos = Len(Metadata(Len(metas)))
                BY <3>2 DEF MetasInv
            <4>2. Len(metas) \in 0..Len(columns)
                BY <2>1, <2>6
            <4> QED
                BY <4>1, <4>2, MetaPlace
        <3> QED
            BY <3>1, <3>2
    <2>8. Len(metas) <= Len(types)
        <3>1. CASE stage = "tablemap"
            <4>1. metas = << >> /\ types = << >>
                BY <3>1 DEF MetasInv, RestInv, Empty
            <4> QED
                BY <4>1, EmptyIsSeq
        <3>2. CASE stage # "tablemap"
            BY <2>1, <2>6, <3>2 DEF MetasInv
        <3> QED
            BY <3>1, <3>2
    <2>9. ASSUME NEW i \in DOMAIN metas PROVE IsWord(metas[i])
        <3>1. i \in 1..Len(columns) /\ i \in 1..Len(metas)
            BY <2>1, <2>6
        <3>2. metas[i] = 0 \/ metas[i] = columns[i].meta
            BY <3>1 DEF MetasInv
        <3>3. IsWord(columns[i].meta)
            BY <2>2, <3>1 DEF Declared, IsWord
        <3>4. IsWord(0)
            BY SMT DEF IsWord
        <3> QED
            BY <3>2, <3>3, <3>4
    <2>10. ASSUME NEW i \in DOMAIN nulls PROVE IsByte(nulls[i])
        <3>1. nulls # << >>
            BY <2>10
        <3>2. PICK k \in 1..Len(images) : nulls = NullBytes(k)
            BY <3>1 DEF RestInv, Empty
        <3>3. /\ IsSeq(NullBytes(k))
              /\ \A b \in 1..Len(NullBytes(k)) : NullBytes(k)[b] \in Nat /\ NullBytes(k)[b] < 256
            BY NullBytesIs
        <3> QED
            BY <3>2, <3>3, SeqFacts DEF IsByte
    <2>11. presentPos \in 0..Len(columns)
        BY <2>1 DEF RestInv
    <2>12. /\ stage \in {"tablemap", "meta", "head", "rows", "columns", "aborted", "lost"}
           /\ Len(bitmaps) \in {0, PerRow} /\ isOld \in BOOLEAN
           /\ Len(line.old) <= Len(columns) /\ Len(line.new) <= Len(columns)
           /\ Len(lines) * PerRow <= Len(images)
        BY DEF RestInv
    <2> QED
        BY <2>4, <2>5, <2>7, <2>8, <2>9, <2>10, <2>11, <2>12 DEF TypeOK
<1> QED
    BY <1>1, <1>2, <1>3, PTL DEF Spec

=============================================================================
