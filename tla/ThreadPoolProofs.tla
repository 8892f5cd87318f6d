-------------------------- MODULE ThreadPoolProofs --------------------------
(***************************************************************************)
(* Proofs about ThreadPool, for any finite set of workers, any set of tasks *)
(* and any queue bound.                                                    *)
(***************************************************************************)
EXTENDS ThreadPool, FiniteSetTheorems, TLAPS

\* One notification: the wait set is as before if it was empty, and has lost
\* exactly one of its members otherwise.
LEMMA NotifyOneWakes ==
    ASSUME NEW set, NEW rest \in NotifyOne(set)
    PROVE  /\ rest \subseteq set
           /\ set = {} => rest = {}
           /\ set # {} => \E w \in set : rest = set \ {w}
BY DEF NotifyOne

\* The workers on their way to the queue can be counted.
LEMMA SeekingFinite ==
    /\ IsFiniteSet(Seeking)
    /\ Cardinality(Seeking) \in Nat
<1>1. Seeking \subseteq Workers
  BY DEF Seeking
<1> QED
  BY <1>1, PoolAssumption, FS_Subset, FS_CardinalityType

\* Type correctness of the pool: queued entries are tasks, a worker runs a task
\* or none, and only a worker without a task sleeps in take().
THEOREM PoolTypeCorrect == Spec => []TypeOK
<1>1. Init => TypeOK
  BY DEF Init, TypeOK
<1>2. TypeOK /\ [Next]_poolVars => TypeOK'
  <2> SUFFICES ASSUME TypeOK, [Next]_poolVars
               PROVE  TypeOK'
    OBVIOUS
  <2>1. ASSUME NEW t \in Tasks, Put(t)
        PROVE  TypeOK'
    <3>1. waiting' \subseteq waiting
      BY <2>1, NotifyOneWakes DEF Put
    <3> QED
      BY <2>1, <3>1 DEF TypeOK, Put
  <2>2. ASSUME NEW w \in Workers, Take(w)
        PROVE  TypeOK'
    BY <2>2 DEF TypeOK, Take, Seeking
  <2>3. ASSUME NEW w \in Workers, Wait(w)
        PROVE  TypeOK'
    BY <2>3 DEF TypeOK, Wait, Seeking
  <2>4. ASSUME NEW w \in Workers, SpuriousWake(w)
        PROVE  TypeOK'
    BY <2>4 DEF TypeOK, SpuriousWake
  <2>5. ASSUME NEW w \in Workers, Finish(w)
        PROVE  TypeOK'
    BY <2>5 DEF TypeOK, Finish
  <2>6. CASE UNCHANGED poolVars
    BY <2>6 DEF TypeOK, poolVars
  <2> QED
    BY <2>1, <2>2, <2>3, <2>4, <2>5, <2>6 DEF Next
<1> QED
  BY <1>1, <1>2, PTL DEF Spec

\* One step of the pool keeps it work conserving.  A put that meets a sleeping
\* worker adds one task and one awake worker; a take removes one of each; a
\* worker falls asleep only while the queue is empty.
LEMMA WorkConservingStep ==
    ASSUME TypeOK, WorkConserving, [Next]_poolVars
    PROVE  WorkConserving'
<1> USE DEF WorkConserving
<1>1. ASSUME NEW t \in Tasks, Put(t)
      PROVE  WorkConserving'
  <2> SUFFICES ASSUME waiting' # {}
               PROVE  Len(queue') <= Cardinality(Seeking')
    OBVIOUS
  <2>1. waiting # {}
    BY <1>1, NotifyOneWakes DEF Put
  <2>2. PICK w \in waiting : waiting' = waiting \ {w}
    BY <1>1, <2>1, NotifyOneWakes DEF Put
  <2>3. Seeking' = Seeking \cup {w}
    BY <1>1, <2>2 DEF Put, Seeking, TypeOK
  <2>4. w \notin Seeking
    BY <2>2 DEF Seeking
  <2>5. Cardinality(Seeking') = Cardinality(Seeking) + 1
    BY <2>3, <2>4, SeekingFinite, FS_AddElement
  <2>6. Len(queue') = Len(queue) + 1
    BY <1>1 DEF Put, TypeOK
  <2> QED
    BY <2>1, <2>5, <2>6, SeekingFinite DEF TypeOK
<1>2. ASSUME NEW w \in Workers, Take(w)
      PROVE  WorkConserving'
  <2>1. Seeking' = Seeking \ {w}
    <3>1. Head(queue) \in Tasks
      BY <1>2 DEF Take, TypeOK
    <3> QED
      BY <1>2, <3>1, PoolAssumption DEF Take, Seeking, TypeOK
  <2>2. Cardinality(Seeking') = Cardinality(Seeking) - 1
    BY <1>2, <2>1, SeekingFinite, FS_RemoveElement DEF Take
  <2>3. Len(queue') = Len(queue) - 1 /\ waiting' = waiting
    BY <1>2 DEF Take, TypeOK
  <2> QED
    BY <2>2, <2>3, SeekingFinite DEF TypeOK
<1>3. ASSUME NEW w \in Workers, Wait(w)
      PROVE  WorkConserving'
  <2>1. Len(queue') = 0
    BY <1>3 DEF Wait, TypeOK
  <2>2. Cardinality(Seeking') \in Nat
    <3>1. Seeking' \subseteq Seeking
      BY <1>3 DEF Wait, Seeking
    <3> QED
      BY <3>1, SeekingFinite, FS_Subset, FS_CardinalityType
  <2> QED
    BY <2>1, <2>2
<1>4. ASSUME NEW w \in Workers, SpuriousWake(w)
      PROVE  WorkConserving'
  <2>1. Seeking' = Seeking \cup {w} /\ w \notin Seeking
    BY <1>4 DEF SpuriousWake, Seeking, TypeOK
  <2>2. Cardinality(Seeking') = Cardinality(Seeking) + 1
    BY <2>1, SeekingFinite, FS_AddElement
  <2> QED
    BY <1>4, <2>2, SeekingFinite DEF SpuriousWake, TypeOK
<1>5. ASSUME NEW w \in Workers, Finish(w)
      PROVE  WorkConserving'
  <2>1. Seeking' = Seeking \cup {w} /\ w \notin Seeking
    BY <1>5 DEF Finish, Seeking, TypeOK
  <2>2. Cardinality(Seeking') = Cardinality(Seeking) + 1
    BY <2>1, SeekingFinite, FS_AddElement
  <2> QED
    BY <1>5, <2>2, SeekingFinite DEF Finish, TypeOK
<1>6. CASE UNCHANGED poolVars
  BY <1>6 DEF poolVars, Seeking
<1> QED
  BY <1>1, <1>2, <1>3, <1>4, <1>5, <1>6 DEF Next

\* For every number of workers and every load: while a worker sleeps in
\* take(), each queued task has an awake worker of its own.  The invariant is
\* inductive relative to the types alone.
THEOREM PoolWorkConserving == Spec => []WorkConserving
<1>1. Init => WorkConserving
  BY DEF Init, WorkConserving
<1>2. TypeOK /\ WorkConserving /\ [Next]_poolVars => WorkConserving'
  BY WorkConservingStep
<1> QED
  BY <1>1, <1>2, PoolTypeCorrect, PTL DEF Spec

=============================================================================
