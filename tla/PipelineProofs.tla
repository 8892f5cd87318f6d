--------------------------- MODULE PipelineProofs ---------------------------
(***************************************************************************)
(* Proofs about Pipeline, for any number of workers, sinks, values and rows. *)
(*                                                                         *)
(* Two inductive invariants carry everything.  OrderInv says that a sink's  *)
(* row in hand and its queue are consecutive row numbers that end at the    *)
(* parser's row; from it follow the order properties and the refinement of  *)
(* OrderedDelivery.  TaskInv counts the tasks that still have to pop a row. *)
(***************************************************************************)
EXTENDS Pipeline, FunctionTheorems, FiniteSetTheorems, SequenceTheorems, TLAPS

-----------------------------------------------------------------------------
(* Types.                                                                  *)

\* The types and what they rest on: a row in dispatch has a number.
TypeInv ==
    /\ TypeOK
    /\ pc # "parse" => produced > 0

\* The pool is well typed as long as only the parser and the sinks move.
LEMMA PoolTypeUnchanged ==
    ASSUME Pool!TypeOK, UNCHANGED poolVars
    PROVE  Pool!TypeOK'
BY DEF poolVars, Pool!TypeOK

\* Sinks are numbered from 1.
LEMMA SinkNumbers ==
    /\ 1 \in Sinks
    /\ \A s \in Sinks : s \in Nat /\ (s < NumSinks => s + 1 \in Sinks)
BY PipelineAssumption DEF Sinks

\* No step of the parser, of a worker or of a condition variable leaves the
\* types.
LEMMA TypeStep ==
    ASSUME TypeInv, [Next]_vars
    PROVE  TypeInv'
<1> USE DEF TypeInv, TypeOK
<1>1. CASE Dispatch
  <2>1. produced' \in 0..MaxLines /\ produced' > 0
    BY <1>1, PipelineAssumption DEF Dispatch
  <2> QED
    BY <1>1, <2>1, SinkNumbers, PoolTypeUnchanged DEF Dispatch, sinkVars, redisVars
<1>2. CASE PutLineData
  <2>1. produced \in 1..MaxLines /\ lines[item] \in Seq(1..MaxLines)
    BY <1>2, PipelineAssumption DEF PutLineData
  <2>2. Append(lines[item], produced) \in Seq(1..MaxLines)
    BY <2>1
  <2> QED
    BY <1>2, <2>2, PoolTypeUnchanged DEF PutLineData, redisVars
<1>3. CASE PutTask
  <2>1. Pool!TypeOK'
    BY <1>3 DEF PutTask, Pool!TypeOK, Pool!Put, Pool!NotifyOne
  <2> QED
    BY <1>3, <2>1, SinkNumbers DEF PutTask, sinkVars, redisVars
<1>4. ASSUME NEW w \in Workers, TakeTask(w)
      PROVE  TypeInv'
  <2>1. Pool!TypeOK'
    BY <1>4 DEF TakeTask, Pool!TypeOK, Pool!Take, Pool!Seeking
  <2> QED
    BY <1>4, <2>1 DEF TakeTask, parserVars, sinkVars, redisVars
<1>5. ASSUME NEW w \in Workers, AwaitTask(w)
      PROVE  TypeInv'
  <2>1. Pool!TypeOK'
    BY <1>5 DEF AwaitTask, Pool!TypeOK, Pool!Wait, Pool!Seeking
  <2> QED
    BY <1>5, <2>1 DEF AwaitTask, parserVars, sinkVars, redisVars
<1>6. ASSUME NEW w \in Workers, NEW s \in Sinks, PopLine(w, s)
      PROVE  TypeInv'
  <2>1. lines[s] \in Seq(1..MaxLines) /\ lines[s] # <<>>
    BY <1>6 DEF PopLine
  <2>2. Head(lines[s]) \in 1..MaxLines /\ Tail(lines[s]) \in Seq(1..MaxLines)
    BY <2>1, HeadTailProperties
  <2>3. Head(lines[s]) \in 0..MaxLines /\ 0 \in 0..NumValues
    BY <2>2, PipelineAssumption
  <2> QED
    BY <1>6, <2>2, <2>3, PoolTypeUnchanged DEF PopLine, parserVars, redisVars
<1>7. ASSUME NEW w \in Workers, NEW s \in Sinks, SendCommand(w, s)
      PROVE  TypeInv'
  <2>1. /\ sent \in [Sinks -> 0..NumValues]
        /\ sent[s] \in 0..NumValues
        /\ cur[s] \in 0..MaxLines
        /\ redis \in [Sinks -> [Values -> 0..MaxLines]]
        /\ failed \in [Sinks -> [Values -> 0..MaxLines]]
    OBVIOUS
  <2> HIDE DEF TypeInv, TypeOK
  <2>2. sent[s] + 1 \in Values /\ sent[s] + 1 \in 0..NumValues
    BY <1>7, <2>1, PipelineAssumption DEF SendCommand, Values
  <2> DEFINE v == sent[s] + 1
  <2> HIDE DEF v
  <2>3. /\ [redis EXCEPT ![s][v] = cur[s]] \in [Sinks -> [Values -> 0..MaxLines]]
        /\ [failed EXCEPT ![s][v] = cur[s]] \in [Sinks -> [Values -> 0..MaxLines]]
    <3>1. v \in Values
      BY <2>2 DEF v
    <3> QED
      BY <2>1, <3>1
  <2>4. /\ redis' \in [Sinks -> [Values -> 0..MaxLines]]
        /\ failed' \in [Sinks -> [Values -> 0..MaxLines]]
    BY <1>7, <2>1, <2>3 DEF SendCommand, v
  <2>5. sent' \in [Sinks -> 0..NumValues]
    BY <1>7, <2>1, <2>2 DEF SendCommand
  <2> USE DEF TypeInv, TypeOK
  <2> QED
    BY <1>7, <2>4, <2>5, PoolTypeUnchanged DEF SendCommand, parserVars
<1>8. ASSUME NEW w \in Workers, NEW s \in Sinks, FinishLine(w, s)
      PROVE  TypeInv'
  <2>1. Pool!TypeOK'
    BY <1>8 DEF FinishLine, Pool!TypeOK, Pool!Finish
  <2> QED
    BY <1>8, <2>1 DEF FinishLine, parserVars, redisVars
<1>9. ASSUME NEW w \in Workers, SpuriousWake(w)
      PROVE  TypeInv'
  <2>1. Pool!TypeOK'
    BY <1>9 DEF SpuriousWake, Pool!TypeOK, Pool!SpuriousWake
  <2> QED
    BY <1>9, <2>1 DEF SpuriousWake, parserVars, sinkVars, redisVars
<1>10. CASE UNCHANGED vars
  BY <1>10, PoolTypeUnchanged DEF vars, parserVars, sinkVars, redisVars
<1> QED
  BY <1>1, <1>2, <1>3, <1>4, <1>5, <1>6, <1>7, <1>8, <1>9, <1>10
     DEF Next, ParserStep, WorkerStep, SendStep

\* Type correctness of the whole path from the parser to the sinks.
THEOREM PipelineTypeCorrect == Spec => []TypeOK
<1>1. Init => TypeInv
  BY PipelineAssumption
     DEF Init, TypeInv, TypeOK, Sinks, Values, Pool!Init, Pool!TypeOK
<1>2. TypeInv /\ [Next]_vars => TypeInv'
  BY TypeStep
<1>3. TypeInv => TypeOK
  BY DEF TypeInv
<1> QED
  BY <1>1, <1>2, <1>3, PTL DEF Spec

-----------------------------------------------------------------------------
(* Order.                                                                  *)

\* The pool's own steps do not concern the order of the rows.
LEMMA OrderUnchanged ==
    ASSUME OrderInv, TypeOK', UNCHANGED <<parserVars, sinkVars, redisVars>>
    PROVE  OrderInv'
BY DEF OrderInv, parserVars, sinkVars, redisVars, IdleIsComplete, RowsConsecutive,
       AcceptedInOrder, HasRow, FieldsFollowRows

\* The parser starts a row when every sink has all the rows before it.
LEMMA OrderDispatch ==
    ASSUME OrderInv, TypeOK', Dispatch
    PROVE  OrderInv'
<1>1. AcceptedInOrder'
  <2>1. produced \in Nat /\ produced' = produced + 1 /\ pc = "parse" /\ pc' = "putLine" /\ item' = 1
    BY DEF Dispatch, OrderInv, TypeOK
  <2>2. \A s \in Sinks : HasRow(s) /\ ~HasRow(s)'
    BY <2>1, SinkNumbers, PipelineAssumption DEF HasRow, Sinks
  <2>3. \A s \in Sinks : cur[s] + Len(lines[s]) = produced
    BY <2>2 DEF OrderInv, AcceptedInOrder
  <2> QED
    BY <2>1, <2>2, <2>3 DEF AcceptedInOrder, Dispatch, sinkVars
<1> QED
  BY <1>1 DEF OrderInv, Dispatch, sinkVars, redisVars, IdleIsComplete, RowsConsecutive,
              FieldsFollowRows

\* The row appended to a sink's queue is the one after the last it accepted.
LEMMA OrderPutLineData ==
    ASSUME OrderInv, TypeOK', PutLineData
    PROVE  OrderInv'
<1>1. /\ item \in Sinks /\ item \in Nat
      /\ produced \in 1..MaxLines
      /\ lines \in [Sinks -> Seq(1..MaxLines)] /\ lines[item] \in Seq(1..MaxLines)
      /\ cur \in [Sinks -> 0..MaxLines]
      /\ pc = "putLine" /\ pc' = "putTask" /\ item' = item /\ produced' = produced
      /\ lines' = [lines EXCEPT ![item] = Append(lines[item], produced)]
      /\ cur' = cur
  BY SinkNumbers, PipelineAssumption DEF PutLineData, OrderInv, TypeOK, AcceptedInOrder
<1>2. cur[item] + Len(lines[item]) = produced - 1
  BY <1>1 DEF OrderInv, AcceptedInOrder, HasRow
<1>3. /\ Len(lines'[item]) = Len(lines[item]) + 1
      /\ \A i \in 1..Len(lines[item]) : lines'[item][i] = lines[item][i]
      /\ lines'[item][Len(lines[item]) + 1] = produced
  BY <1>1, AppendProperties
<1>4. \A s \in Sinks : s # item => lines'[s] = lines[s]
  BY <1>1
<1>5. cur[item] \in Nat /\ Len(lines[item]) \in Nat /\ produced \in Nat /\ cur'[item] = cur[item]
  BY <1>1, PipelineAssumption
<1>6. RowsConsecutive'
  <2> SUFFICES ASSUME NEW s \in Sinks, NEW i \in 1..Len(lines'[s])
               PROVE  lines'[s][i] = cur[s] + i
    BY <1>1 DEF RowsConsecutive
  <2>1. CASE s # item
    BY <2>1, <1>4 DEF OrderInv, RowsConsecutive
  <2>2. CASE s = item /\ i \in 1..Len(lines[item])
    BY <2>2, <1>3 DEF OrderInv, RowsConsecutive
  <2>3. CASE s = item /\ i = Len(lines[item]) + 1
    <3>1. produced = cur[item] + (Len(lines[item]) + 1)
      BY <1>2, <1>5, SMTT(30)
    <3> QED
      BY <2>3, <3>1, <1>3
  <2> QED
    BY <2>1, <2>2, <2>3, <1>3, <1>5
<1>7. AcceptedInOrder'
  <2>1. \A s \in Sinks : s # item => (HasRow(s)' <=> HasRow(s))
    BY <1>1 DEF HasRow
  <2>2. \A s \in Sinks : s = item => HasRow(s)'
    BY <1>1 DEF HasRow
  <2>3. \A s \in Sinks : s # item =>
            cur'[s] + Len(lines'[s]) = IF HasRow(s)' THEN produced' ELSE produced' - 1
    BY <2>1, <1>1, <1>4 DEF OrderInv, AcceptedInOrder
  <2>4. cur[item] + (Len(lines[item]) + 1) = produced
    BY <1>2, <1>5
  <2>5. cur'[item] + Len(lines'[item]) = produced'
    BY <2>4, <1>1, <1>3, <1>5
  <2>6. produced' > 0
    BY <1>1
  <2>7. \A s \in Sinks :
            cur'[s] + Len(lines'[s]) = IF HasRow(s)' THEN produced' ELSE produced' - 1
    BY <2>2, <2>3, <2>5
  <2> QED
    BY <2>6, <2>7 DEF AcceptedInOrder
<1> QED
  BY <1>6, <1>7 DEF OrderInv, PutLineData, redisVars, IdleIsComplete, FieldsFollowRows

\* The next sink's turn, or the next row's: every sink up to item has the row.
LEMMA OrderPutTask ==
    ASSUME OrderInv, TypeOK', PutTask
    PROVE  OrderInv'
<1>1. \A s \in Sinks : HasRow(s)' <=> HasRow(s)
  <2>1. item \in Sinks /\ pc = "putTask"
    BY DEF PutTask, OrderInv, TypeOK
  <2>2. CASE item < NumSinks
    BY <2>1, <2>2, SinkNumbers DEF PutTask, HasRow
  <2>3. CASE ~(item < NumSinks)
    BY <2>1, <2>3, PipelineAssumption DEF PutTask, HasRow, Sinks
  <2> QED
    BY <2>2, <2>3
<1>2. AcceptedInOrder'
  BY <1>1 DEF PutTask, OrderInv, AcceptedInOrder, sinkVars
<1> QED
  BY <1>2 DEF OrderInv, PutTask, sinkVars, redisVars, IdleIsComplete, RowsConsecutive,
              FieldsFollowRows

\* A worker takes in hand the row after the last one.
LEMMA OrderPopLine ==
    ASSUME OrderInv, TypeOK', NEW w \in Workers, NEW s \in Sinks, PopLine(w, s)
    PROVE  OrderInv'
<1>1. /\ lines \in [Sinks -> Seq(1..MaxLines)] /\ lines[s] \in Seq(1..MaxLines)
      /\ cur \in [Sinks -> 0..MaxLines] /\ cur[s] \in Nat
      /\ owner \in [Sinks -> Workers \cup {NoWorker}]
      /\ sent \in [Sinks -> 0..NumValues]
      /\ lines[s] # <<>> /\ owner[s] = NoWorker
      /\ lines' = [lines EXCEPT ![s] = Tail(lines[s])]
      /\ cur' = [cur EXCEPT ![s] = Head(lines[s])]
      /\ owner' = [owner EXCEPT ![s] = w]
      /\ sent' = [sent EXCEPT ![s] = 0]
      /\ UNCHANGED <<pc, item, produced, redis, failed>>
  BY PipelineAssumption DEF PopLine, OrderInv, TypeOK, parserVars, redisVars
<1>2. Len(lines[s]) \in Nat \ {0} /\ Head(lines[s]) = lines[s][1]
  BY <1>1, EmptySeq
<1>3. cur'[s] = cur[s] + 1
  BY <1>1, <1>2 DEF OrderInv, RowsConsecutive
<1>4. /\ Len(lines'[s]) = Len(lines[s]) - 1
      /\ \A i \in 1..Len(lines'[s]) : lines'[s][i] = lines[s][i + 1]
  BY <1>1, HeadTailProperties
<1>5. \A t \in Sinks : t # s => /\ lines'[t] = lines[t] /\ cur'[t] = cur[t]
                                /\ owner'[t] = owner[t] /\ sent'[t] = sent[t]
  BY <1>1
<1>6. IdleIsComplete'
  <2>1. owner'[s] = w /\ w # NoWorker
    BY <1>1, PipelineAssumption
  <2> QED
    BY <2>1, <1>1, <1>3, <1>5 DEF OrderInv, IdleIsComplete
<1>7. RowsConsecutive'
  <2> SUFFICES ASSUME NEW t \in Sinks, NEW i \in 1..Len(lines'[t])
               PROVE  lines'[t][i] = cur'[t] + i
    BY DEF RowsConsecutive
  <2>1. CASE t # s
    BY <2>1, <1>5 DEF OrderInv, RowsConsecutive
  <2>2. CASE t = s
    <3>1. i + 1 \in 1..Len(lines[s]) /\ i \in Nat
      BY <2>2, <1>2, <1>4
    <3>2. lines[s][i + 1] = cur[s] + (i + 1)
      BY <3>1 DEF OrderInv, RowsConsecutive
    <3> QED
      BY <2>2, <3>1, <3>2, <1>1, <1>3, <1>4
  <2> QED
    BY <2>1, <2>2
<1>8. AcceptedInOrder'
  <2>1. \A t \in Sinks : cur'[t] + Len(lines'[t]) = cur[t] + Len(lines[t])
    BY <1>1, <1>2, <1>3, <1>4, <1>5
  <2>2. \A t \in Sinks : HasRow(t)' <=> HasRow(t)
    BY <1>1 DEF HasRow
  <2> QED
    BY <2>1, <2>2, <1>1 DEF OrderInv, AcceptedInOrder
<1>9. FieldsFollowRows'
  <2>1. sent[s] = NumValues /\ sent'[s] = 0
    BY <1>1 DEF OrderInv, IdleIsComplete
  <2>2. cur'[s] - 1 = cur[s]
    <3>1. cur[s] \in Nat
      BY <1>1
    <3> QED
      BY <3>1, <1>3
  <2>3. \A v \in Values : v <= NumValues /\ ~(v <= 0)
    BY PipelineAssumption DEF Values
  <2> QED
    BY <2>1, <2>2, <2>3, <1>1, <1>5 DEF OrderInv, FieldsFollowRows
<1> QED
  BY <1>6, <1>7, <1>8, <1>9 DEF OrderInv

\* A command concerns one field of the row in hand.
LEMMA OrderSendCommand ==
    ASSUME OrderInv, TypeOK', NEW w \in Workers, NEW s \in Sinks, SendCommand(w, s)
    PROVE  OrderInv'
<1> DEFINE f == sent[s] + 1
<1>1. /\ owner[s] = w /\ w # NoWorker
      /\ sent \in [Sinks -> 0..NumValues] /\ sent[s] \in Nat /\ sent[s] < NumValues
      /\ redis \in [Sinks -> [Values -> 0..MaxLines]]
      /\ failed \in [Sinks -> [Values -> 0..MaxLines]]
      /\ cur \in [Sinks -> 0..MaxLines] /\ cur[s] \in Nat
      /\ sent' = [sent EXCEPT ![s] = f]
      /\ UNCHANGED <<pc, item, produced, lines, owner, cur>>
  BY PipelineAssumption, SMTT(30) DEF SendCommand, OrderInv, TypeOK, parserVars
<1>2. f \in Values /\ f \in Nat
  BY <1>1, PipelineAssumption DEF Values
<1> HIDE DEF f
<1>3. \/ redis' = [redis EXCEPT ![s][f] = cur[s]] /\ failed' = failed
      \/ failed' = [failed EXCEPT ![s][f] = cur[s]] /\ redis' = redis
  BY DEF SendCommand, f
<1>4. IdleIsComplete' /\ RowsConsecutive' /\ AcceptedInOrder'
  BY <1>1 DEF OrderInv, IdleIsComplete, RowsConsecutive, AcceptedInOrder, HasRow
<1>5. FieldsFollowRows'
  <2> SUFFICES ASSUME NEW t \in Sinks, NEW v \in Values
               PROVE  LET attempted == IF v <= sent'[t] THEN cur'[t] ELSE cur'[t] - 1
                      IN  /\ redis'[t][v] <= attempted /\ failed'[t][v] <= attempted
                          /\ attempted > 0 => attempted \in {redis'[t][v], failed'[t][v]}
    BY DEF FieldsFollowRows
  <2>1. CASE t # s
    <3>1. /\ redis'[t] = redis[t] /\ failed'[t] = failed[t]
          /\ sent'[t] = sent[t] /\ cur'[t] = cur[t]
      BY <2>1, <1>1, <1>3
    <3> QED
      BY <3>1 DEF OrderInv, FieldsFollowRows
  <2>2. CASE t = s /\ v # f
    <3>1. redis'[t][v] = redis[t][v] /\ failed'[t][v] = failed[t][v] /\ cur'[t] = cur[t]
      BY <2>2, <1>1, <1>2, <1>3
    <3>2. v <= sent'[t] <=> v <= sent[t]
      <4>1. v \in Nat /\ sent'[s] = sent[s] + 1
        BY <1>1, PipelineAssumption DEF Values, f
      <4> QED
        BY <4>1, <2>2, <1>1 DEF f
    <3> QED
      BY <3>1, <3>2 DEF OrderInv, FieldsFollowRows
  <2>3. CASE t = s /\ v = f
    <3>1. v <= sent'[t] /\ ~(v <= sent[t]) /\ cur'[t] = cur[t]
      BY <2>3, <1>1, <1>2 DEF f
    <3>2. redis[t][v] <= cur[t] - 1 /\ failed[t][v] <= cur[t] - 1
      BY <2>3, <3>1 DEF OrderInv, FieldsFollowRows
    <3>3. redis[t][v] \in Nat /\ failed[t][v] \in Nat /\ cur[t] \in Nat
      BY <2>3, <1>1, PipelineAssumption
    <3>4. \/ redis'[t][v] = cur[t] /\ failed'[t][v] = failed[t][v]
          \/ failed'[t][v] = cur[t] /\ redis'[t][v] = redis[t][v]
      BY <2>3, <1>1, <1>2, <1>3
    <3> QED
      BY <3>1, <3>2, <3>3, <3>4
  <2> QED
    BY <2>1, <2>2, <2>3
<1> QED
  BY <1>4, <1>5 DEF OrderInv

\* The mutex is released with all commands of the row done.
LEMMA OrderFinishLine ==
    ASSUME OrderInv, TypeOK', NEW w \in Workers, NEW s \in Sinks, FinishLine(w, s)
    PROVE  OrderInv'
<1>1. IdleIsComplete'
  BY DEF FinishLine, OrderInv, TypeOK, IdleIsComplete
<1> QED
  BY <1>1 DEF OrderInv, FinishLine, parserVars, redisVars, RowsConsecutive,
              AcceptedInOrder, HasRow, FieldsFollowRows

\* OrderInv is inductive.
LEMMA OrderStep ==
    ASSUME OrderInv, [Next]_vars
    PROVE  OrderInv'
<1>1. TypeOK'
  BY TypeStep DEF OrderInv, AcceptedInOrder, TypeInv
<1>2. CASE Dispatch
  BY <1>1, <1>2, OrderDispatch
<1>3. CASE PutLineData
  BY <1>1, <1>3, OrderPutLineData
<1>4. CASE PutTask
  BY <1>1, <1>4, OrderPutTask
<1>5. ASSUME NEW w \in Workers, TakeTask(w) \/ AwaitTask(w) \/ SpuriousWake(w)
      PROVE  OrderInv'
  BY <1>1, <1>5, OrderUnchanged DEF TakeTask, AwaitTask, SpuriousWake
<1>6. ASSUME NEW w \in Workers, NEW s \in Sinks, PopLine(w, s)
      PROVE  OrderInv'
  BY <1>1, <1>6, OrderPopLine
<1>7. ASSUME NEW w \in Workers, NEW s \in Sinks, SendCommand(w, s)
      PROVE  OrderInv'
  BY <1>1, <1>7, OrderSendCommand
<1>8. ASSUME NEW w \in Workers, NEW s \in Sinks, FinishLine(w, s)
      PROVE  OrderInv'
  BY <1>1, <1>8, OrderFinishLine
<1>9. CASE UNCHANGED vars
  BY <1>1, <1>9, OrderUnchanged DEF vars
<1> QED
  BY <1>2, <1>3, <1>4, <1>5, <1>6, <1>7, <1>8, <1>9
     DEF Next, ParserStep, WorkerStep, SendStep

\* Nothing is accepted, in hand or sent at the start.
LEMMA OrderInit == Init => OrderInv
<1> SUFFICES ASSUME Init PROVE OrderInv
  OBVIOUS
<1>1. TypeOK
  BY PipelineAssumption DEF Init, TypeOK, Sinks, Values, Pool!Init, Pool!TypeOK
<1>2. IdleIsComplete /\ RowsConsecutive /\ AcceptedInOrder
  BY DEF Init, IdleIsComplete, RowsConsecutive, AcceptedInOrder, HasRow
<1>3. FieldsFollowRows
  BY PipelineAssumption DEF Init, FieldsFollowRows, Values
<1> QED
  BY <1>1, <1>2, <1>3 DEF OrderInv

\* Every sink's row in hand, queue and fields are in dispatch order.
THEOREM PipelineOrdered == Spec => []OrderInv
BY OrderInit, OrderStep, PTL DEF Spec

\* A field shows the newest row whose command for it was not given up.
THEOREM PipelineFieldsFollowRows == Spec => []FieldsFollowRows
<1>1. OrderInv => FieldsFollowRows
  BY DEF OrderInv
<1> QED
  BY <1>1, PipelineOrdered, PTL

\* No field goes back to an earlier row, whatever the number of workers.
THEOREM PipelineNoStaleOverwrite == Spec => NoStaleOverwrite
<1>1. OrderInv /\ [Next]_vars =>
          [\A s \in Sinks, v \in Values : redis'[s][v] >= redis[s][v]]_vars
  <2> SUFFICES ASSUME OrderInv, Next, NEW s \in Sinks, NEW v \in Values
               PROVE  redis'[s][v] >= redis[s][v]
    OBVIOUS
  <2>1. /\ redis \in [Sinks -> [Values -> 0..MaxLines]] /\ redis[s][v] \in Nat
        /\ cur \in [Sinks -> 0..MaxLines] /\ \A t \in Sinks : cur[t] \in Nat
    BY PipelineAssumption DEF OrderInv, TypeOK
  <2>2. ASSUME NEW w \in Workers, NEW t \in Sinks, SendCommand(w, t)
        PROVE  redis'[s][v] >= redis[s][v]
    <3>1. redis[s][v] <= cur[s]
      BY <2>1 DEF OrderInv, FieldsFollowRows
    <3>2. redis'[s][v] = redis[s][v] \/ (s = t /\ redis'[s][v] = cur[s])
      BY <2>1, <2>2 DEF SendCommand
    <3> QED
      BY <2>1, <3>1, <3>2
  <2>3. ASSUME redis' = redis
        PROVE  redis'[s][v] >= redis[s][v]
    BY <2>1, <2>3
  <2> QED
    BY <2>2, <2>3 DEF Next, ParserStep, WorkerStep, SendStep, Dispatch, PutLineData, PutTask,
       TakeTask, AwaitTask, PopLine, FinishLine, SpuriousWake, redisVars
<1> QED
  BY <1>1, PipelineOrdered, PTL DEF Spec, NoStaleOverwrite

-----------------------------------------------------------------------------
(* Refinement.                                                             *)

\* What the rows of a sink add up to.
LEMMA Accepted ==
    ASSUME OrderInv, NEW s \in Sinks
    PROVE  /\ cur[s] \in Nat /\ Len(lines[s]) \in Nat
           /\ cur[s] + Len(lines[s]) = IF HasRow(s) THEN produced ELSE produced - 1
BY PipelineAssumption DEF OrderInv, TypeOK, AcceptedInOrder

\* Seen from outside, the pipeline is one FIFO per sink: only queueing a row
\* (PutLineData) and releasing the mutex (FinishLine) show.
THEOREM PipelineImplementsDelivery == Spec => Delivery!Spec
<1>1. Init => Delivery!Init
  BY DEF Init, Delivery!Init, Delivered, Sinks, Delivery!Sinks
<1>2. OrderInv /\ [Next]_vars => [Delivery!Next]_(Delivery!vars)
  <2> SUFFICES ASSUME OrderInv, [Next]_vars
               PROVE  [Delivery!Next]_(Delivery!vars)
    OBVIOUS
  <2> DEFINE acc == [s \in Sinks |-> cur[s] + Len(lines[s])]
             del == [s \in Sinks |-> Delivered(s)]
  <2>1. CASE PutLineData
    <3>1. PICK q \in Sinks : q = item
      BY DEF OrderInv, TypeOK
    <3>2. Delivery!Accept(q)
      <4>1. /\ q \in Sinks /\ q = item /\ pc = "putLine" /\ lines[q] \in Seq(1..MaxLines)
            /\ produced \in 1..MaxLines
            /\ lines \in [Sinks -> Seq(1..MaxLines)]
            /\ lines' = [lines EXCEPT ![q] = Append(lines[q], produced)]
            /\ UNCHANGED <<cur, owner>>
        BY <2>1, <3>1, PipelineAssumption DEF PutLineData, OrderInv, TypeOK, AcceptedInOrder
      <4>2. \A s \in Sinks : HasRow(s) <=> s < q
        BY <4>1, SinkNumbers DEF HasRow
      <4>3. \A s \in Sinks : acc[s] = IF s < q THEN produced ELSE produced - 1
        BY <4>2, Accepted
      <4>4. acc[q] = produced - 1
        <5>1. q \in Nat
          BY <4>1, SinkNumbers
        <5>2. ~(q < q)
          BY <5>1
        <5> QED
          BY <4>1, <4>3, <5>2
      <4>5. acc[q] < MaxLines
        BY <4>1, <4>4, PipelineAssumption
      <4>6. \A r \in Sinks : acc[r] = acc[q] + (IF r < q THEN 1 ELSE 0)
        BY <4>1, <4>3, <4>4, PipelineAssumption
      <4>7. acc' = [acc EXCEPT ![q] = acc[q] + 1]
        <5>1. Len(lines'[q]) = Len(lines[q]) + 1
          BY <4>1, AppendProperties
        <5>2. \A s \in Sinks : s # q => lines'[s] = lines[s]
          BY <4>1
        <5>3. cur[q] \in Nat /\ Len(lines[q]) \in Nat /\ cur'[q] = cur[q]
          BY <4>1, Accepted
        <5>4. cur'[q] + Len(lines'[q]) = (cur[q] + Len(lines[q])) + 1
          BY <5>1, <5>3
        <5> QED
          BY <4>1, <5>2, <5>4
      <4>8. del' = del
        BY <4>1 DEF Delivered
      <4> QED
        BY <4>1, <4>5, <4>6, <4>7, <4>8 DEF Delivery!Accept, Delivery!Sinks, Sinks
    <3> QED
      BY <3>2 DEF Delivery!Next, Delivery!Sinks, Sinks
  <2>2. ASSUME NEW w \in Workers, NEW s \in Sinks, FinishLine(w, s)
        PROVE  Delivery!Deliver(s)
    <3>1. /\ owner[s] = w /\ w # NoWorker
          /\ owner \in [Sinks -> Workers \cup {NoWorker}]
          /\ owner' = [owner EXCEPT ![s] = NoWorker]
          /\ UNCHANGED <<cur, lines>>
      BY <2>2, PipelineAssumption DEF FinishLine, OrderInv, TypeOK
    <3>2. cur[s] - 1 < cur[s] + Len(lines[s]) /\ (cur[s] - 1) + 1 = cur[s]
      BY Accepted
    <3>3. del[s] < acc[s]
      BY <3>1, <3>2 DEF Delivered
    <3>4. del' = [del EXCEPT ![s] = del[s] + 1]
      BY <3>1, <3>2 DEF Delivered
    <3>5. acc' = acc
      BY <3>1
    <3> QED
      BY <3>3, <3>4, <3>5 DEF Delivery!Deliver, Delivery!Sinks, Sinks
  <2>3. ASSUME NEW w \in Workers, NEW s \in Sinks, PopLine(w, s)
        PROVE  UNCHANGED Delivery!vars
    <3>1. /\ lines \in [Sinks -> Seq(1..MaxLines)] /\ lines[s] \in Seq(1..MaxLines)
          /\ cur \in [Sinks -> 0..MaxLines]
          /\ owner \in [Sinks -> Workers \cup {NoWorker}]
          /\ lines[s] # <<>> /\ owner[s] = NoWorker /\ w # NoWorker
          /\ lines' = [lines EXCEPT ![s] = Tail(lines[s])]
          /\ cur' = [cur EXCEPT ![s] = Head(lines[s])]
          /\ owner' = [owner EXCEPT ![s] = w]
      BY <2>3, PipelineAssumption DEF PopLine, OrderInv, TypeOK
    <3>2. Len(lines[s]) \in Nat \ {0} /\ Head(lines[s]) = lines[s][1]
      BY <3>1, EmptySeq
    <3>3. cur'[s] = cur[s] + 1 /\ Len(lines'[s]) = Len(lines[s]) - 1
      BY <3>1, <3>2, HeadTailProperties DEF OrderInv, RowsConsecutive
    <3>4. \A t \in Sinks : t # s => /\ lines'[t] = lines[t] /\ cur'[t] = cur[t]
                                    /\ owner'[t] = owner[t]
      BY <3>1
    <3>5. cur'[s] + Len(lines'[s]) = cur[s] + Len(lines[s]) /\ cur'[s] - 1 = cur[s]
      BY <3>2, <3>3, Accepted
    <3>6. acc' = acc
      BY <3>4, <3>5
    <3>7. del' = del
      BY <3>1, <3>4, <3>5 DEF Delivered
    <3> QED
      BY <3>6, <3>7 DEF Delivery!vars
  <2>4. ASSUME UNCHANGED <<lines, cur, owner>>
        PROVE  UNCHANGED Delivery!vars
    BY <2>4 DEF Delivery!vars, Delivered
  <2> QED
    BY <2>1, <2>2, <2>3, <2>4
       DEF Next, ParserStep, WorkerStep, SendStep, Dispatch, PutTask, TakeTask, AwaitTask,
           SendCommand, SpuriousWake, vars, sinkVars, Delivery!Next, Delivery!Sinks, Sinks
<1> QED
  BY <1>1, <1>2, PipelineOrdered, PTL DEF Spec, Delivery!Spec

-----------------------------------------------------------------------------
(* Counting tasks.                                                         *)

\* The positions of an element in a sequence can be counted.
LEMMA PositionsFinite ==
    ASSUME NEW S, NEW seq \in Seq(S), NEW x
    PROVE  /\ IsFiniteSet(Positions(seq, x))
           /\ Cardinality(Positions(seq, x)) \in Nat
<1>1. IsFiniteSet(1..Len(seq))
  BY FS_Interval
<1>2. Positions(seq, x) \subseteq 1..Len(seq)
  BY DEF Positions
<1> QED
  BY <1>1, <1>2, FS_Subset, FS_CardinalityType

\* Appending an element adds a position for it, and none for the others.
LEMMA PositionsAppend ==
    ASSUME NEW S, NEW seq \in Seq(S), NEW y \in S, NEW x
    PROVE  Cardinality(Positions(Append(seq, y), x)) =
               Cardinality(Positions(seq, x)) + (IF x = y THEN 1 ELSE 0)
<1>1. /\ Len(Append(seq, y)) = Len(seq) + 1
      /\ \A i \in 1..Len(seq) : Append(seq, y)[i] = seq[i]
      /\ Append(seq, y)[Len(seq) + 1] = y
      /\ Len(seq) \in Nat
  BY AppendProperties, LenProperties
<1>2. CASE x = y
  <2>1. Positions(Append(seq, y), x) = Positions(seq, x) \cup {Len(seq) + 1}
    BY <1>1, <1>2 DEF Positions
  <2>2. Len(seq) + 1 \notin Positions(seq, x)
    BY <1>1 DEF Positions
  <2> QED
    BY <2>1, <2>2, <1>2, PositionsFinite, FS_AddElement
<1>3. CASE x # y
  <2>1. Positions(Append(seq, y), x) = Positions(seq, x)
    BY <1>1, <1>3 DEF Positions
  <2> QED
    BY <2>1, <1>3, PositionsFinite
<1> QED
  BY <1>2, <1>3

\* Removing the head removes a position of the head, and none of the others.
LEMMA PositionsTail ==
    ASSUME NEW S, NEW seq \in Seq(S), seq # <<>>, NEW x
    PROVE  Cardinality(Positions(Tail(seq), x)) =
               Cardinality(Positions(seq, x)) - (IF x = Head(seq) THEN 1 ELSE 0)
<1>1. /\ Len(Tail(seq)) = Len(seq) - 1
      /\ \A i \in 1..Len(Tail(seq)) : Tail(seq)[i] = seq[i + 1]
      /\ Len(seq) \in Nat \ {0}
      /\ Head(seq) = seq[1]
      /\ Tail(seq) \in Seq(S)
  BY HeadTailProperties, EmptySeq
<1> DEFINE P == Positions(Tail(seq), x)
           Q == Positions(seq, x) \ {1}
           shift == [i \in P |-> i + 1]
<1>2. shift \in Bijection(P, Q)
  <2>1. \A i \in P : i \in Nat /\ i + 1 \in Q
    BY <1>1 DEF Positions
  <2>2. \A j \in Q : j - 1 \in P /\ (j - 1) + 1 = j
    <3> SUFFICES ASSUME NEW j \in Q
                 PROVE  j - 1 \in P /\ (j - 1) + 1 = j
      OBVIOUS
    <3>1. j \in 2..Len(seq) /\ seq[j] = x
      BY <1>1 DEF Positions
    <3>2. j - 1 \in 1..Len(Tail(seq)) /\ (j - 1) + 1 = j
      BY <1>1, <3>1
    <3> QED
      BY <1>1, <3>1, <3>2 DEF Positions
  <2>3. shift \in [P -> Q]
    BY <2>1
  <2>4. \A i, k \in P : shift[i] = shift[k] => i = k
    BY <2>1
  <2>5. \A j \in Q : \E i \in P : shift[i] = j
    BY <2>2
  <2> HIDE DEF P, Q, shift
  <2> QED
    BY <2>3, <2>4, <2>5, Fun_IsBij
<1>3. IsFiniteSet(P) /\ Cardinality(Q) = Cardinality(P)
  <2>1. IsFiniteSet(P)
    BY <1>1, PositionsFinite
  <2> HIDE DEF P, Q, shift
  <2>2. ExistsBijection(P, Q)
    BY <1>2 DEF ExistsBijection
  <2> QED
    BY <2>1, <2>2, FS_Bijection
<1>4. Cardinality(Q) =
          IF 1 \in Positions(seq, x) THEN Cardinality(Positions(seq, x)) - 1
                                     ELSE Cardinality(Positions(seq, x))
  <2>1. IsFiniteSet(Positions(seq, x))
    BY PositionsFinite
  <2> QED
    BY <2>1, FS_RemoveElement
<1>5. 1 \in Positions(seq, x) <=> x = Head(seq)
  BY <1>1 DEF Positions
<1>6. Cardinality(Positions(seq, x)) \in Nat
  BY PositionsFinite
<1> HIDE DEF Q
<1> QED
  BY <1>3, <1>4, <1>5, <1>6

\* The sets that TasksMatchRows counts are finite.
LEMMA TaskCounts ==
    ASSUME TypeOK, NEW s \in Sinks
    PROVE  /\ Cardinality(QueuedTasks(s)) \in Nat
           /\ IsFiniteSet(Lockers(s)) /\ Cardinality(Lockers(s)) \in Nat
           /\ Announced(s) \in Nat
           /\ Len(lines[s]) \in Nat
<1>1. queue \in Seq(Sinks) /\ lines[s] \in Seq(1..MaxLines)
  BY DEF TypeOK, Pool!TypeOK
<1>2. Lockers(s) \subseteq Workers
  BY DEF Lockers
<1>3. IsFiniteSet(Lockers(s)) /\ Cardinality(Lockers(s)) \in Nat
  BY <1>2, PipelineAssumption, FS_Subset, FS_CardinalityType
<1> QED
  BY <1>1, <1>3, PositionsFinite DEF QueuedTasks, Announced

\* Steps that touch neither tasks, rows nor mutexes.
LEMMA TaskUnchanged ==
    ASSUME TaskInv, TypeOK', UNCHANGED <<queue, running, lines, owner>>,
           \A s \in Sinks : Announced(s)' = Announced(s)
    PROVE  TaskInv'
BY DEF TaskInv, HolderRunsTask, TasksMatchRows, QueuedTasks, Positions, Lockers, AtLock

\* A row is queued and its task announced.
LEMMA TaskPutLineData ==
    ASSUME TaskInv, TypeOK', PutLineData
    PROVE  TaskInv'
<1>1. HolderRunsTask'
  BY DEF TaskInv, HolderRunsTask, PutLineData, poolVars
<1>2. TasksMatchRows'
  <2> SUFFICES ASSUME NEW s \in Sinks
               PROVE  Len(lines'[s]) = Cardinality(QueuedTasks(s)') + Cardinality(Lockers(s)')
                                         + Announced(s)'
    BY DEF TasksMatchRows
  <2>1. QueuedTasks(s)' = QueuedTasks(s) /\ Lockers(s)' = Lockers(s)
    BY DEF PutLineData, poolVars, QueuedTasks, Positions, Lockers, AtLock
  <2>2. Len(lines[s]) = Cardinality(QueuedTasks(s)) + Cardinality(Lockers(s)) + Announced(s)
    BY DEF TaskInv, TasksMatchRows
  <2>3. Announced(s) = 0 /\ Announced(s)' = IF s = item THEN 1 ELSE 0
    BY DEF PutLineData, Announced
  <2>4. lines[s] \in Seq(1..MaxLines) /\ lines \in [Sinks -> Seq(1..MaxLines)]
    BY DEF TaskInv, TypeOK
  <2>5. lines'[s] = IF s = item THEN Append(lines[s], produced) ELSE lines[s]
    BY <2>4 DEF PutLineData
  <2>6. Len(lines'[s]) = Len(lines[s]) + IF s = item THEN 1 ELSE 0
    BY <2>4, <2>5
  <2>7. Cardinality(QueuedTasks(s)) \in Nat /\ Cardinality(Lockers(s)) \in Nat
    BY TaskCounts DEF TaskInv
  <2> QED
    BY <2>1, <2>2, <2>3, <2>6, <2>7
<1> QED
  BY <1>1, <1>2 DEF TaskInv

\* The announced task is queued.
LEMMA TaskPutTask ==
    ASSUME TaskInv, TypeOK', PutTask
    PROVE  TaskInv'
<1>1. HolderRunsTask'
  BY DEF TaskInv, HolderRunsTask, PutTask, Pool!Put, sinkVars
<1>2. TasksMatchRows'
  <2> SUFFICES ASSUME NEW s \in Sinks
               PROVE  Len(lines'[s]) = Cardinality(QueuedTasks(s)') + Cardinality(Lockers(s)')
                                         + Announced(s)'
    BY DEF TasksMatchRows
  <2>1. lines' = lines /\ Lockers(s)' = Lockers(s)
    BY DEF PutTask, Pool!Put, sinkVars, Lockers, AtLock
  <2>2. Len(lines[s]) = Cardinality(QueuedTasks(s)) + Cardinality(Lockers(s)) + Announced(s)
    BY DEF TaskInv, TasksMatchRows
  <2>3. Announced(s) = (IF s = item THEN 1 ELSE 0) /\ Announced(s)' = 0
    BY DEF PutTask, Announced
  <2>4. queue \in Seq(Sinks) /\ item \in Sinks /\ queue' = Append(queue, item)
    BY DEF TaskInv, TypeOK, Pool!TypeOK, PutTask, Pool!Put
  <2>5. Cardinality(QueuedTasks(s)') = Cardinality(QueuedTasks(s)) + IF s = item THEN 1 ELSE 0
    BY <2>4, PositionsAppend DEF QueuedTasks
  <2>6. Cardinality(QueuedTasks(s)) \in Nat /\ Cardinality(Lockers(s)) \in Nat
    BY TaskCounts DEF TaskInv
  <2> QED
    BY <2>1, <2>2, <2>3, <2>5, <2>6
<1> QED
  BY <1>1, <1>2 DEF TaskInv

\* A queued task of the queue's first sink becomes a worker at that sink's lock.
LEMMA TaskTakeTask ==
    ASSUME TaskInv, TypeOK', NEW w \in Workers, TakeTask(w)
    PROVE  TaskInv'
<1>1. /\ running[w] \notin Sinks
      /\ running \in [Workers -> Sinks \cup {NoTask}]
      /\ running' = [running EXCEPT ![w] = Head(queue)]
      /\ queue \in Seq(Sinks) /\ queue # <<>> /\ queue' = Tail(queue)
      /\ owner \in [Sinks -> Workers \cup {NoWorker}]
      /\ UNCHANGED <<lines, owner, pc, item>>
  BY PipelineAssumption DEF TakeTask, TaskInv, TypeOK, Pool!TypeOK, Pool!Take, Pool!Seeking,
                            Sinks, parserVars, sinkVars
<1>2. \A s \in Sinks : owner[s] # w
  BY <1>1, PipelineAssumption DEF TaskInv, HolderRunsTask
<1>3. HolderRunsTask'
  BY <1>1, <1>2 DEF TaskInv, HolderRunsTask
<1>4. TasksMatchRows'
  <2> SUFFICES ASSUME NEW s \in Sinks
               PROVE  Len(lines'[s]) = Cardinality(QueuedTasks(s)') + Cardinality(Lockers(s)')
                                         + Announced(s)'
    BY DEF TasksMatchRows
  <2>1. Len(lines[s]) = Cardinality(QueuedTasks(s)) + Cardinality(Lockers(s)) + Announced(s)
    BY DEF TaskInv, TasksMatchRows
  <2>2. Announced(s)' = Announced(s)
    BY <1>1 DEF Announced
  <2>3. Cardinality(QueuedTasks(s)') =
            Cardinality(QueuedTasks(s)) - IF s = Head(queue) THEN 1 ELSE 0
    BY <1>1, PositionsTail DEF QueuedTasks
  <2>4. w \notin Lockers(s)
    BY <1>1 DEF Lockers, AtLock
  <2>5. Lockers(s)' = IF s = Head(queue) THEN Lockers(s) \cup {w} ELSE Lockers(s)
    BY <1>1, <1>2 DEF Lockers, AtLock
  <2>6. /\ Cardinality(QueuedTasks(s)) \in Nat
        /\ IsFiniteSet(Lockers(s)) /\ Cardinality(Lockers(s)) \in Nat
        /\ Announced(s) \in Nat
    BY TaskCounts DEF TaskInv
  <2>7. Cardinality(Lockers(s)') = Cardinality(Lockers(s)) + IF s = Head(queue) THEN 1 ELSE 0
    BY <2>4, <2>5, <2>6, FS_AddElement
  <2> QED
    BY <1>1, <2>1, <2>2, <2>3, <2>6, <2>7
<1> QED
  BY <1>3, <1>4 DEF TaskInv

\* A worker at the lock gets the mutex and pops a row.
LEMMA TaskPopLine ==
    ASSUME TaskInv, TypeOK', NEW w \in Workers, NEW s \in Sinks, PopLine(w, s)
    PROVE  TaskInv'
<1>1. /\ running[w] = s /\ owner[s] = NoWorker /\ w # NoWorker
      /\ owner \in [Sinks -> Workers \cup {NoWorker}]
      /\ lines \in [Sinks -> Seq(1..MaxLines)] /\ lines[s] \in Seq(1..MaxLines)
      /\ lines[s] # <<>>
      /\ lines' = [lines EXCEPT ![s] = Tail(lines[s])]
      /\ owner' = [owner EXCEPT ![s] = w]
      /\ UNCHANGED <<queue, running, pc, item>>
  BY PipelineAssumption DEF PopLine, AtLock, TaskInv, TypeOK, poolVars, parserVars
<1>2. HolderRunsTask'
  BY <1>1 DEF TaskInv, HolderRunsTask
<1>3. TasksMatchRows'
  <2> SUFFICES ASSUME NEW t \in Sinks
               PROVE  Len(lines'[t]) = Cardinality(QueuedTasks(t)') + Cardinality(Lockers(t)')
                                         + Announced(t)'
    BY DEF TasksMatchRows
  <2>1. Len(lines[t]) = Cardinality(QueuedTasks(t)) + Cardinality(Lockers(t)) + Announced(t)
    BY DEF TaskInv, TasksMatchRows
  <2>2. Announced(t)' = Announced(t) /\ QueuedTasks(t)' = QueuedTasks(t)
    BY <1>1 DEF Announced, QueuedTasks, Positions
  <2>3. w \in Lockers(s)
    BY <1>1 DEF Lockers, AtLock
  <2>4. Lockers(t)' = IF t = s THEN Lockers(t) \ {w} ELSE Lockers(t)
    BY <1>1, PipelineAssumption DEF Lockers, AtLock
  <2>5. Len(lines'[t]) = Len(lines[t]) - IF t = s THEN 1 ELSE 0
    <3>1. CASE t = s
      BY <3>1, <1>1, HeadTailProperties
    <3>2. CASE t # s
      <4>1. lines'[t] = lines[t] /\ lines[t] \in Seq(1..MaxLines)
        BY <3>2, <1>1
      <4> QED
        BY <3>2, <4>1
    <3> QED
      BY <3>1, <3>2
  <2>6. /\ Cardinality(QueuedTasks(t)) \in Nat
        /\ IsFiniteSet(Lockers(t)) /\ Cardinality(Lockers(t)) \in Nat
        /\ Announced(t) \in Nat
    BY TaskCounts DEF TaskInv
  <2>7. Cardinality(Lockers(t)') = Cardinality(Lockers(t)) - IF t = s THEN 1 ELSE 0
    <3>1. CASE t = s
      <4>1. Cardinality(Lockers(t) \ {w}) = Cardinality(Lockers(t)) - 1
        BY <3>1, <2>3, <2>6, FS_RemoveElement
      <4> QED
        BY <3>1, <4>1, <2>4
    <3>2. CASE t # s
      BY <3>2, <2>4, <2>6
    <3> QED
      BY <3>1, <3>2
  <2> QED
    BY <2>1, <2>2, <2>5, <2>6, <2>7
<1> QED
  BY <1>2, <1>3 DEF TaskInv

\* A worker that returns from SendData holds no other sink's mutex.
LEMMA TaskFinishLine ==
    ASSUME TaskInv, TypeOK', NEW w \in Workers, NEW s \in Sinks, FinishLine(w, s)
    PROVE  TaskInv'
<1>1. /\ owner[s] = w /\ w # NoWorker /\ running[w] = s
      /\ NoTask \notin Sinks
      /\ owner \in [Sinks -> Workers \cup {NoWorker}]
      /\ running \in [Workers -> Sinks \cup {NoTask}]
      /\ owner' = [owner EXCEPT ![s] = NoWorker]
      /\ running' = [running EXCEPT ![w] = NoTask]
      /\ UNCHANGED <<queue, lines, pc, item>>
  BY PipelineAssumption DEF FinishLine, Pool!Finish, TaskInv, HolderRunsTask, TypeOK,
                            Pool!TypeOK, parserVars, Sinks
<1>2. \A t \in Sinks : t # s => owner[t] # w
  BY <1>1 DEF TaskInv, HolderRunsTask
<1>3. HolderRunsTask'
  BY <1>1, <1>2 DEF TaskInv, HolderRunsTask
<1>4. \A t \in Sinks : Lockers(t)' = Lockers(t)
  <2> SUFFICES ASSUME NEW t \in Sinks, NEW x \in Workers
               PROVE  AtLock(x, t)' <=> AtLock(x, t)
    BY DEF Lockers
  <2>1. CASE x = w
    BY <2>1, <1>1 DEF AtLock
  <2>2. CASE x # w
    BY <2>2, <1>1, PipelineAssumption DEF AtLock
  <2> QED
    BY <2>1, <2>2
<1>5. TasksMatchRows'
  <2>1. \A t \in Sinks : QueuedTasks(t)' = QueuedTasks(t) /\ Announced(t)' = Announced(t)
    BY <1>1 DEF QueuedTasks, Positions, Announced
  <2> QED
    BY <1>1, <1>4, <2>1 DEF TaskInv, TasksMatchRows
<1> QED
  BY <1>3, <1>5 DEF TaskInv

\* TaskInv is inductive relative to OrderInv.
LEMMA TaskStep ==
    ASSUME OrderInv, TaskInv, [Next]_vars
    PROVE  TaskInv'
<1>1. TypeOK'
  BY OrderStep DEF OrderInv
<1>2. CASE Dispatch
  BY <1>1, <1>2, TaskUnchanged DEF Dispatch, Announced, poolVars, sinkVars
<1>3. CASE PutLineData
  BY <1>1, <1>3, TaskPutLineData
<1>4. CASE PutTask
  BY <1>1, <1>4, TaskPutTask
<1>5. ASSUME NEW w \in Workers, TakeTask(w)
      PROVE  TaskInv'
  BY <1>1, <1>5, TaskTakeTask
<1>6. ASSUME NEW w \in Workers, AwaitTask(w)
      PROVE  TaskInv'
  BY <1>1, <1>6, TaskUnchanged DEF AwaitTask, Pool!Wait, Announced, parserVars, sinkVars
<1>7. ASSUME NEW w \in Workers, NEW s \in Sinks, PopLine(w, s)
      PROVE  TaskInv'
  BY <1>1, <1>7, TaskPopLine
<1>8. ASSUME NEW w \in Workers, NEW s \in Sinks, SendCommand(w, s)
      PROVE  TaskInv'
  BY <1>1, <1>8, TaskUnchanged DEF SendCommand, Announced, poolVars, parserVars
<1>9. ASSUME NEW w \in Workers, NEW s \in Sinks, FinishLine(w, s)
      PROVE  TaskInv'
  BY <1>1, <1>9, TaskFinishLine
<1>10. ASSUME NEW w \in Workers, SpuriousWake(w)
       PROVE  TaskInv'
  BY <1>1, <1>10, TaskUnchanged
     DEF SpuriousWake, Pool!SpuriousWake, Announced, parserVars, sinkVars
<1>11. CASE UNCHANGED vars
  BY <1>1, <1>11, TaskUnchanged DEF Announced, vars, poolVars, parserVars, sinkVars
<1> QED
  BY <1>2, <1>3, <1>4, <1>5, <1>6, <1>7, <1>8, <1>9, <1>10, <1>11
     DEF Next, ParserStep, WorkerStep, SendStep

\* There is no task at the start.
LEMMA TaskInit == Init => TaskInv
<1> SUFFICES ASSUME Init PROVE TaskInv
  OBVIOUS
<1>1. TypeOK
  BY OrderInit DEF OrderInv
<1>2. HolderRunsTask
  BY DEF Init, HolderRunsTask
<1>3. ASSUME NEW s \in Sinks
      PROVE  Len(lines[s]) = Cardinality(QueuedTasks(s)) + Cardinality(Lockers(s)) + Announced(s)
  <2>1. QueuedTasks(s) = {} /\ Lockers(s) = {}
    BY PipelineAssumption DEF Init, Pool!Init, QueuedTasks, Positions, Lockers, AtLock, Sinks
  <2>2. Announced(s) = 0 /\ Len(lines[s]) = 0
    BY DEF Init, Announced
  <2> QED
    BY <2>1, <2>2, FS_EmptySet
<1> QED
  BY <1>1, <1>2, <1>3 DEF TaskInv, TasksMatchRows

\* Order and task counting together are inductive.
THEOREM PipelineInductive == Spec => []IInv
<1>1. Init => IInv
  BY OrderInit, TaskInit DEF IInv
<1>2. IInv /\ [Next]_vars => IInv'
  BY OrderStep, TaskStep DEF IInv
<1> QED
  BY <1>1, <1>2, PTL DEF Spec

\* A worker that gets a sink's mutex always finds a row, so the wait on the
\* sink's condition variable never puts a pool thread to sleep.
THEOREM PipelineRowForEveryTask == Spec => []RowForEveryTask
<1>1. IInv => RowForEveryTask
  <2> SUFFICES ASSUME IInv, NEW w \in Workers, NEW s \in Sinks, AtLock(w, s)
               PROVE  lines[s] # <<>>
    BY DEF RowForEveryTask
  <2>1. w \in Lockers(s)
    BY DEF Lockers
  <2>2. Cardinality(Lockers(s)) # 0
    BY <2>1, TaskCounts, FS_EmptySet DEF IInv, TaskInv
  <2>3. Len(lines[s]) # 0
    BY <2>2, TaskCounts DEF IInv, TaskInv, TasksMatchRows
  <2> QED
    BY <2>3
<1> QED
  BY <1>1, PipelineInductive, PTL

=============================================================================
