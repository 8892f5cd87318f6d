------------------------------ MODULE Pipeline ------------------------------
(***************************************************************************)
(* From a parsed row to the target databases: the parser thread dispatches  *)
(* each row (event_dispatcher.cpp), the thread pool (ThreadPool) runs one   *)
(* SendData task per row and sink, and RedisReserve::SendData              *)
(* (reserve_data.cpp) pops a row and sends its commands under the sink's    *)
(* mutex.                                                                  *)
(*                                                                         *)
(* A task does not carry its row: it says only "sink s has one more row".   *)
(* Which worker sends which row is settled by who gets the sink's mutex.    *)
(*                                                                         *)
(* SendData waits on the sink's cond_ for a non-empty queue.  The wait is    *)
(* the guard of PopLine: a thread that finds the queue empty stays outside  *)
(* the mutex until there is a row.  RowForEveryTask shows that no thread    *)
(* ever finds it empty, so who is notified on that cond_ does not matter.   *)
(*                                                                         *)
(* Abstractions.  A row is its dispatch number.  All rows address the same  *)
(* Redis key, the case where the order of commands matters; the key's       *)
(* fields are 1..NumValues, one command each.  A command is one step with   *)
(* two outcomes, because SendData ignores what ExecuteRedisCmd returns: the *)
(* field now holds the row's value, or the command was given up.            *)
(***************************************************************************)
EXTENDS Naturals, Sequences, FiniteSets

CONSTANTS Workers,    \* the pool's threads
          NumSinks,   \* registered ImportBase objects, EventDispatcher::import_bases
          NumValues,  \* the columns of an import entry, RedisImportConfig::values
          MaxLines,   \* bound on the rows the parser dispatches
          NoTask,     \* an idle worker
          NoWorker    \* the owner of a free mutex

ASSUME PipelineAssumption ==
    /\ IsFiniteSet(Workers) /\ Workers # {}
    /\ NumSinks \in Nat \ {0}
    /\ NumValues \in Nat
    /\ MaxLines \in Nat
    /\ NoTask \notin 1..NumSinks
    /\ NoWorker \notin Workers

Sinks == 1..NumSinks
Values == 1..NumValues

VARIABLES queue, waiting, running,   \* the pool, see ThreadPool
          pc,         \* the parser thread: "parse", "putLine" or "putTask"
          item,       \* its position in import_bases while it dispatches a row
          produced,   \* rows dispatched so far; the current row's number
          lines,      \* RedisReserve::line_data_queue_ of each sink
          owner,      \* the holder of RedisReserve::mutex_ of each sink
          cur,        \* RedisReserve::cur_data_ of each sink, 0 for nullptr
          sent,       \* how many commands of cur_data_ were executed, all when idle
          redis,      \* redis[s][v]: the row whose value field v holds, 0 if none
          failed      \* failed[s][v]: the last row whose command v was given up

poolVars   == <<queue, waiting, running>>
parserVars == <<pc, item, produced>>
sinkVars   == <<lines, owner, cur, sent>>
redisVars  == <<redis, failed>>
vars == <<poolVars, parserVars, sinkVars, redisVars>>

Pool == INSTANCE ThreadPool WITH Tasks <- Sinks, MaxQueue <- MaxLines * NumSinks

\* A worker inside SendData of s that does not hold the mutex yet.
AtLock(w, s) == running[w] = s /\ owner[s] # w

TypeOK ==
    /\ Pool!TypeOK
    /\ pc \in {"parse", "putLine", "putTask"}
    /\ item \in Sinks
    /\ produced \in 0..MaxLines
    /\ lines \in [Sinks -> Seq(1..MaxLines)]
    /\ owner \in [Sinks -> Workers \cup {NoWorker}]
    /\ cur \in [Sinks -> 0..MaxLines]
    /\ sent \in [Sinks -> 0..NumValues]
    /\ redis \in [Sinks -> [Values -> 0..MaxLines]]
    /\ failed \in [Sinks -> [Values -> 0..MaxLines]]

Init ==
    /\ Pool!Init
    /\ pc = "parse"
    /\ item = 1
    /\ produced = 0
    /\ lines = [s \in Sinks |-> <<>>]
    /\ owner = [s \in Sinks |-> NoWorker]
    /\ cur = [s \in Sinks |-> 0]
    /\ sent = [s \in Sinks |-> NumValues]
    /\ redis = [s \in Sinks |-> [v \in Values |-> 0]]
    /\ failed = [s \in Sinks |-> [v \in Values |-> 0]]

-----------------------------------------------------------------------------
(* The parser thread.                                                      *)

\* RowEvent::Parse has a row that the filter kept and calls
\* EventDispatcher::PutLineData with it.
Dispatch ==
    /\ pc = "parse"
    /\ produced < MaxLines
    /\ produced' = produced + 1
    /\ pc' = "putLine"
    /\ item' = 1
    /\ UNCHANGED <<poolVars, sinkVars, redisVars>>

\* item->PutLineData(data): RedisReserve::PutLineData queues the row under the
\* sink's mutex, which SendData may hold for as long as its commands take.
PutLineData ==
    /\ pc = "putLine"
    /\ owner[item] = NoWorker
    /\ lines' = [lines EXCEPT ![item] = Append(@, produced)]
    /\ pc' = "putTask"
    /\ UNCHANGED <<poolVars, item, produced, owner, cur, sent, redisVars>>

\* Mutant: the loop over import_bases runs one past its end.
PutTaskPastEnd ==
    /\ pc = "putTask"
    /\ Pool!Put(item)
    /\ IF item <= NumSinks
       THEN item' = item + 1 /\ pc' = "putLine"
       ELSE item' = item /\ pc' = "parse"
    /\ UNCHANGED <<produced, sinkVars, redisVars>>

\* ThreadPool::put([item]{item->SendData();}), then the loop's next sink.
PutTask ==
    /\ pc = "putTask"
    /\ Pool!Put(item)
    /\ IF item < NumSinks
       THEN item' = item + 1 /\ pc' = "putLine"
       ELSE item' = item /\ pc' = "parse"
    /\ UNCHANGED <<produced, sinkVars, redisVars>>

-----------------------------------------------------------------------------
(* A pool thread.                                                          *)

TakeTask(w) ==
    /\ Pool!Take(w)
    /\ UNCHANGED <<parserVars, sinkVars, redisVars>>

AwaitTask(w) ==
    /\ Pool!Wait(w)
    /\ UNCHANGED <<parserVars, sinkVars, redisVars>>

\* Mutant: SendData coalesces, it takes the whole queue and sends the last row.
PopLineCoalescing(w, s) ==
    /\ AtLock(w, s)
    /\ owner[s] = NoWorker
    /\ lines[s] # <<>>
    /\ owner' = [owner EXCEPT ![s] = w]
    /\ cur' = [cur EXCEPT ![s] = lines[s][Len(lines[s])]]
    /\ lines' = [lines EXCEPT ![s] = <<>>]
    /\ sent' = [sent EXCEPT ![s] = 0]
    /\ UNCHANGED <<poolVars, parserVars, redisVars>>

\* Mutant: line_data_queue_ is used as a stack.
PopLineNewest(w, s) ==
    /\ AtLock(w, s)
    /\ owner[s] = NoWorker
    /\ lines[s] # <<>>
    /\ owner' = [owner EXCEPT ![s] = w]
    /\ cur' = [cur EXCEPT ![s] = lines[s][Len(lines[s])]]
    /\ lines' = [lines EXCEPT ![s] = SubSeq(@, 1, Len(@) - 1)]
    /\ sent' = [sent EXCEPT ![s] = 0]
    /\ UNCHANGED <<poolVars, parserVars, redisVars>>

\* Mutant: mutex_ protects the queue only, as if SendData unlocked it before
\* it sends the commands of cur_data_.
PopLineUnlocked(w, s) ==
    /\ AtLock(w, s)
    /\ lines[s] # <<>>
    /\ owner' = [owner EXCEPT ![s] = w]
    /\ cur' = [cur EXCEPT ![s] = Head(lines[s])]
    /\ lines' = [lines EXCEPT ![s] = Tail(@)]
    /\ sent' = [sent EXCEPT ![s] = 0]
    /\ UNCHANGED <<poolVars, parserVars, redisVars>>

\* SendData up to its first command: lock, find the queue non-empty, pop the
\* front into cur_data_.  The mutex stays locked until SendData returns.
PopLine(w, s) ==
    /\ AtLock(w, s)
    /\ owner[s] = NoWorker
    /\ lines[s] # <<>>
    /\ owner' = [owner EXCEPT ![s] = w]
    /\ cur' = [cur EXCEPT ![s] = Head(lines[s])]
    /\ lines' = [lines EXCEPT ![s] = Tail(@)]
    /\ sent' = [sent EXCEPT ![s] = 0]
    /\ UNCHANGED <<poolVars, parserVars, redisVars>>

\* One ExecuteRedisCmd of SendData's loop over the import entry's values.
SendCommand(w, s) ==
    /\ owner[s] = w
    /\ sent[s] < NumValues
    /\ sent' = [sent EXCEPT ![s] = @ + 1]
    /\ \/ /\ redis' = [redis EXCEPT ![s][sent[s] + 1] = cur[s]]
          /\ UNCHANGED failed
       \/ /\ failed' = [failed EXCEPT ![s][sent[s] + 1] = cur[s]]
          /\ UNCHANGED redis
    /\ UNCHANGED <<poolVars, parserVars, lines, owner, cur>>

\* Mutant: a return path of SendData that leaves the mutex locked.
FinishLineLocked(w, s) ==
    /\ owner[s] = w
    /\ sent[s] = NumValues
    /\ running[w] = s
    /\ Pool!Finish(w)
    /\ UNCHANGED <<parserVars, sinkVars, redisVars>>

\* SendData returns: the mutex is released and the worker's task is over.
FinishLine(w, s) ==
    /\ owner[s] = w
    /\ sent[s] = NumValues
    /\ owner' = [owner EXCEPT ![s] = NoWorker]
    /\ Pool!Finish(w)
    /\ UNCHANGED <<parserVars, lines, cur, sent, redisVars>>

\* The pool's condition variable may wake a thread nobody notified.
SpuriousWake(w) ==
    /\ Pool!SpuriousWake(w)
    /\ UNCHANGED <<parserVars, sinkVars, redisVars>>

-----------------------------------------------------------------------------
ParserStep == PutLineData \/ PutTask

SendStep(w, s) ==
    PopLine(w, s) \/ SendCommand(w, s) \/ FinishLine(w, s)

WorkerStep(w) ==
    \/ TakeTask(w)
    \/ AwaitTask(w)
    \/ \E s \in Sinks : SendStep(w, s)

Next ==
    \/ Dispatch
    \/ ParserStep
    \/ \E w \in Workers : WorkerStep(w) \/ SpuriousWake(w)

Spec == Init /\ [][Next]_vars

\* The scheduler runs every runnable thread, and ExecuteRedisCmd returns.  A
\* thread that waits for a mutex is runnable only while the mutex is free:
\* std::mutex promises nothing more.  The parser may stop receiving rows.
FairSpec ==
    /\ Spec
    /\ WF_vars(ParserStep)
    /\ \A w \in Workers : WF_vars(WorkerStep(w))

-----------------------------------------------------------------------------
(* Properties.                                                             *)

\* A worker that gets the mutex in SendData always finds a row: the task it
\* took was queued after its row, and no other worker pops a row without
\* having taken a task of its own.  Were it otherwise, the worker would sleep
\* on the sink's cond_ and the pool would be a thread short.
RowForEveryTask ==
    \A w \in Workers, s \in Sinks :
        AtLock(w, s) /\ owner[s] = NoWorker => lines[s] # <<>>

\* Field v of sink s reflects the rows in order: the later of the last applied
\* and the last given-up command is the one of the current row, or of the row
\* before it while the current row's command v is still to come.  Hence a
\* field is out of date only if the newest command for it failed.
FieldsFollowRows ==
    \A s \in Sinks, v \in Values :
        LET attempted == IF v <= sent[s] THEN cur[s] ELSE cur[s] - 1
        IN  /\ redis[s][v] <= attempted /\ failed[s][v] <= attempted
            /\ attempted > 0 => attempted \in {redis[s][v], failed[s][v]}

\* No field is ever overwritten with the value of an earlier row, although
\* any worker may send any row.
NoStaleOverwrite ==
    [][\A s \in Sinks, v \in Values : redis'[s][v] >= redis[s][v]]_vars

\* Seen from outside, the dispatcher, the pool and the sinks are one FIFO per
\* sink that delivers every accepted row exactly once, in order, and never
\* forgets one.
Delivered(s) == IF owner[s] = NoWorker THEN cur[s] ELSE cur[s] - 1

Delivery == INSTANCE OrderedDelivery
    WITH accepted  <- [s \in Sinks |-> cur[s] + Len(lines[s])],
         delivered <- [s \in Sinks |-> Delivered(s)]

ImplementsDelivery == Delivery!FairSpec

\* The parser is not starved of a sink's mutex, although the mutex is unfair
\* and a worker holds it for a whole row: the workers can only go round as
\* often as rows were queued.
ParserNotStarved ==
    \A s \in Sinks :
        (pc = "putLine" /\ item = s) ~> (pc = "putTask" /\ item = s)

-----------------------------------------------------------------------------
(* The inductive invariant behind the safety properties.                   *)

\* The holder of a sink's mutex is executing that sink's task.
HolderRunsTask ==
    \A s \in Sinks : owner[s] # NoWorker => running[owner[s]] = s

\* All commands of cur_data_ are done whenever the mutex is free.
IdleIsComplete ==
    \A s \in Sinks : IF owner[s] = NoWorker THEN sent[s] = NumValues ELSE cur[s] > 0

\* The queued rows are the ones that follow cur_data_, without a gap.
RowsConsecutive ==
    \A s \in Sinks : \A i \in 1..Len(lines[s]) : lines[s][i] = cur[s] + i

\* The dispatcher has handed the current row to sink s.
HasRow(s) == pc = "parse" \/ s < item \/ (s = item /\ pc = "putTask")

\* A sink lags the parser by the current row or not at all.
AcceptedInOrder ==
    /\ pc # "parse" => produced > 0
    /\ \A s \in Sinks :
        cur[s] + Len(lines[s]) = IF HasRow(s) THEN produced ELSE produced - 1

\* The tasks of sink s that are still to pop a row: queued in the pool, taken
\* by a worker that has not got the mutex yet, or about to be queued.
Positions(seq, x) == {i \in 1..Len(seq) : seq[i] = x}
QueuedTasks(s) == Positions(queue, s)
Lockers(s) == {w \in Workers : AtLock(w, s)}
Announced(s) == IF pc = "putTask" /\ item = s THEN 1 ELSE 0

\* There are exactly as many tasks still to pop a row as there are rows.
TasksMatchRows ==
    \A s \in Sinks :
        Len(lines[s]) = Cardinality(QueuedTasks(s)) + Cardinality(Lockers(s)) + Announced(s)

OrderInv ==
    /\ TypeOK
    /\ IdleIsComplete
    /\ RowsConsecutive
    /\ AcceptedInOrder
    /\ FieldsFollowRows

TaskInv ==
    /\ TypeOK
    /\ HolderRunsTask
    /\ TasksMatchRows

IInv == OrderInv /\ TaskInv

=============================================================================
