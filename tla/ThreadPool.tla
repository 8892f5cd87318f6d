----------------------------- MODULE ThreadPool -----------------------------
(***************************************************************************)
(* The worker pool of thread_pool.cpp: a BlockingQueue (mutex_, queue_,     *)
(* cond_) drained by the threads that ThreadPool::Init starts.              *)
(*                                                                         *)
(* Every critical section of the queue is short and calls nothing that      *)
(* blocks, so each is one action: put, the successful take, and the take    *)
(* that finds the queue empty and joins the condition variable's wait set.  *)
(* A notified thread leaves the wait set and has to compete for the queue   *)
(* again: another worker may overtake it and empty the queue, in which case *)
(* the predicate of cond_.wait sends it back to sleep.                      *)
(***************************************************************************)
EXTENDS Naturals, Sequences, FiniteSets

CONSTANTS Workers,   \* the threads of threads_
          Tasks,     \* the closures handed to ThreadPool::put
          NoTask,    \* a worker that is inside take() runs no task
          MaxQueue   \* bound on the queue for the stand-alone specification

ASSUME PoolAssumption ==
    /\ IsFiniteSet(Workers) /\ Workers # {}
    /\ NoTask \notin Tasks
    /\ MaxQueue \in Nat

VARIABLES queue,     \* BlockingQueue::queue_
          waiting,   \* the workers asleep in cond_.wait
          running    \* the task each worker executes, or NoTask

poolVars == <<queue, waiting, running>>

\* The workers that are awake inside take(), on their way to the queue.
Seeking == {w \in Workers : running[w] = NoTask /\ w \notin waiting}

TypeOK ==
    /\ queue \in Seq(Tasks)
    /\ running \in [Workers -> Tasks \cup {NoTask}]
    /\ waiting \subseteq {w \in Workers : running[w] = NoTask}

-----------------------------------------------------------------------------
(* The condition variable.                                                 *)

\* What notify_one may leave of a wait set: some waiter wakes, if there is one.
NotifyOne(set) == IF set = {} THEN {set} ELSE {set \ {w} : w \in set}

\* Mutant: the classic "signal only when the queue was empty" optimisation.
PutNotifyOnEmpty(task) ==
    /\ queue' = Append(queue, task)
    /\ waiting' \in IF queue = <<>> THEN NotifyOne(waiting) ELSE {waiting}
    /\ UNCHANGED running

\* Mutant: put forgets cond_.notify_one().
PutSilently(task) ==
    /\ queue' = Append(queue, task)
    /\ UNCHANGED <<waiting, running>>

\* BlockingQueue::put: emplace under the mutex, then notify_one.
Put(task) ==
    /\ queue' = Append(queue, task)
    /\ waiting' \in NotifyOne(waiting)
    /\ UNCHANGED running

\* Mutant: take does not wait for its wake-up before it touches the queue.
TakeAsleep(w) ==
    /\ running[w] = NoTask
    /\ queue # <<>>
    /\ queue' = Tail(queue)
    /\ running' = [running EXCEPT ![w] = Head(queue)]
    /\ UNCHANGED waiting

\* BlockingQueue::take with the predicate true: pop the front and run it.
Take(w) ==
    /\ w \in Seeking
    /\ queue # <<>>
    /\ queue' = Tail(queue)
    /\ running' = [running EXCEPT ![w] = Head(queue)]
    /\ UNCHANGED waiting

\* BlockingQueue::take with the predicate false: sleep on cond_.
Wait(w) ==
    /\ w \in Seeking
    /\ queue = <<>>
    /\ waiting' = waiting \cup {w}
    /\ UNCHANGED <<queue, running>>

\* A condition variable may wake a thread nobody notified.
SpuriousWake(w) ==
    /\ w \in waiting
    /\ waiting' = waiting \ {w}
    /\ UNCHANGED <<queue, running>>

\* task() returns and runInThread loops back to take().
Finish(w) ==
    /\ running[w] # NoTask
    /\ running' = [running EXCEPT ![w] = NoTask]
    /\ UNCHANGED <<queue, waiting>>

-----------------------------------------------------------------------------
\* ThreadPool::Init: every thread starts in runInThread, before its first take.
Init ==
    /\ queue = <<>>
    /\ waiting = {}
    /\ running = [w \in Workers |-> NoTask]

\* Stand-alone, any client puts any task at any time (up to MaxQueue queued).
Next ==
    \/ \E t \in Tasks : Len(queue) < MaxQueue /\ Put(t)
    \/ \E w \in Workers : Take(w) \/ Wait(w) \/ SpuriousWake(w) \/ Finish(w)

Spec == Init /\ [][Next]_poolVars

\* The scheduler runs every runnable thread, and tasks return.
FairSpec == Spec /\ \A w \in Workers : WF_poolVars(Take(w) \/ Wait(w) \/ Finish(w))

-----------------------------------------------------------------------------
(* Properties.                                                             *)

\* The pool is work conserving: while some worker sleeps in take(), each
\* queued task has an awake worker of its own heading for it.  It fails as
\* soon as one put() wakes nobody although a worker sleeps, the lost wake-up
\* that leaves a task in the queue beside an idle thread.
WorkConserving == waiting # {} => Len(queue) <= Cardinality(Seeking)

\* Every task handed to put() is eventually executed by some worker, whatever
\* the interleaving of notifications, overtaking workers and spurious wakes.
QueuedTaskRuns ==
    \A t \in Tasks :
        (\E i \in DOMAIN queue : queue[i] = t) ~> (\E w \in Workers : running[w] = t)

=============================================================================
