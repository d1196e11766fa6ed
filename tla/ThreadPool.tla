----------------------------- MODULE ThreadPool -----------------------------
(***************************************************************************)
(* erhe::concurrency::Thread_pool and Concurrent_queue (src/erhe/          *)
(* concurrency/thread_pool.cpp, concurrent_queue.cpp): worker threads, and *)
(* clients that enqueue into queues and wait for them or cancel them.  Who *)
(* waits helps: it takes tasks as a worker does, and those may wait again, *)
(* so every thread has a stack of the calls it is in.                      *)
(*                                                                         *)
(* Every access to an atomic and every call of the lock-free queue is a    *)
(* step of its own; only the notification after a push is part of it, for  *)
(* what a later one does the timeout of the sleep does as well.  The       *)
(* lock-free queue keeps no order between producers; here it keeps none at *)
(* all.  The n-th enqueue() gives task n.                                  *)
(***************************************************************************)
EXTENDS Integers, Sequences, SequencesExt, FiniteSets

CONSTANTS Workers,    \* m_threads
          Clients,    \* other threads,
          Main,       \* the one of them that destroys the queues and the pool
          Queues,     \* the Concurrent_queues and
          Static,     \* the pool's own, m_static_queue
          Lowest,     \* the last priority, LOW = 2; HIGH is 0
          PriorityOf, \* the priority of each
          MayWait,    \* the pairs <<q, r>>: tasks of q may call r.wait()
          MaxTasks,   \* bound on the calls of enqueue()
          MaxCalls    \* bound on the calls of wait(), cancel() and steal()

(***************************************************************************)
(* Tasks wait only for queues whose own tasks do not wait.  The code asks  *)
(* for no dependency between tasks at all (concurrent_queue.hpp:11).       *)
(***************************************************************************)
ASSUME ThreadPoolAssumption ==
  /\ Main \in Clients /\ Workers \cap Clients = {}
  /\ Lowest \in Nat
  /\ Static \in Queues /\ PriorityOf \in [Queues -> 0 .. Lowest]
  /\ MayWait \subseteq (Queues \X (Queues \ {Static}))
  /\ \A p, r \in MayWait : p[2] # r[1]
  /\ MaxTasks \in Nat /\ MaxCalls \in Nat

Threads == Workers \cup Clients

VARIABLES
  tasks,     \* m_queues: the tasks of each priority
  counter,   \* task_counter of each queue
  cancelled, \* and its flag
  stop,      \* m_stop
  stack,     \* the calls each thread is in, the innermost last
  gone,      \* the Concurrent_queues that were destroyed
  queueOf,   \* history: the queue of each task that was enqueued,
  ran,       \* those that ran to the end,
  dropped,   \* those that were cancelled,
  overruled, \* the threads in cancel() whose flag another one has lowered,
  calls      \* and the number of calls made

history == <<queueOf, ran, dropped, overruled, calls>>
vars == <<tasks, counter, cancelled, stop, stack, gone, history>>

Frame(at, arg) == [at |-> at, arg |-> arg]
Outside == Frame("outside", 0)
Loop    == Frame("loop", 0)

Init ==
  /\ tasks = [p \in 0 .. Lowest |-> {}]
  /\ counter = [q \in Queues |-> 0] /\ cancelled = [q \in Queues |-> FALSE]
  /\ stop = FALSE
  /\ stack = [t \in Threads |-> IF t \in Workers THEN <<Loop>> ELSE <<Outside>>]
  /\ gone = {}
  /\ queueOf = <<>> /\ ran = {} /\ dropped = {} /\ overruled = {} /\ calls = 0
-----------------------------------------------------------------------------
Frames(t)    == {stack[t][i] : i \in DOMAIN stack[t]}
Top(t)       == Last(stack[t])
IsAt(t, at)  == Top(t).at = at

Call(t, at, arg) == stack' = [stack EXCEPT ![t] = Append(@, Frame(at, arg))]
Go(t, at, arg)   == stack' = [stack EXCEPT ![t] = Append(Front(@), Frame(at, arg))]
Return(t)        == stack' = [stack EXCEPT ![t] = Front(@)]

Awaiting  == {"wait", "cancel", "lower", "destroy"}
InCall(t, q) == \E f \in Frames(t) : f.at \in Awaiting /\ f.arg = q
Destroying(q) == q \in gone \/ Frame("destroy", q) \in Frames(Main)

\* The threads that are inside cancel(q).
Cancelling(q) ==
  {t \in Threads : \E f \in Frames(t) : f.at \in {"cancel", "lower"} /\ f.arg = q}

\* ~Thread_pool has begun.
Closing == \E f \in Frames(Main) : f.at \in {"notify_all", "joining", "gone"}
-----------------------------------------------------------------------------
(***************************************************************************)
(* enqueue(): the counter is raised before the task can be seen.           *)
(***************************************************************************)
\* Wrong: takes the flag down for the new task.
EnqueueRevives(t, q) ==
  /\ Len(queueOf) < MaxTasks
  /\ queueOf' = Append(queueOf, q)
  /\ counter' = [counter EXCEPT ![q] = @ + 1]
  /\ cancelled' = [cancelled EXCEPT ![q] = FALSE]
  /\ Call(t, "push", Len(queueOf) + 1)
  /\ UNCHANGED <<tasks, stop, gone, ran, dropped, overruled, calls>>

Enqueue(t, q) ==
  /\ Len(queueOf) < MaxTasks
  /\ queueOf' = Append(queueOf, q)
  /\ counter' = [counter EXCEPT ![q] = @ + 1]
  /\ Call(t, "push", Len(queueOf) + 1)
  /\ UNCHANGED <<tasks, cancelled, stop, gone, ran, dropped, overruled, calls>>

\* m_condition.notify_one(), without m_queue_mutex
Sleepers == {w \in Workers : IsAt(w, "asleep")}

ReturnNotifying(t) ==
  IF Sleepers = {} THEN Return(t)
  ELSE \E w \in Sleepers : stack' = [stack EXCEPT ![t] = Front(@), ![w] = <<Loop>>]

Push(t) ==
  /\ IsAt(t, "push")
  /\ LET x == Top(t).arg
     IN  tasks' = [tasks EXCEPT ![PriorityOf[queueOf[x]]] = @ \cup {x}]
  /\ ReturnNotifying(t)
  /\ UNCHANGED <<counter, cancelled, stop, gone, history>>
-----------------------------------------------------------------------------
(***************************************************************************)
(* dequeue_and_process(): the priorities in order, without going back.     *)
(***************************************************************************)
\* Wrong: looks at a task and leaves it there.
TakeCopy(t) ==
  /\ IsAt(t, "scan")
  /\ \E x \in tasks[Top(t).arg] : Go(t, "taken", x)
  /\ UNCHANGED <<tasks, counter, cancelled, stop, gone, history>>

Take(t) ==
  /\ IsAt(t, "scan")
  /\ \E x \in tasks[Top(t).arg] :
       /\ tasks' = [tasks EXCEPT ![Top(t).arg] = @ \ {x}]
       /\ Go(t, "taken", x)
  /\ UNCHANGED <<counter, cancelled, stop, gone, history>>

\* The loop of thread() looks at the clock when nothing was found.
Missed(s) == IF Last(s) = Loop THEN Append(Front(s), Frame("rest", 0)) ELSE s

Miss(t) ==
  /\ IsAt(t, "scan") /\ tasks[Top(t).arg] = {}
  /\ IF Top(t).arg < Lowest THEN Go(t, "scan", Top(t).arg + 1)
     ELSE stack' = [stack EXCEPT ![t] = Missed(Front(@))]
  /\ UNCHANGED <<tasks, counter, cancelled, stop, gone, history>>

Start(t) ==
  /\ IsAt(t, "taken") /\ ~cancelled[queueOf[Top(t).arg]]
  /\ Go(t, "run", Top(t).arg)
  /\ UNCHANGED <<tasks, counter, cancelled, stop, gone, history>>

\* Wrong: a dropped task is not counted off.
DropUncounted(t) ==
  /\ IsAt(t, "taken") /\ cancelled[queueOf[Top(t).arg]]
  /\ Return(t)
  /\ dropped' = dropped \cup {Top(t).arg}
  /\ UNCHANGED <<tasks, counter, cancelled, stop, gone, queueOf, ran, overruled, calls>>

Drop(t) ==
  /\ IsAt(t, "taken") /\ cancelled[queueOf[Top(t).arg]]
  /\ Go(t, "count", Top(t).arg)
  /\ dropped' = dropped \cup {Top(t).arg}
  /\ UNCHANGED <<tasks, counter, cancelled, stop, gone, queueOf, ran, overruled, calls>>

Finish(t) ==
  /\ IsAt(t, "run")
  /\ Go(t, "count", Top(t).arg)
  /\ ran' = ran \cup {Top(t).arg}
  /\ UNCHANGED <<tasks, counter, cancelled, stop, gone, queueOf, dropped, overruled, calls>>

CountOff(t) ==
  /\ IsAt(t, "count")
  /\ counter' = [counter EXCEPT ![queueOf[Top(t).arg]] = @ - 1]
  /\ Return(t)
  /\ UNCHANGED <<tasks, cancelled, stop, gone, history>>
-----------------------------------------------------------------------------
(***************************************************************************)
(* thread(): a worker without work for 1.2 ms sleeps, at most 120 ms and   *)
(* with no look at the queues after it has decided to.                     *)
(***************************************************************************)
WorkerLoops(w) ==
  /\ IsAt(w, "loop")
  /\ IF stop THEN Go(w, "gone", 0) ELSE Call(w, "scan", 0)
  /\ UNCHANGED <<tasks, counter, cancelled, stop, gone, history>>

WorkerYields(w) ==
  /\ IsAt(w, "rest") /\ Go(w, "loop", 0)
  /\ UNCHANGED <<tasks, counter, cancelled, stop, gone, history>>

WorkerSleeps(w) ==
  /\ IsAt(w, "rest") /\ Go(w, "asleep", 0)
  /\ UNCHANGED <<tasks, counter, cancelled, stop, gone, history>>

\* Wrong: a wait without a timeout.
SleepLasts(w) == FALSE

SleepEnds(w) ==
  /\ IsAt(w, "asleep") /\ Go(w, "loop", 0)
  /\ UNCHANGED <<tasks, counter, cancelled, stop, gone, history>>
-----------------------------------------------------------------------------
(***************************************************************************)
(* wait(), also within cancel() and ~Concurrent_queue.                     *)
(***************************************************************************)
\* Wrong: spins until others have done the work.
WaitSpins(t) ==
  /\ Top(t).at \in {"wait", "cancel", "destroy"} /\ counter[Top(t).arg] > 0
  /\ UNCHANGED vars

WaitHelps(t) ==
  /\ Top(t).at \in {"wait", "cancel", "destroy"} /\ counter[Top(t).arg] > 0
  /\ Call(t, "scan", 0)
  /\ UNCHANGED <<tasks, counter, cancelled, stop, gone, history>>

\* Wrong: takes the queue for drained when nothing is left to take.
WaitReturnsEmpty(t) ==
  /\ Top(t).at \in {"wait", "cancel", "destroy"}
  /\ tasks[PriorityOf[Top(t).arg]] = {}
  /\ IF IsAt(t, "cancel") THEN Go(t, "lower", Top(t).arg) ELSE Return(t)
  /\ gone' = gone \cup (IF IsAt(t, "destroy") THEN {Top(t).arg} ELSE {})
  /\ UNCHANGED <<tasks, counter, cancelled, stop, history>>

WaitReturns(t) ==
  /\ Top(t).at \in {"wait", "cancel", "destroy"} /\ counter[Top(t).arg] <= 0
  /\ IF IsAt(t, "cancel") THEN Go(t, "lower", Top(t).arg) ELSE Return(t)
  /\ gone' = gone \cup (IF IsAt(t, "destroy") THEN {Top(t).arg} ELSE {})
  /\ UNCHANGED <<tasks, counter, cancelled, stop, history>>

Wait(t, q) ==
  /\ calls < MaxCalls /\ calls' = calls + 1
  /\ Call(t, "wait", q)
  /\ UNCHANGED <<tasks, counter, cancelled, stop, gone, queueOf, ran, dropped, overruled>>

Cancel(t, q) ==
  /\ calls < MaxCalls /\ calls' = calls + 1
  /\ cancelled' = [cancelled EXCEPT ![q] = TRUE]
  /\ Call(t, "cancel", q)
  /\ UNCHANGED <<tasks, counter, stop, gone, queueOf, ran, dropped, overruled>>

\* Wrong: the flag stays up.
LeaveFlag(t) ==
  /\ IsAt(t, "lower")
  /\ overruled' = (overruled \cup Cancelling(Top(t).arg)) \ {t}
  /\ Return(t)
  /\ UNCHANGED <<tasks, counter, cancelled, stop, gone, queueOf, ran, dropped, calls>>

LowerFlag(t) ==
  /\ IsAt(t, "lower")
  /\ cancelled' = [cancelled EXCEPT ![Top(t).arg] = FALSE]
  /\ overruled' = (overruled \cup Cancelling(Top(t).arg)) \ {t}
  /\ Return(t)
  /\ UNCHANGED <<tasks, counter, stop, gone, queueOf, ran, dropped, calls>>

Steal(t) ==
  /\ calls < MaxCalls /\ calls' = calls + 1
  /\ Call(t, "scan", 0)
  /\ UNCHANGED <<tasks, counter, cancelled, stop, gone, queueOf, ran, dropped, overruled>>
-----------------------------------------------------------------------------
(***************************************************************************)
(* The destructors, when nobody but the tasks themselves still uses what   *)
(* is destroyed: the queues first, as Parallel_task_queue declares them    *)
(* after its pool.                                                         *)
(***************************************************************************)
Unused(q) ==
  \A t \in Threads :
    /\ ~InCall(t, q)
    /\ \A f \in Frames(t) : f.at = "push" => queueOf[f.arg] # q

\* Wrong: does not wait.
DestroyAtOnce(q) ==
  /\ IsAt(Main, "outside") /\ ~Destroying(q) /\ q # Static /\ Unused(q)
  /\ gone' = gone \cup {q}
  /\ UNCHANGED <<tasks, counter, cancelled, stop, stack, history>>

DestroyQueue(q) ==
  /\ IsAt(Main, "outside") /\ ~Destroying(q) /\ q # Static /\ Unused(q)
  /\ Call(Main, "destroy", q)
  /\ UNCHANGED <<tasks, counter, cancelled, stop, gone, history>>

DestroyPool ==
  /\ gone = Queues \ {Static} /\ \A c \in Clients : IsAt(c, "outside")
  /\ stop' = TRUE
  /\ Go(Main, "notify_all", 0)
  /\ UNCHANGED <<tasks, counter, cancelled, gone, history>>

NotifyAll ==
  /\ IsAt(Main, "notify_all")
  /\ stack' = [t \in Threads |-> IF t \in Sleepers THEN <<Loop>>
                                 ELSE IF t = Main THEN <<Frame("joining", 0)>>
                                 ELSE stack[t]]
  /\ UNCHANGED <<tasks, counter, cancelled, stop, gone, history>>

Join ==
  /\ IsAt(Main, "joining") /\ \A w \in Workers : IsAt(w, "gone")
  /\ Go(Main, "gone", 0)
  /\ UNCHANGED <<tasks, counter, cancelled, stop, gone, history>>
-----------------------------------------------------------------------------
\* What the threads outside may call, and what a task may call while it runs.
ClientCalls(c) ==
  /\ IsAt(c, "outside") /\ ~Closing
  /\ \/ \E q \in Queues : ~Destroying(q) /\ Enqueue(c, q)
     \/ \E q \in Queues \ {Static} : ~Destroying(q) /\ (Wait(c, q) \/ Cancel(c, q))
     \/ Steal(c)

TaskCalls(t) ==
  /\ IsAt(t, "run")
  /\ LET own == queueOf[Top(t).arg] IN
       \/ \E q \in Queues : (q = own \/ ~Destroying(q)) /\ Enqueue(t, q)
       \/ \E q \in Queues : <<own, q>> \in MayWait /\ ~Destroying(q) /\ Wait(t, q)

WorkerRests(w) == WorkerLoops(w) \/ WorkerYields(w) \/ WorkerSleeps(w) \/ SleepEnds(w)
Process(t) == Take(t) \/ Miss(t) \/ Start(t) \/ Drop(t) \/ Finish(t) \/ CountOff(t)
GoOn(t)    == Push(t) \/ Process(t) \/ WaitHelps(t) \/ WaitReturns(t)
                \/ LowerFlag(t)

Next ==
  \/ \E c \in Clients : ClientCalls(c)
  \/ \E t \in Threads : TaskCalls(t) \/ GoOn(t)
  \/ \E w \in Workers : WorkerRests(w)
  \/ \E q \in Queues : DestroyQueue(q)
  \/ DestroyPool \/ NotifyAll \/ Join

Spec == Init /\ [][Next]_vars

(***************************************************************************)
(* Threads go on, tasks end, and the sleep ends by its timeout; nobody has *)
(* to call anything.                                                       *)
(***************************************************************************)
FairSpec ==
  /\ Spec
  /\ \A t \in Threads : WF_vars(GoOn(t))
  /\ \A w \in Workers : WF_vars(WorkerRests(w))
  /\ WF_vars(NotifyAll \/ Join)
-----------------------------------------------------------------------------
Working == {"push", "taken", "run", "count"}

FrameOK(f) ==
  \/ f.at \in {"outside", "loop", "rest", "asleep", "notify_all", "joining", "gone"}
     /\ f.arg = 0
  \/ f.at = "scan" /\ f.arg \in 0 .. Lowest
  \/ f.at \in Working /\ f.arg \in DOMAIN queueOf
  \/ f.at \in Awaiting /\ f.arg \in Queues

TypeOK ==
  /\ queueOf \in Seq(Queues) /\ Len(queueOf) <= MaxTasks
  /\ tasks \in [0 .. Lowest -> SUBSET DOMAIN queueOf]
  /\ counter \in [Queues -> 0 .. MaxTasks] /\ cancelled \in [Queues -> BOOLEAN]
  /\ stop \in BOOLEAN /\ gone \subseteq Queues \ {Static}
  /\ DOMAIN stack = Threads
  /\ \A t \in Threads : stack[t] # <<>> /\ \A f \in Frames(t) : FrameOK(f)
  /\ ran \subseteq DOMAIN queueOf /\ dropped \subseteq DOMAIN queueOf
  /\ overruled \subseteq Threads /\ calls \in 0 .. MaxCalls

\* task_counter is the number of tasks of the queue that were enqueued and not
\* yet counted off, wherever they are: raised and not yet visible, in the
\* lock-free queue, or in the hands of a thread (thread_pool.cpp:118, 138).
Held      == {f.arg : f \in {g \in UNION {Frames(t) : t \in Threads} :
                               g.at \in Working}}
Open(q)   == {x \in Held \cup UNION {tasks[p] : p \in 0 .. Lowest} : queueOf[x] = q}

CounterCounts == \A q \in Queues : counter[q] = Cardinality(Open(q))

\* A task is in one place at a time, and where it is it has not ended: it is
\* neither run twice, by its thread and a helper, nor run after it was dropped.
TaskFrames(x) ==
  UNION {{<<t, i>> : i \in {j \in DOMAIN stack[t] : /\ stack[t][j].at \in Working
                                                  /\ stack[t][j].arg = x}}
           : t \in Threads}

RunsOnce ==
  /\ \A x \in DOMAIN queueOf :
       /\ Cardinality(TaskFrames(x)) <= 1
       /\ \A p \in 0 .. Lowest :
            x \in tasks[p] => p = PriorityOf[queueOf[x]] /\ x \notin Held \cup ran \cup dropped
  /\ ran \cap dropped = {}
  /\ \A t \in Threads, f \in UNION {Frames(u) : u \in Threads} :
       f.at \in {"taken", "run"} => f.arg \notin ran \cup dropped

\* A flag is up only while somebody is in cancel(): what is enqueued when every
\* cancel() has returned will run.
FlagsAreLowered == \A q \in Queues : cancelled[q] => Cancelling(q) # {}

(***************************************************************************)
(* Every task is accounted for whatever threads, helpers and cancellations *)
(* do in between: the counter that wait() tests is the number of tasks of  *)
(* the queue that have not ended, no task ends twice, and no flag stays up *)
(* to drop a later one (thread_pool.cpp:112-158).                          *)
(***************************************************************************)
TasksAccounted == TypeOK /\ CounterCounts /\ RunsOnce /\ FlagsAreLowered

(***************************************************************************)
(* wait() returns when every task of the queue has run to its end or was   *)
(* dropped, the ones that other threads took and the ones that those tasks *)
(* enqueued as well ("drained", concurrent_queue.hpp:26).                  *)
(***************************************************************************)
WaitDrains ==
  [][\A t \in Threads : WaitReturns(t) =>
       \A x \in DOMAIN queueOf : queueOf[x] = Top(t).arg => x \in ran \cup dropped]_vars

(***************************************************************************)
(* Nothing is left of a queue that was destroyed: no thread has a task of  *)
(* it whose flag or counter it will still use, none waits in it, and the   *)
(* pool holds no task of it (concurrent_queue.cpp:17-20).  When the pool   *)
(* goes, no thread is in it.                                               *)
(***************************************************************************)
NoUseAfterDestroy ==
  /\ \A q \in gone : Open(q) = {} /\ \A t \in Threads : ~InCall(t, q)
  /\ IsAt(Main, "gone") =>
       /\ \A w \in Workers : stack[w] = <<Frame("gone", 0)>>
       /\ \A c \in Clients \ {Main} : stack[c] = <<Outside>>

(***************************************************************************)
(* While a thread is in cancel(), no task of that queue starts, unless     *)
(* another cancel() of the queue has ended in the meantime: it lowers the  *)
(* flag for both (thread_pool.cpp:153-158).                                *)
(***************************************************************************)
CancelDrops ==
  [][\A t \in Threads : Start(t) => Cancelling(queueOf[Top(t).arg]) \subseteq overruled]_vars

(***************************************************************************)
(* Every call that waits returns, though the tasks it waits for may wait   *)
(* themselves and there are fewer workers than tasks: for who waits helps  *)
(* ("helps pool until all tasks are complete", concurrent_queue.hpp:26).   *)
(***************************************************************************)
WaitsEnd ==
  \A t \in Threads : (\E q \in Queues : InCall(t, q)) ~> \A q \in Queues : ~InCall(t, q)

\* Every task ends that was enqueued into a Concurrent_queue, also when nobody
\* waits for it; those of the pool's own queue end unless the pool is destroyed
\* first.
TasksEnd ==
  \A x \in 1 .. MaxTasks :
    x \in DOMAIN queueOf ~>
      x \in ran \cup dropped \/ (stop /\ x \in DOMAIN queueOf /\ queueOf[x] = Static)

\* ~Thread_pool returns.
PoolEnds == stop ~> IsAt(Main, "gone")

(***************************************************************************)
(* A notification that comes too early to be heard, between a worker's     *)
(* failed dequeue and its sleep (thread_pool.cpp:96-101, 121), or in the   *)
(* destructor, which notifies without the mutex that the worker holds from *)
(* its decision to sleep (66-67), only delays: every task still ends, and  *)
(* the destructor still returns.                                           *)
(***************************************************************************)
WakeupsHeal == TasksEnd /\ PoolEnds
=============================================================================
