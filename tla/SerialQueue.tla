---------------------------- MODULE SerialQueue ----------------------------
(***************************************************************************)
(* erhe::concurrency::Serial_queue (src/erhe/concurrency/serial_queue.cpp):*)
(* a deque of tasks, a worker thread that runs them one at a time, and     *)
(* clients that enqueue, cancel and wait.                                  *)
(*                                                                         *)
(* m_queue_mutex is only held within one step of a thread here: nothing    *)
(* that it guards is seen between the lines that hold it.  m_wait_mutex is *)
(* held by the client in the places Holding.  Between testing its          *)
(* predicate and sleeping on m_wait_condition a client holds m_wait_mutex  *)
(* only, so what does not take that mutex may fall in between.             *)
(*                                                                         *)
(* The n-th task that is enqueued is task n.  Wakeups without a notify are *)
(* left out: both waits test their predicate again after each.             *)
(***************************************************************************)
EXTENDS Integers, Sequences

CONSTANTS Clients,    \* the threads that use the queue
          Owner,      \* the client that destroys it
          MaxTasks,   \* bound on the tasks enqueued
          MaxWaits    \* bound on the calls of wait()

ASSUME SerialQueueAssumption ==
  Owner \in Clients /\ MaxTasks \in Nat /\ MaxWaits \in Nat

VARIABLES
  queue,      \* m_task_queue
  counter,    \* m_task_counter
  stop,       \* m_stop
  destroying, \* the owner is in the destructor
  worker,     \* where the worker thread is
  current,    \* the task it has taken, 0 if none
  client,     \* where each client is
  enqueued,   \* history: number of tasks enqueued,
  finished,   \* the tasks that were run, in that order,
  cancelled,  \* those that were dropped,
  asked,      \* how many there were when a client called wait(),
  waits       \* and the number of those calls

history == <<enqueued, finished, cancelled, asked, waits>>
vars == <<queue, counter, stop, destroying, worker, current, client, history>>

Init ==
  /\ queue = <<>> /\ counter = 0 /\ stop = FALSE /\ destroying = FALSE
  /\ worker = "loop" /\ current = 0
  /\ client = [c \in Clients |-> "idle"]
  /\ enqueued = 0 /\ finished = <<>> /\ cancelled = {}
  /\ asked = [c \in Clients |-> 0] /\ waits = 0
-----------------------------------------------------------------------------
Holding       == {"testing", "falling_asleep"}
WaitMutexFree == \A c \in Clients : client[c] \notin Holding

\* Wrong: the notify is missing.
NotifyNobody == UNCHANGED worker

\* Waking the worker, if it sleeps on m_task_condition.
NotifyWorker == worker' = IF worker = "asleep" THEN "woken" ELSE worker

\* m_wait_condition.notify_all()
NotifyWaiters ==
  client' = [c \in Clients |-> IF client[c] = "asleep" THEN "woken" ELSE client[c]]

\* A client may call the queue unless it is being destroyed.
MayCall(c) == client[c] = "idle" /\ ~destroying
-----------------------------------------------------------------------------
\* Wrong: the newest task is put in front.
PushFront ==
  /\ enqueued < MaxTasks
  /\ enqueued' = enqueued + 1
  /\ queue' = <<enqueued + 1>> \o queue
  /\ counter' = counter + 1
  /\ NotifyWorker
  /\ UNCHANGED <<stop, destroying, current, client, finished, cancelled, asked,
                 waits>>

Push ==
  /\ enqueued < MaxTasks
  /\ enqueued' = enqueued + 1
  /\ queue' = Append(queue, enqueued + 1)
  /\ counter' = counter + 1
  /\ NotifyWorker
  /\ UNCHANGED <<stop, destroying, current, client, finished, cancelled, asked,
                 waits>>

Enqueue(c) == MayCall(c) /\ Push

\* A task may enqueue another one while it runs.
TaskEnqueues == worker = "running" /\ Push

\* Wrong: forgets that a task may be running, or takes it for cancelled.
CancelZeroes(c) ==
  /\ MayCall(c)
  /\ counter' = 0
  /\ queue' = <<>>
  /\ cancelled' = cancelled \cup {queue[i] : i \in DOMAIN queue}
  /\ UNCHANGED <<stop, destroying, worker, current, client, enqueued, finished, asked,
                 waits>>

CancelOneMore(c) ==
  /\ MayCall(c)
  /\ counter' = counter - Len(queue) - 1
  /\ queue' = <<>>
  /\ cancelled' = cancelled \cup {queue[i] : i \in DOMAIN queue}
  /\ UNCHANGED <<stop, destroying, worker, current, client, enqueued, finished, asked,
                 waits>>

Cancel(c) ==
  /\ MayCall(c)
  /\ counter' = counter - Len(queue)
  /\ queue' = <<>>
  /\ cancelled' = cancelled \cup {queue[i] : i \in DOMAIN queue}
  /\ UNCHANGED <<stop, destroying, worker, current, client, enqueued, finished, asked,
                 waits>>
-----------------------------------------------------------------------------
Go(c, place) ==
  /\ client' = [client EXCEPT ![c] = place]
  /\ UNCHANGED <<queue, counter, worker, current, enqueued, finished, cancelled>>

EnterWait(c) == Go(c, "locking") /\ asked' = [asked EXCEPT ![c] = enqueued]

CallWait(c) ==
  /\ MayCall(c) /\ waits < MaxWaits
  /\ waits' = waits + 1
  /\ EnterWait(c) /\ UNCHANGED <<stop, destroying>>

\* Wrong: a destructor that does not wait.
DestroyAtOnce ==
  /\ ~destroying /\ \A c \in Clients : client[c] = "idle"
  /\ destroying' = TRUE
  /\ Go(Owner, "stopping") /\ UNCHANGED <<stop, asked, waits>>

\* The destructor starts with wait(); no other client is inside by then.
Destroy ==
  /\ ~destroying /\ \A c \in Clients : client[c] = "idle"
  /\ destroying' = TRUE
  /\ EnterWait(Owner) /\ UNCHANGED <<stop, waits>>

LockWait(c) ==
  /\ client[c] \in {"locking", "woken"} /\ WaitMutexFree
  /\ Go(c, "testing") /\ UNCHANGED <<stop, destroying, asked, waits>>

TestFails(c) ==
  /\ client[c] = "testing" /\ counter # 0
  /\ Go(c, "falling_asleep") /\ UNCHANGED <<stop, destroying, asked, waits>>

Sleep(c) ==
  /\ client[c] = "falling_asleep"
  /\ Go(c, "asleep") /\ UNCHANGED <<stop, destroying, asked, waits>>

\* Wrong: an empty deque is taken for a drained queue.
WaitReturnsEmpty(c) ==
  /\ client[c] = "testing" /\ queue = <<>>
  /\ Go(c, IF destroying THEN "stopping" ELSE "idle")
  /\ UNCHANGED <<stop, destroying, asked, waits>>

WaitReturns(c) ==
  /\ client[c] = "testing" /\ counter = 0
  /\ Go(c, IF destroying THEN "stopping" ELSE "idle")
  /\ UNCHANGED <<stop, destroying, asked, waits>>

\* The rest of the destructor: m_stop, notify_one, join.
Stop ==
  /\ client[Owner] = "stopping"
  /\ stop' = TRUE
  /\ Go(Owner, "notifying") /\ UNCHANGED <<destroying, asked, waits>>

\* Wrong: m_stop is set and the worker left asleep.
StopSilently ==
  /\ client[Owner] = "notifying"
  /\ client' = [client EXCEPT ![Owner] = "joining"]
  /\ UNCHANGED <<queue, counter, stop, destroying, worker, current, history>>

NotifyStop ==
  /\ client[Owner] = "notifying"
  /\ NotifyWorker
  /\ client' = [client EXCEPT ![Owner] = "joining"]
  /\ UNCHANGED <<queue, counter, stop, destroying, current, history>>

Join ==
  /\ client[Owner] = "joining" /\ worker = "gone"
  /\ Go(Owner, "gone") /\ UNCHANGED <<stop, destroying, asked, waits>>
-----------------------------------------------------------------------------
\* thread()
WorkerLoops ==
  /\ worker = "loop"
  /\ worker' = IF stop THEN "gone" ELSE "locking"
  /\ UNCHANGED <<queue, counter, stop, destroying, current, client, history>>

WorkerTakes ==
  /\ worker = "locking" /\ counter > 0
  /\ current' = Head(queue) /\ queue' = Tail(queue)
  /\ worker' = "running"
  /\ UNCHANGED <<counter, stop, destroying, client, history>>

WorkerFinishes ==
  /\ worker = "running"
  /\ finished' = Append(finished, current)
  /\ worker' = "counting"
  /\ UNCHANGED <<queue, counter, stop, destroying, current, client, enqueued,
                 cancelled, asked, waits>>

\* Wrong: counts the task off without m_wait_mutex.
WorkerCountsUnlocked ==
  /\ worker = "counting"
  /\ counter' = counter - 1
  /\ current' = 0
  /\ worker' = "loop"
  /\ UNCHANGED <<queue, stop, destroying, client, history>>

WorkerCounts ==
  /\ worker = "counting" /\ WaitMutexFree
  /\ counter' = counter - 1
  /\ current' = 0
  /\ worker' = "loop"
  /\ UNCHANGED <<queue, stop, destroying, client, history>>

\* With nothing to do: notify_all on the waiters, then sleep unless stopped.
WorkerRests ==
  /\ worker = "locking" /\ counter <= 0
  /\ NotifyWaiters
  /\ worker' = IF stop THEN "loop" ELSE "asleep"
  /\ UNCHANGED <<queue, counter, stop, destroying, current, history>>

WorkerWakes ==
  /\ worker = "woken"
  /\ worker' = IF stop \/ counter # 0 THEN "loop" ELSE "asleep"
  /\ UNCHANGED <<queue, counter, stop, destroying, current, client, history>>

Working == WorkerLoops \/ WorkerTakes \/ WorkerFinishes \/ WorkerCounts
             \/ WorkerRests \/ WorkerWakes
Waiting(c) == LockWait(c) \/ TestFails(c) \/ Sleep(c) \/ WaitReturns(c)
Closing    == Stop \/ NotifyStop \/ Join

Next ==
  \/ \E c \in Clients : Enqueue(c) \/ Cancel(c) \/ CallWait(c) \/ Waiting(c)
  \/ Destroy \/ Closing
  \/ TaskEnqueues \/ Working

Spec == Init /\ [][Next]_vars

(***************************************************************************)
(* Threads that can go on do, and tasks end; nobody has to call anything.  *)
(* No fairness of the mutexes is assumed: a thread waits for one only as   *)
(* long as there are others to use it, and their calls are bounded.        *)
(***************************************************************************)
FairSpec ==
  /\ Spec /\ WF_vars(Working) /\ WF_vars(Closing)
  /\ \A c \in Clients : WF_vars(Waiting(c))
-----------------------------------------------------------------------------
Places == {"idle", "locking", "testing", "falling_asleep", "asleep", "woken",
           "stopping", "notifying", "joining", "gone"}

TypeOK ==
  /\ queue \in Seq(1 .. MaxTasks) /\ counter \in 0 .. MaxTasks
  /\ stop \in BOOLEAN /\ destroying \in BOOLEAN
  /\ worker \in {"loop", "locking", "running", "counting", "asleep", "woken", "gone"}
  /\ current \in 0 .. MaxTasks
  /\ client \in [Clients -> Places]
  /\ enqueued \in 0 .. MaxTasks
  /\ finished \in Seq(1 .. MaxTasks) /\ cancelled \subseteq 1 .. MaxTasks
  /\ asked \in [Clients -> 0 .. MaxTasks] /\ waits \in 0 .. MaxWaits

Ended == {finished[i] : i \in DOMAIN finished} \cup cancelled

(***************************************************************************)
(* m_task_counter counts the tasks in the deque and the one being run, in  *)
(* spite of the tasks being counted off under another mutex than they are  *)
(* counted in and cancelled under: so the worker never takes a task from   *)
(* an empty deque (serial_queue.cpp:45-48).                                *)
(***************************************************************************)
CounterCounts == counter = Len(queue) + (IF current = 0 THEN 0 ELSE 1)

\* The same, with the types of all variables.
CounterSound == TypeOK /\ CounterCounts

(***************************************************************************)
(* Each task is executed after the previous one has completed, in the      *)
(* order they were enqueued, and at most once (serial_queue.hpp:19).       *)
(***************************************************************************)
RunsInOrder ==
  /\ \A i, j \in DOMAIN finished : i < j => finished[i] < finished[j]
  /\ \A i \in DOMAIN finished : finished[i] \notin cancelled

(***************************************************************************)
(* When wait() returns, every task that was enqueued before the call has   *)
(* been run to its end or was cancelled (serial_queue.hpp:37-38).          *)
(***************************************************************************)
WaitDrains ==
  [][\A c \in Clients : WaitReturns(c) => 1 .. asked[c] \subseteq Ended]_vars

(***************************************************************************)
(* The destructor leaves nothing behind: when the worker has gone, every   *)
(* task there ever was has ended, also those enqueued by tasks             *)
(* (serial_queue.cpp:27-38).                                               *)
(***************************************************************************)
NothingLeftBehind == worker = "gone" => 1 .. enqueued \subseteq Ended

(***************************************************************************)
(* The comment on the API says that wait() blocks until the queue is       *)
(* drained (serial_queue.hpp:37-38), so every call of wait() returns.  It  *)
(* does if no task is cancelled: no notify is lost between the test and    *)
(* the sleep of a client, for the worker counts a task off under           *)
(* m_wait_mutex.  cancel() does not, and does not notify either.           *)
(***************************************************************************)
WaitEnds ==
  \A c \in Clients : client[c] = "locking" ~> client[c] \in {"idle", "stopping"}
WaitEndsUncancelled == [](cancelled = {}) => WaitEnds

(***************************************************************************)
(* Every task that is enqueued ends, and a destructor that was called      *)
(* returns: the worker misses neither a task nor the stop.                 *)
(***************************************************************************)
TasksEnd     == \A t \in 1 .. MaxTasks : enqueued >= t ~> t \in Ended
DestroyEnds  == destroying ~> client[Owner] = "gone"
=============================================================================
