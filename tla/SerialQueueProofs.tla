------------------------- MODULE SerialQueueProofs -------------------------
(***************************************************************************)
(* Safety of the serial queue, for any number of clients, tasks and waits. *)
(* The argument is one inductive invariant: what the counter counts, where *)
(* every task is, and what a destructor has reached.                       *)
(***************************************************************************)
EXTENDS SerialQueue, TLAPS

Elements(s)   == {s[i] : i \in DOMAIN s}
Increasing(s) == \A i, j \in DOMAIN s : i < j => s[i] < s[j]

\* The task whose run has not come to its end.
Taken == IF worker = "running" THEN {current} ELSE {}

\* The deque holds the tasks after the first `Left', which have left it.
Left == enqueued - Len(queue)

\* Every task is in one place, and those that are run come in order.
Placed ==
  /\ Left \in Nat
  /\ \A i \in DOMAIN queue : queue[i] = Left + i
  /\ 1 .. Left = Ended \cup Taken
  /\ current <= Left
  /\ Increasing(finished)
  /\ \A t \in Elements(finished), u \in Taken : t < u
  /\ cancelled \cap (Elements(finished) \cup Taken) = {}
  /\ \A c \in Clients : asked[c] <= enqueued

\* The worker has a task just while the counter counts one more than the deque.
Counted ==
  /\ CounterCounts
  /\ current # 0 <=> worker \in {"running", "counting"}

\* Once the destructor has seen the queue drained, it stays so.
Closed ==
  /\ destroying => \A c \in Clients \ {Owner} : client[c] = "idle"
  /\ client[Owner] \in {"stopping", "notifying", "joining", "gone"}
       => destroying /\ counter = 0
  /\ \A c \in Clients \ {Owner} :
       client[c] \notin {"stopping", "notifying", "joining", "gone"}
  /\ stop => client[Owner] \in {"notifying", "joining", "gone"}
  /\ worker = "gone" => stop
  /\ destroying => client[Owner] # "idle"

IInv == TypeOK /\ Placed /\ Counted /\ Closed
-----------------------------------------------------------------------------
LEMMA AppendFacts ==
  ASSUME NEW S, NEW s \in Seq(S), NEW x \in S
  PROVE  /\ Append(s, x) \in Seq(S)
         /\ Len(Append(s, x)) = Len(s) + 1
         /\ \A i \in 1 .. Len(s) : Append(s, x)[i] = s[i]
         /\ Append(s, x)[Len(s) + 1] = x
         /\ Elements(Append(s, x)) = Elements(s) \cup {x}
<1>1. /\ Append(s, x) \in Seq(S)
      /\ Len(Append(s, x)) = Len(s) + 1
      /\ \A i \in 1 .. Len(s) : Append(s, x)[i] = s[i]
      /\ Append(s, x)[Len(s) + 1] = x
  OBVIOUS
<1>2. Elements(Append(s, x)) = Elements(s) \cup {x}
  <2>1. Elements(Append(s, x)) \subseteq Elements(s) \cup {x}
    BY <1>1 DEF Elements
  <2>2. Elements(s) \subseteq Elements(Append(s, x))
    BY <1>1 DEF Elements
  <2>3. x \in Elements(Append(s, x))
    BY <1>1 DEF Elements
  <2> QED BY <2>1, <2>2, <2>3
<1> QED BY <1>1, <1>2

LEMMA TailFacts ==
  ASSUME NEW S, NEW s \in Seq(S), Len(s) > 0
  PROVE  /\ Head(s) \in S /\ Tail(s) \in Seq(S)
         /\ Len(Tail(s)) = Len(s) - 1
         /\ \A i \in 1 .. Len(Tail(s)) : Tail(s)[i] = s[i + 1]
         /\ Head(s) = s[1]
  OBVIOUS
-----------------------------------------------------------------------------
LEMMA Initially == Init => IInv
<1> SUFFICES ASSUME Init PROVE IInv
  OBVIOUS
<1> USE SerialQueueAssumption DEF Init
<1>1. TypeOK
  <2>1. <<>> \in Seq(1 .. MaxTasks)
    OBVIOUS
  <2>2. 0 \in 0 .. MaxTasks /\ 0 \in 0 .. MaxWaits
    OBVIOUS
  <2>3. client \in [Clients -> Places]
    BY DEF Places
  <2>4. asked \in [Clients -> 0 .. MaxTasks]
    BY <2>2
  <2> QED BY <2>1, <2>2, <2>3, <2>4, Zenon DEF TypeOK
<1>2. Placed
  BY DEF Placed, Left, Ended, Taken, Increasing, Elements
<1>3. Counted
  BY DEF Counted, CounterCounts
<1>4. Closed
  BY DEF Closed
<1> QED BY <1>1, <1>2, <1>3, <1>4 DEF IInv
-----------------------------------------------------------------------------
\* Going from one place to the next, a client leaves the tasks where they are.
LEMMA GoKeeps ==
  ASSUME IInv, NEW c \in Clients, NEW place \in Places, Go(c, place),
         stop' \in BOOLEAN, destroying' \in BOOLEAN, waits' \in 0 .. MaxWaits,
         asked' = asked \/ asked' = [asked EXCEPT ![c] = enqueued]
  PROVE  TypeOK' /\ Placed' /\ Counted'
<1> USE DEF IInv, Go
<1>1. TypeOK'
  <2>1. client' \in [Clients -> Places]
    BY DEF TypeOK
  <2>2. asked' \in [Clients -> 0 .. MaxTasks]
    BY DEF TypeOK
  <2> QED BY <2>1, <2>2, Zenon DEF TypeOK
<1>2. Placed'
  <2>1. Left' = Left /\ Ended' = Ended /\ Taken' = Taken
    BY DEF Left, Ended, Taken
  <2>2. \A d \in Clients : asked'[d] <= enqueued
    BY SerialQueueAssumption DEF TypeOK, Placed
  <2> QED BY <2>1, <2>2 DEF Placed, Increasing, Elements
<1>3. Counted'
  BY DEF Counted, CounterCounts
<1> QED BY <1>1, <1>2, <1>3


\* What the invariant says of the numbers, for the steps below.
LEMMA Numbers ==
  ASSUME IInv
  PROVE  /\ Len(queue) \in Nat /\ enqueued \in Nat /\ counter \in Nat /\ Left \in Nat
         /\ enqueued = Left + Len(queue) /\ enqueued <= MaxTasks
         /\ counter <= enqueued /\ Len(queue) <= counter
         /\ counter = 0 => Len(queue) = 0 /\ current = 0
         /\ Taken \subseteq 1 .. Left /\ Ended \subseteq 1 .. Left
         /\ current \in Nat
<1> USE SerialQueueAssumption
<1>1. Len(queue) \in Nat /\ enqueued \in Nat /\ counter \in Nat /\ current \in Nat
  BY DEF IInv, TypeOK
<1>2. Left \in Nat /\ current <= Left
  BY DEF IInv, Placed
<1>3. enqueued = Left + Len(queue)
  BY <1>1, <1>2 DEF Left
<1>4. counter = Len(queue) + (IF current = 0 THEN 0 ELSE 1)
  BY DEF IInv, Counted, CounterCounts
<1>5. enqueued <= MaxTasks
  BY DEF IInv, TypeOK
<1>6. 1 .. Left = Ended \cup Taken
  BY DEF IInv, Placed
<1> QED BY <1>1, <1>2, <1>3, <1>4, <1>5, <1>6

\* A task put at the end of the deque will leave it after all the others.
LEMMA PushKeeps ==
  ASSUME IInv, Push
  PROVE  TypeOK' /\ Placed' /\ Counted'
<1> USE SerialQueueAssumption, Numbers DEF Push, NotifyWorker
<1>1. queue \in Seq(1 .. MaxTasks) /\ enqueued + 1 \in 1 .. MaxTasks
  BY DEF IInv, TypeOK
<1>2. /\ queue' \in Seq(1 .. MaxTasks)
      /\ Len(queue') = Len(queue) + 1
      /\ \A i \in 1 .. Len(queue) : queue'[i] = queue[i]
      /\ queue'[Len(queue) + 1] = enqueued + 1
  BY <1>1, AppendFacts
<1>3. TypeOK'
  <2>1. counter' \in 0 .. MaxTasks /\ enqueued' \in 0 .. MaxTasks
    OBVIOUS
  <2>2. worker' \in {"loop", "locking", "running", "counting", "asleep", "woken",
                     "gone"}
    BY DEF IInv, TypeOK
  <2> QED BY <1>2, <2>1, <2>2, Zenon DEF IInv, TypeOK
<1>4. Placed'
  <2>1. Left' = Left /\ Ended' = Ended /\ Taken' = Taken
    BY <1>2, SMTT(30) DEF Left, Ended, Taken
  <2>2. ASSUME NEW i \in DOMAIN queue' PROVE queue'[i] = Left + i
    <3>1. i \in 1 .. Len(queue) \/ i = Len(queue) + 1
      BY <1>2
    <3>2. CASE i \in 1 .. Len(queue)
      BY <1>1, <1>2, <3>2 DEF IInv, Placed
    <3>3. CASE i = Len(queue) + 1
      BY <1>2, <3>3
    <3> QED BY <3>1, <3>2, <3>3
  <2>3. \A c \in Clients : asked[c] <= enqueued + 1
    BY DEF IInv, Placed, TypeOK
  <2> QED BY <2>1, <2>2, <2>3 DEF IInv, Placed, Increasing, Elements
<1>5. Counted'
  BY <1>2 DEF IInv, Counted, CounterCounts
<1> QED BY <1>3, <1>4, <1>5

\* Those that are dropped are just the ones that had not left the deque.
LEMMA CancelKeeps ==
  ASSUME IInv, NEW c \in Clients, Cancel(c)
  PROVE  IInv'
<1> USE SerialQueueAssumption, Numbers DEF Cancel
<1> DEFINE dropped == {queue[i] : i \in DOMAIN queue}
<1>1. queue \in Seq(1 .. MaxTasks) /\ Len(queue') = 0 /\ queue' \in Seq(1 .. MaxTasks)
  BY DEF IInv, TypeOK
<1>2. dropped = (Left + 1) .. enqueued
  <2>1. dropped \subseteq (Left + 1) .. enqueued
    BY <1>1 DEF IInv, Placed
  <2>2. ASSUME NEW t \in (Left + 1) .. enqueued PROVE t \in dropped
    <3>1. t - Left \in DOMAIN queue
      BY <1>1
    <3>2. queue[t - Left] = t
      BY <3>1 DEF IInv, Placed
    <3> QED BY <3>1, <3>2
  <2> QED BY <2>1, <2>2
<1>3. /\ Ended' = Ended \cup dropped /\ Taken' = Taken /\ Left' = enqueued
      /\ cancelled' = cancelled \cup dropped
  BY <1>1 DEF Ended, Taken, Left
<1> HIDE DEF dropped
<1>4. TypeOK'
  <2>1. counter' \in 0 .. MaxTasks
    OBVIOUS
  <2>2. cancelled' \subseteq 1 .. MaxTasks
    <3>1. dropped \subseteq 1 .. MaxTasks
      BY <1>2
    <3> QED BY <1>3, <3>1, Zenon DEF IInv, TypeOK
  <2> QED BY <1>1, <2>1, <2>2, Zenon DEF IInv, TypeOK
<1>5. Placed'
  <2>1. 1 .. enqueued = Ended' \cup Taken'
    <3>1. 1 .. Left = Ended \cup Taken
      BY DEF IInv, Placed
    <3>2. 1 .. enqueued = (1 .. Left) \cup dropped
      BY <1>2
    <3> QED BY <1>3, <3>1, <3>2, Zenon
  <2>2. Elements(finished) \cup Taken \subseteq 1 .. Left
    BY DEF Ended, Elements
  <2>3. (cancelled \cup dropped) \cap (Elements(finished) \cup Taken) = {}
    BY <1>2, <2>2 DEF IInv, Placed
  <2>4. current <= enqueued
    BY DEF IInv, Placed
  <2>5. DOMAIN queue' = {}
    BY <1>1
  <2>6. \A t \in Elements(finished), u \in Taken : t < u
    BY DEF IInv, Placed
  <2>7. Increasing(finished) /\ Elements(finished)' = Elements(finished)
    BY DEF IInv, Placed, Elements
  <2>8. \A d \in Clients : asked[d] <= enqueued
    BY DEF IInv, Placed
  <2>9. Increasing(finished)'
    BY <2>7 DEF Increasing
  <2> QED BY <1>3, <2>1, <2>3, <2>4, <2>5, <2>6, <2>7, <2>8, <2>9 DEF Placed
<1>6. Counted'
  BY <1>1 DEF IInv, Counted, CounterCounts
<1>7. Closed'
  BY DEF MayCall, IInv, Closed
<1> QED BY <1>4, <1>5, <1>6, <1>7 DEF IInv
-----------------------------------------------------------------------------
\* The worker takes the first task that has not left the deque.
LEMMA TakesKeeps ==
  ASSUME IInv, WorkerTakes
  PROVE  IInv'
<1> USE SerialQueueAssumption, Numbers DEF WorkerTakes, history
<1>1. current = 0 /\ Taken = {} /\ Len(queue) > 0
  BY DEF IInv, Counted, CounterCounts, Taken
<1>2. queue \in Seq(1 .. MaxTasks)
  BY DEF IInv, TypeOK
<1>3. /\ Head(queue) \in 1 .. MaxTasks /\ Tail(queue) \in Seq(1 .. MaxTasks)
      /\ Len(Tail(queue)) = Len(queue) - 1
      /\ \A i \in 1 .. Len(Tail(queue)) : Tail(queue)[i] = queue[i + 1]
      /\ Head(queue) = queue[1]
  BY <1>1, <1>2, TailFacts
<1>4. current' = Left + 1 /\ Left' = Left + 1 /\ Taken' = {Left + 1} /\ Ended' = Ended
  <2>1. queue[1] = Left + 1
    BY <1>1, <1>2 DEF IInv, Placed
  <2>2. current' = Left + 1
    BY <1>3, <2>1
  <2>3. Left' = Left + 1
    BY <1>3 DEF Left
  <2> QED BY <2>2, <2>3 DEF Taken, Ended
<1>5. TypeOK'
  <2>1. current' \in 0 .. MaxTasks
    BY <1>3
  <2> QED BY <1>3, <2>1, Zenon DEF IInv, TypeOK
<1>6. Placed'
  <2>1. ASSUME NEW i \in DOMAIN queue' PROVE queue'[i] = Left' + i
    <3>1. i \in 1 .. Len(Tail(queue)) /\ i + 1 \in 1 .. Len(queue)
      BY <1>3
    <3>2. queue[i + 1] = Left + (i + 1)
      BY <1>2, <3>1, SMTT(30) DEF IInv, Placed
    <3> QED BY <1>3, <1>4, <3>1, <3>2
  <2>2. 1 .. Left' = Ended' \cup Taken'
    <3>1. 1 .. Left = Ended
      BY <1>1 DEF IInv, Placed
    <3>2. 1 .. (Left + 1) = (1 .. Left) \cup {Left + 1}
      OBVIOUS
    <3> QED BY <1>4, <3>1, <3>2, Zenon
  <2>3. Elements(finished) \subseteq 1 .. Left /\ cancelled \subseteq 1 .. Left
    BY DEF Elements, Ended
  <2>4. \A t \in Elements(finished), u \in Taken' : t < u
    BY <1>4, <2>3
  <2>5. cancelled \cap (Elements(finished) \cup Taken') = {}
    BY <1>4, <2>3 DEF IInv, Placed
  <2>6. Increasing(finished)' /\ Elements(finished)' = Elements(finished)
    BY DEF IInv, Placed, Increasing, Elements
  <2>7. \A c \in Clients : asked'[c] <= enqueued'
    BY DEF IInv, Placed
  <2> QED BY <1>4, <2>1, <2>2, <2>4, <2>5, <2>6, <2>7 DEF Placed
<1>7. Counted'
  BY <1>1, <1>3, <1>4 DEF IInv, Counted, CounterCounts
<1>8. Closed'
  BY DEF IInv, Closed
<1> QED BY <1>5, <1>6, <1>7, <1>8 DEF IInv

\* A task that is run to its end comes after all that were.
LEMMA FinishesKeeps ==
  ASSUME IInv, WorkerFinishes
  PROVE  IInv'
<1> USE SerialQueueAssumption, Numbers DEF WorkerFinishes
<1>1. Taken = {current} /\ Taken' = {} /\ current \in 1 .. Left /\ Left' = Left
  BY DEF Taken, Left
<1>2. finished \in Seq(1 .. MaxTasks) /\ current \in 1 .. MaxTasks
  BY <1>1 DEF IInv, TypeOK
<1>3. /\ finished' \in Seq(1 .. MaxTasks)
      /\ Len(finished') = Len(finished) + 1
      /\ \A i \in 1 .. Len(finished) : finished'[i] = finished[i]
      /\ finished'[Len(finished) + 1] = current
      /\ Elements(finished') = Elements(finished) \cup {current}
  BY <1>2, AppendFacts
<1>4. TypeOK'
  BY <1>3, Zenon DEF IInv, TypeOK
<1>5. Placed'
  <2>1. Ended = Elements(finished) \cup cancelled /\ Ended' = Elements(finished') \cup cancelled
    BY DEF Ended, Elements
  <2>2. 1 .. Left' = Ended' \cup Taken'
    BY <1>1, <1>3, <2>1 DEF IInv, Placed
  <2>3. Increasing(finished')
    <3> SUFFICES ASSUME NEW i \in DOMAIN finished', NEW j \in DOMAIN finished', i < j
                 PROVE  finished'[i] < finished'[j]
      BY DEF Increasing
    <3>1. i \in 1 .. Len(finished) /\ (j \in 1 .. Len(finished) \/ j = Len(finished) + 1)
      BY <1>2, <1>3
    <3>2. CASE j \in 1 .. Len(finished)
      BY <1>2, <1>3, <3>1, <3>2 DEF IInv, Placed, Increasing
    <3>3. CASE j = Len(finished) + 1
      <4>1. finished[i] \in Elements(finished)
        BY <1>2, <3>1 DEF Elements
      <4>2. finished[i] < current
        BY <1>1, <4>1 DEF IInv, Placed
      <4> QED BY <1>3, <3>1, <3>3, <4>2
    <3> QED BY <3>1, <3>2, <3>3
  <2>4. cancelled \cap Elements(finished') = {}
    BY <1>1, <1>3 DEF IInv, Placed
  <2>5. Elements(finished)' = Elements(finished') /\ Increasing(finished)'
    BY <2>3 DEF Elements, Increasing
  <2>6. /\ \A i \in DOMAIN queue' : queue'[i] = Left' + i
        /\ current' <= Left' /\ Left' \in Nat
        /\ \A c \in Clients : asked'[c] <= enqueued'
    BY <1>1 DEF IInv, Placed
  <2> QED BY <1>1, <2>2, <2>4, <2>5, <2>6 DEF Placed
<1>6. Counted'
  BY DEF IInv, Counted, CounterCounts
<1>7. Closed'
  BY DEF IInv, Closed
<1> QED BY <1>4, <1>5, <1>6, <1>7 DEF IInv

\* The other steps of the worker move no task; one of them counts a task off.
LEMMA WorkerKeeps ==
  ASSUME IInv, WorkerLoops \/ WorkerCounts \/ WorkerRests \/ WorkerWakes
  PROVE  IInv'
<1> USE SerialQueueAssumption, Numbers
    DEF WorkerLoops, WorkerCounts, WorkerRests, WorkerWakes, history
<1>1. /\ UNCHANGED <<queue, stop, destroying, enqueued, finished, cancelled, asked, waits>>
      /\ worker # "running" /\ worker' # "running"
      /\ current' = current \/ current' = 0
  OBVIOUS
<1>2. CounterCounts /\ (current # 0 <=> worker \in {"running", "counting"})
  BY DEF IInv, Counted
<1>3. /\ (counter' \in 0 .. MaxTasks /\ counter' = counter) \/ counter # 0
      /\ Counted'
  BY <1>2 DEF IInv, TypeOK, Counted, CounterCounts
<1>4. TypeOK'
  <2>1. worker' \in {"loop", "locking", "running", "counting", "asleep", "woken", "gone"}
    OBVIOUS
  <2>2. client' \in [Clients -> Places]
    BY DEF IInv, TypeOK, NotifyWaiters, Places
  <2>3. current' \in 0 .. MaxTasks
    BY <1>1 DEF IInv, TypeOK
  <2> QED BY <1>1, <1>3, <2>1, <2>2, <2>3 DEF IInv, TypeOK
<1>5. Placed'
  <2>1. Left' = Left /\ Ended' = Ended /\ Taken' = {} /\ Taken = {}
    BY <1>1 DEF Left, Ended, Taken
  <2>2. current' <= Left
    BY <1>1 DEF IInv, Placed
  <2> QED BY <1>1, <2>1, <2>2 DEF IInv, Placed, Increasing, Elements
<1>6. Closed'
  <2>1. \A c \in Clients : client'[c] = client[c] \/ (client[c] = "asleep" /\ client'[c] = "woken")
    BY DEF IInv, TypeOK, NotifyWaiters
  <2>2. worker' = "gone" => stop
    BY DEF IInv, Closed
  <2> QED BY <1>1, <1>3, <2>1, <2>2 DEF IInv, Closed
<1> QED BY <1>3, <1>4, <1>5, <1>6 DEF IInv
-----------------------------------------------------------------------------
\* Only a client or a running task enqueues, and neither is left at the end.
LEMMA EnqueueKeeps ==
  ASSUME IInv, (\E c \in Clients : Enqueue(c)) \/ TaskEnqueues
  PROVE  IInv'
<1>1. Push /\ (~destroying \/ worker = "running")
  BY DEF Enqueue, TaskEnqueues, MayCall
<1>2. TypeOK' /\ Placed' /\ Counted'
  BY <1>1, PushKeeps
<1>3. client[Owner] \notin {"stopping", "notifying", "joining", "gone"}
  <2>1. worker = "running" => counter # 0
    BY Numbers DEF IInv, Counted
  <2> QED BY <1>1, <2>1 DEF IInv, Closed
<1>4. Closed'
  BY <1>1, <1>3 DEF Push, NotifyWorker, IInv, Closed
<1> QED BY <1>2, <1>4 DEF IInv

LEMMA CallWaitKeeps ==
  ASSUME IInv, NEW c \in Clients, CallWait(c)
  PROVE  IInv'
<1> USE SerialQueueAssumption DEF CallWait, EnterWait, MayCall
<1>1. TypeOK' /\ Placed' /\ Counted'
  <2>1. waits' \in 0 .. MaxWaits /\ stop' \in BOOLEAN /\ destroying' \in BOOLEAN
    BY DEF IInv, TypeOK
  <2> QED BY <2>1, GoKeeps DEF Places
<1>2. client' = [client EXCEPT ![c] = "locking"] /\ client \in [Clients -> Places]
  BY DEF Go, IInv, TypeOK
<1>3. Closed'
  BY <1>2 DEF Go, IInv, Closed
<1> QED BY <1>1, <1>3 DEF IInv

\* A wait that returns to the destructor has seen the counter at zero.
LEMMA WaitingKeeps ==
  ASSUME IInv, NEW c \in Clients, Waiting(c)
  PROVE  IInv'
<1> USE SerialQueueAssumption
    DEF Waiting, LockWait, TestFails, Sleep, WaitReturns
<1>1. PICK place \in Places : Go(c, place)
  BY DEF Places
<1>2. UNCHANGED <<stop, destroying, asked, waits>> /\ client \in [Clients -> Places]
  BY DEF IInv, TypeOK
<1>3. TypeOK' /\ Placed' /\ Counted'
  <2>1. waits' \in 0 .. MaxWaits /\ stop' \in BOOLEAN /\ destroying' \in BOOLEAN
    BY <1>2 DEF IInv, TypeOK
  <2> QED BY <1>1, <1>2, <2>1, GoKeeps
<1>4. destroying => c = Owner
  BY DEF IInv, Closed
<1>5. client[c] \in {"locking", "woken", "testing", "falling_asleep"}
  OBVIOUS
<1>6. \/ client' = [client EXCEPT ![c] = "testing"]
      \/ client' = [client EXCEPT ![c] = "falling_asleep"]
      \/ client' = [client EXCEPT ![c] = "asleep"]
      \/ client' = [client EXCEPT ![c] = "idle"] /\ ~destroying
      \/ client' = [client EXCEPT ![c] = "stopping"] /\ destroying /\ counter = 0
  BY DEF Go
<1>7. counter' = counter /\ worker' = worker
  BY <1>1 DEF Go
<1>8. Closed'
  BY <1>2, <1>4, <1>5, <1>6, <1>7 DEF IInv, Closed
<1> QED BY <1>3, <1>8 DEF IInv

\* The steps of the destructor around its wait.
LEMMA DestructorKeeps ==
  ASSUME IInv, Destroy \/ Closing
  PROVE  IInv'
<1> USE SerialQueueAssumption
<1>1. client \in [Clients -> Places]
  BY DEF IInv, TypeOK
<1>2. CASE Destroy
  <2>1. TypeOK' /\ Placed' /\ Counted'
    <3>1. waits' \in 0 .. MaxWaits /\ stop' \in BOOLEAN /\ destroying' \in BOOLEAN
      BY <1>2 DEF IInv, TypeOK, Destroy
    <3> QED BY <1>2, <3>1, GoKeeps DEF Places, Destroy, EnterWait
  <2>2. Closed'
    BY <1>1, <1>2 DEF IInv, Closed, Destroy, EnterWait, Go
  <2> QED BY <2>1, <2>2 DEF IInv
<1>3. CASE Stop
  <2>1. TypeOK' /\ Placed' /\ Counted'
    <3>1. waits' \in 0 .. MaxWaits /\ stop' \in BOOLEAN /\ destroying' \in BOOLEAN
      BY <1>3 DEF IInv, TypeOK, Stop
    <3> QED BY <1>3, <3>1, GoKeeps DEF Places, Stop
  <2>2. Closed'
    BY <1>1, <1>3 DEF IInv, Closed, Stop, Go
  <2> QED BY <2>1, <2>2 DEF IInv
<1>4. CASE NotifyStop
  <2>1. TypeOK'
    <3>1. worker' \in {"loop", "locking", "running", "counting", "asleep", "woken",
                       "gone"}
      BY <1>4 DEF IInv, TypeOK, NotifyStop, NotifyWorker
    <3>2. client' \in [Clients -> Places]
      BY <1>1, <1>4 DEF NotifyStop, Places
    <3> QED BY <1>4, <3>1, <3>2 DEF IInv, TypeOK, NotifyStop, history
  <2>2. Placed'
    <3>1. Left' = Left /\ Ended' = Ended /\ Taken' = Taken
      BY <1>4 DEF Left, Ended, Taken, NotifyStop, NotifyWorker, history
    <3> QED BY <1>4, <3>1 DEF IInv, Placed, Increasing, Elements, NotifyStop, history
  <2>3. Counted'
    BY <1>4 DEF IInv, Counted, CounterCounts, NotifyStop, NotifyWorker
  <2>4. Closed'
    BY <1>1, <1>4 DEF IInv, Closed, NotifyStop, NotifyWorker
  <2> QED BY <2>1, <2>2, <2>3, <2>4 DEF IInv
<1>5. CASE Join
  <2>1. TypeOK' /\ Placed' /\ Counted'
    <3>1. waits' \in 0 .. MaxWaits /\ stop' \in BOOLEAN /\ destroying' \in BOOLEAN
      BY <1>5 DEF IInv, TypeOK, Join
    <3> QED BY <1>5, <3>1, GoKeeps DEF Places, Join
  <2>2. Closed'
    BY <1>1, <1>5 DEF IInv, Closed, Join, Go
  <2> QED BY <2>1, <2>2 DEF IInv
<1> QED BY <1>2, <1>3, <1>4, <1>5 DEF Closing
-----------------------------------------------------------------------------
\* Every step of the queue keeps the invariant.
LEMMA NextKeeps == IInv /\ [Next]_vars => IInv'
<1> SUFFICES ASSUME IInv, [Next]_vars PROVE IInv'
  OBVIOUS
<1>1. CASE UNCHANGED vars
  BY <1>1 DEF vars, history, IInv, TypeOK, Placed, Counted, Closed, Left, Ended, Taken,
              Increasing, Elements, CounterCounts
<1>2. ASSUME NEW c \in Clients, Enqueue(c) PROVE IInv'
  BY <1>2, EnqueueKeeps
<1>3. ASSUME NEW c \in Clients, Cancel(c) PROVE IInv'
  BY <1>3, CancelKeeps
<1>4. ASSUME NEW c \in Clients, CallWait(c) PROVE IInv'
  BY <1>4, CallWaitKeeps
<1>5. ASSUME NEW c \in Clients, Waiting(c) PROVE IInv'
  BY <1>5, WaitingKeeps
<1>6. CASE Destroy \/ Closing
  BY <1>6, DestructorKeeps
<1>7. CASE TaskEnqueues
  BY <1>7, EnqueueKeeps
<1>8. CASE Working
  BY <1>8, TakesKeeps, FinishesKeeps, WorkerKeeps DEF Working
<1> QED BY <1>1, <1>2, <1>3, <1>4, <1>5, <1>6, <1>7, <1>8 DEF Next

\* The inductive invariant holds of every execution of the queue.
THEOREM Invariance == Spec => []IInv
BY Initially, NextKeeps, PTL DEF Spec

\* m_task_counter counts the deque and the task being run: the worker never
\* takes a task from an empty deque (serial_queue.cpp:45-48).  Every variable
\* keeps its type.
THEOREM CounterCorrect == Spec => []CounterSound
<1>1. IInv => CounterSound
  BY DEF IInv, Counted, CounterSound
<1> QED BY Invariance, <1>1, PTL

\* Tasks are run one after another, in the order they were enqueued, and none
\* that was cancelled (serial_queue.hpp:19).
THEOREM OrderKept == Spec => []RunsInOrder
<1>1. IInv => RunsInOrder
  BY DEF IInv, Placed, RunsInOrder, Increasing, Elements
<1> QED BY Invariance, <1>1, PTL

\* When the destructor has joined the worker every task has ended
\* (serial_queue.cpp:27-38).
THEOREM NoneLeft == Spec => []NothingLeftBehind
<1>1. IInv => NothingLeftBehind
  <2> SUFFICES ASSUME IInv, worker = "gone" PROVE 1 .. enqueued \subseteq Ended
    BY DEF NothingLeftBehind
  <2>1. counter = 0
    BY DEF IInv, Closed
  <2>2. Left = enqueued /\ Taken = {}
    BY <2>1, Numbers DEF Taken
  <2> QED BY <2>2 DEF IInv, Placed
<1> QED BY Invariance, <1>1, PTL

\* A call of wait() returns only when all that was enqueued before it has ended
\* (serial_queue.cpp:75-86).
THEOREM WaitIsSound == Spec => WaitDrains
<1> DEFINE Sound == \A c \in Clients : WaitReturns(c) => 1 .. asked[c] \subseteq Ended
<1>1. IInv /\ [Next]_vars => [Sound]_vars
  <2> SUFFICES ASSUME IInv, NEW c \in Clients, WaitReturns(c)
               PROVE  1 .. asked[c] \subseteq Ended
    OBVIOUS
  <2>1. counter = 0
    BY DEF WaitReturns
  <2>2. Left = enqueued /\ current = 0
    BY <2>1, Numbers
  <2>3. Taken = {}
    BY <2>2 DEF IInv, Counted, Taken
  <2>4. 1 .. enqueued \subseteq Ended
    BY <2>2, <2>3 DEF IInv, Placed
  <2>5. asked[c] <= enqueued /\ asked[c] \in Nat /\ enqueued \in Nat
    BY SerialQueueAssumption DEF IInv, Placed, TypeOK
  <2> QED BY <2>4, <2>5
<1> QED BY Invariance, <1>1, PTL DEF Spec, WaitDrains
=============================================================================
